# TLA+ verification of kpi-tenders-go

The program is the backend of a tender-analysis tool.  Users upload documents; Python
workers, reached through a Celery queue in Redis, convert them to markdown, anonymize
them and extract answers to questions; workers report back over HTTP.  The Go service
keeps the state in PostgreSQL, chains the steps and watches for tasks that got lost.

## 1. The system

| Part | State | Operations | Talks to |
|---|---|---|---|
| watchdog (`internal/watchdog`) | none of its own; a cutoff and a batch during a scan | `Start`, `runOnce`, `processTask` | `document_tasks`, publisher |
| worker callbacks (`service_worker.go`, `handler_worker.go`) | none; a local copy of the task row | `HandleStatusUpdate`, artifact registration, `triggerAnonymize`, `progressPendingRequests`, `failPendingRequests` | `document_tasks`, `documents`, extraction, publisher |
| extraction requests (`service_extraction.go`) | `extraction_requests` | `Initiate`, `Progress`, `OnResolveKeysCompleted`, `OnExtractCompleted`, `MarkRequestFailed` | all tables, publisher |
| answers (`service_extraction.go`, `extraction.sql.go`) | `extraction_keys`, `document_extracted_data` | storing keys and values, `GetAnswers` | `extraction_requests` |
| document tasks API (`service_document_task.go`) | `document_tasks` | create convert, PATCH status, delete, list | publisher |
| publisher (`internal/pythonworker`) | Redis queues | `New`, `Process` (one LPUSH), `Close` | the workers |
| documents and uploads (`handler_document.go`, `service_document.go`, `internal/storage`) | `documents`, S3 objects | upload, metadata, download URL, delete | S3, PostgreSQL |
| accounts (`service_auth.go`, `service_user.go`, `service_invitation.go`, `service_organization.go`, middleware) | `organizations`, `users`, `user_invitations`, JWTs | register, login, refresh, invite, roles, activation | PostgreSQL |
| sites, directories, comparison sessions | `construction_sites`, `contract_kinds`, `file_roles`, `comparison_sessions`, `site_audit_log`, view `v_site_status` | CRUD, status, audit | PostgreSQL |
| start and shutdown (`cmd/api/main.go`) | goroutines, Redis client | start, signal, ordered stop | watchdog, HTTP server, Redis |

What is hard in it:

* Nothing that spans several statements runs in a transaction.  A callback updates the
  task, registers artifacts, creates the next task, publishes it and progresses the
  requests, each as a statement of its own, while other callbacks, new requests and the
  watchdogs of all replicas do the same to the same rows.
* Redis may accept a message and report an error; a worker may die with a message, or
  answer twice, late, or after the watchdog has requeued the task.
* The watchdog compares its own clock with timestamps of the database.
* Decisions are taken on copies: `processTask` uses the listed `retry_count`, `Progress`
  the listed status of the request.
* Handlers check what a request refers to and write afterwards; the row that was checked
  may be deleted in between, and only the triggers and foreign keys are left to object.
* Access tokens carry role and organization; nothing looks at the row while they last.
* Waiting is implicit: a request in `pending` has no timer; it moves only when the
  callback of a task it depends on lists it.
* An answer is put together from three tables that different callbacks write, and the
  values are shared by all requests of a document.
* At a shutdown the watchdog and the handlers are somewhere in their work, and the
  connections they use are closed by a third goroutine.

What makes each part correct:

* watchdog: bounded retries, bounded messages per retry, one claim per stale period,
  live tasks left alone, every lost task found again;
* chaining: no lost wakeups, no task published twice, no step skipped, the right text
  given to the right request; a request that waits for a task under way ends;
* answers: a value that extract found and that has a key is shown, is not taken back, and
  stays inside the tenant (that it is the request's own, and the only one of its name, the
  documentation says and the code does not keep: section 5);
* documents: but for recorded faults a row has its object and no object is left behind;
  deletion leaves nothing dangling;
* accounts: registration is all or nothing; what a token claims is true of the user's row
  or was true a bounded time ago; users are changed by those who are, or were
  within the life of a token, administrators of their own organization or the owner;
* directories and sessions: references only to existing rows inside the tenant;
* start and shutdown: nobody works on a closed connection, a clean end has cut nobody
  short, a signal always ends the process;
* sites: a forest; a site shows the activity of everything below it (its status only that
  of the leaves: section 5).

## 2. Modules

`Watchdog` - the goroutine and every writer of `document_tasks`.
One step per SQL statement or LPUSH.  `now` is the database's clock; a replica computes
its cutoff from `now + d`, `|d| <= MaxSkew`.  `task[t]` is the row; `sent[t][k]` counts
messages pushed for the `k`-th claim of `t` (0 is the first publication); `watchdog[i]`
holds what `runOnce` and `processTask` keep on the stack: the cutoff, the rest of the
batch with the `retry_count` as listed, the row being published and the attempt.

| Action | Code |
|---|---|
| `ListStaleTasks` | `runOnce`: cutoff and listing |
| `FailExhausted`, `Claim`, `ClaimLost`, `MarkError` | the two branches of `processTask` and their early returns; an error may hide a commit |
| `Publish`, `PublishError` | the publish loop; an error may hide a push |
| `Stop`, `Restart` | cancelled context or crash at any point; next start |
| `InsertTask`, `PublishFirst`, `PublishFirstError`, `MarkFirstFailed` | the creators of tasks |
| `WorkerCallback`, `UserUpdateStatus`, `UserDelete` | callbacks, PATCH and DELETE |

`Pipeline` - `WorkerService` and `ExtractionService`.
A thread is one HTTP request being served; its `pc` is the next statement, and its other
fields are the Go locals that survive from one statement to the next (the task row that
`UpdateWorkerTaskStatus` returned, the list of requests, the task just inserted).  A task
is identified by its unique index: document and module, or request and module.  Messages
carry the kwargs because the watchdog's do not.  The watchdog appears by its effect on a
stale row (`WatchdogRequeue`, `WatchdogFail`).  Workers are external: they answer a
message once, and may repeat the answer; resolve_keys and extract cannot complete without
their kwargs.  What they report as completed may be what the module is to deliver, `{}`,
something that does not parse as it, or nothing.  `result_payload` is `NOT NULL DEFAULT '{}'`
(000001, line 117), so a result that never came reads as `{}`: resolve_keys fails its request
for it, extract completes the request without values, convert and anonymize register no
text.  The history variable `stranded` has the requests that a failed task left waiting with
no callback to tell them: those made after it failed, and those waiting when the watchdog
gave it up.

`ExtractionFlow` - the abstract life of a request: submitted for one text of one document,
resolving, extracting, ended.  It has no tasks, messages or handlers.  `Pipeline` defines
`Stage`, which reads the stage of a request off the tasks that exist for it, and
`ImplementsFlow == Flow!Spec` (`Flow == INSTANCE ExtractionFlow WITH ...`).  The abstract
specification also says how far the unconditional writes of the status can go: only
extraction completes a request, and a request is opened again (failed to running, by a
handler with an old copy) only before its extraction has begun, so never after it was
completed.

`Answers` - the keys and values behind an extraction request.  `key` is the table
`extraction_keys` (a key is its tenant and its name), `data[<<d, k>>]` the request whose
extraction last wrote the value of key `k` for document `d`.  `offered` and `asked` are what
the messages to the workers carry: the keys listed for resolve_keys, the schema extract is
started with.  What comes back is anything: any schema, any list of new keys (also names of
keys that exist, also without names of the schema), values for any names, as the callbacks
take it.  A thread is a callback between two statements.  `OnResolveKeysCompleted` is
`UpsertExtractionKey` (once per new key), `SetResolvedSchema`, `EnqueueExtract`;
`OnExtractCompleted` is `LookupKeys`, `BatchUpsertExtractedData`, `Complete`; GET is the
operator `GetAnswers`.  Two history variables say what to expect of it: `named`, the new keys
that were stored before extract was started, and `delivered`, the names whose values
completed a request.  The text is there from the start, and creating and publishing a task
is one step: `Pipeline` has both in detail.

`Lifecycle` - one replica from `main` to its end: the main goroutine, the listener, the
handlers, the watchdog goroutine, the pool and Redis.  `main` is the next statement of the
main goroutine.  A handler or the watchdog is between calls or inside a query or a
publication; which ones is the business of the other modules.

`Documents` - documents, artifacts, the object store, directories and comparison sessions.
A thread is a handler between its checks and its write.  `owner[x]` is the tenant of a row,
or says that the id is unused, deleted, or (directories) of the installation.  `doc[d]` has
the references of a document, `objects` the keys in S3.  The triggers
`check_document_org_isolation` and `check_document_kind_role_org` are operators of that
name, `ForeignKeys` is what the keys ask of a new row, and `DeleteRows` does what they do on
a deletion.  Faults are failed calls,
lost answers and aborted handlers; `lost` and `leaked` remember what they left behind, so
that the properties can say "unless a fault ...".

`Accounts` - registration in its transaction, login, refresh, logout, the middleware,
administration of users and organizations, invitations.  A thread keeps the claims its middleware
accepted; the statement that follows does not look at the row of the caller again.  Time is
relative: a token says how long it is still valid, a request how long it may still take, and
the time since a role changed is counted only as long as it matters, so the run covers
behaviours of any length.  `HandlerTime` is the longest a request
takes after the middleware.

`Sites` - the tree and `last_activity_at`.  `now()` is the start
of a statement, so starting and executing a statement are two steps.  The BEFORE triggers
are part of the first (`Begin`), the row, its foreign keys (`Referenced`) and the AFTER
triggers of the second, and a site may be deleted in between.

The modules share no state: what one needs of another appears in it by its effect (the
watchdog in `Pipeline`, the pipeline's writes to requests in `Sites`, a shutdown
as an aborted handler in `Pipeline` and `Answers`).

The modules `MC...` add the symmetry sets and constant functions for TLC.  The modules `...Proofs` have
the proofs of the module they are named after (`PipelineProofs` the refinement too), and
`WakeupProofs` those about lost wakeups in `Pipeline`.

Definitions whose name contains an underscore (`Exhausted_OffByOne`) are plausible bugs.
They are not used by the specification; replacing the definition of the same name by one
of them must violate the property it is listed with in `PROJECT.json`.

## 3. Runs

| Run | Shows | Bounds |
|---|---|---|
| `watchdog` | bounded retries and messages, exclusive claims, refreshed rows spared, giving up only at the end, and the invariant of the proofs | 1 task, 2 replicas, threshold 2, skew 1, 2 retries, clock to 6, 1 edit, 4 faults: enough for both retries and the final failure, with a publication failing three times in a row |
| `watchdog_live` | an overdue task is requeued or failed | 2 tasks with a batch of 1, 2 replicas, threshold 1, 1 retry, clock to 4, 2 faults: a task is overdue at 2, claimed, overdue again at 4 and given up, also when its replica stops between claim and publication.  Nobody edits the tasks, which is the worst case for them: edits and callbacks are in `watchdog` |
| `pipeline` | no lost wakeup, no double publication, the right text, and `Pipeline` implements `ExtractionFlow` | 1 document, 2 requests, 2 concurrent handlers, 1 repeated callback, all kinds of results |
| `pipeline_faults` | no gaps in the chain, and the refinement, under failures | 1 request, 2 handlers, 2 faults (statement, publish, abort, lost message), 2 watchdog interventions |
| `pipeline_live` | a request that waits for a live task ends | 1 document, 2 requests, 2 handlers |
| `pipeline_stuck` | *violation*: a request created after convert failed never ends | 1 request, 1 handler |
| `documents` | no reference out of the tenant or to a deleted row, no object without a row and no uploaded row without its object but for faults, one artifact per source on the source's site, bundles are root documents | 1 tenant, 3 documents (a source, its artifact, another root), 1 site to delete between check and write, 2 concurrent handlers, 1 fault |
| `directory` | tenant isolation of kinds, roles, bundles and sessions | 2 tenants, 2 documents, a kind, a role, a session, one handler between its check and its write while rows are deleted |
| `accounts` | registration all or nothing, claims follow the row, only administrators change users and invitations | 2 organizations, 2 users and the owner, 2 e-mail addresses, 1 INN, 1 invited address, 1 client with a session, 2 concurrent requests, access tokens of age 1, refresh tokens of age 2, unbounded time |
| `sites` | activity covers the subtree up to one statement, the tree is a forest | 2 tenants, 3 sites (three levels), 2 documents, 2 handlers, 2 writes to requests, clock to 3, statements of at most 1 |
| `answers` | a value that completed a request and has a key is shown, values stay, nothing crosses tenants | 2 tenants with a document each, 2 key names of which one is also a shared key, 2 requests (on one document or on two), 2 concurrent callbacks, 1 fault, every message answered once (two requests with repeated answers are out of TLC's reach; the proofs cover them) |
| `lifecycle` | no call on a closed connection, a clean exit is drained, a signal ends the process | 2 handlers, each accepting any number of requests one after the other |

All runs but `lifecycle` say `CHECK_DEADLOCK FALSE`: the clock, the requests and the faults are bounded,
so every behaviour of the instance ends, as a system without users comes to rest.

Two replicas and two handlers are the smallest numbers at which every race of the code
appears: all of them are between one read-then-write sequence and one other writer.
The proofs of section 4 remove the bounds for the safety properties.  The largest runs take
two to three minutes (`pipeline`) and about one and a half (`documents`, `pipeline_faults`, `sites`).

Fairness.  `watchdog_live`: the steps of a running watchdog and its restart; `Start` loops
until its context is cancelled, every publication has a timeout, and the deployment
restarts a replica.  Nothing is assumed of the clock, of workers and of users.
`pipeline_live` and `pipeline_stuck`: a handler that started goes on (it runs under
`context.WithoutCancel` and a timeout), some worker answers a message that stays in the
queue, and the watchdog scans again and again.  No fairness on creating requests, on
repeats or on faults.  `lifecycle`: weak fairness for the main goroutine (the 15 seconds of
the drain pass whatever the handlers do, and `pool.Close` is reached only when nobody has
a query left to wait for) and for the watchdog's goroutine (its calls take the context,
so they return once it is cancelled); strong fairness for leaving the watchdog's `select`,
because Go chooses at random among ready cases and so does not take the ticker for ever.
Nothing is assumed of handlers, of the listener and of the signal.

## 4. Proofs

TLC checks instances with two handlers and a few rows; the proofs hold for any sets of
documents, requests, tenants, handlers, replicas and sites and any values of the bounds.
Every safety property of a passing run has its theorem.

| Module | Theorems (and the properties they state) |
|---|---|
| `WatchdogProofs` | `TypeCorrect`, `RetriesBounded` (`RetryBound`), `ClaimsExclusive` (`OnePublisherPerClaim`), `PublishesBounded` (`PublishBound`), and the action properties `FreshRowsSpared` (`RefreshedTaskSpared`), `GivesUpLast` (`FailsOnlyExhausted`) |
| `PipelineProofs` | `TypeCorrect`, `PublishOnce` (`PublishedOnce`), `ReadsTarget` (`TaskReadsTarget`), `ChainOrdered` (`ChainInOrder`), and `Refinement` (`ImplementsFlow`) |
| `WakeupProofs` | `NoWakeupLost` (`NoLostWakeup`) |
| `AnswersProofs` | `TypeCorrect`, `TenantsApart` (`TenantIsolation`), `Answered` (`CompletedIsAnswered`), and the action property `AnswersKept` (`AnswersStay`) |
| `DocumentsProofs` | `TypeCorrect`, `TenantsApart` (`SameTenant`), `UploadsAccounted` (`NoOrphanedUpload`), `UploadsKept` (`UploadedHasObject`), `ArtifactsFollow` (`ArtifactFollowsSource`), `BundlesAreRoots` (`BundleIsRoot`) |
| `AccountsProofs` | `TypeCorrect`, `RegistrationIsWhole` (`OrganizationsHaveUsers`), `StaleClaimsExpire` (`ClaimsFollowRow`), and the action property `AdminsChange` (`ChangedByAdmin`) |
| `SitesProofs` | `TypeCorrect`, `Forest` (`SiteForest`), `ActivityReachesRoot` (`ActivityCoversSubtree`) |
| `LifecycleProofs` | `TypeCorrect`, `ConnectionsOutliveUsers` (`NoUseAfterClose`), `CleanExit` (`CleanExitIsDrained`) |

Each module has an inductive invariant `IInv` (theorem `Inductive`: `Spec => []IInv`;
`WakeupProofs`: `WInv`, `WakeInductive`), and its other theorems follow from it.  Each was checked by TLC on the instance of the module's
run before it was proved.

*Watchdog.*  `RetryBound` alone is not inductive, because `processTask` tests the listed
`retry_count`.  The missing fact is `ListedRowsCurrent`: a listed row that would still pass
`updated_at < cutoff` has the `retry_count` that was listed.  It is preserved because every
write sets `updated_at = now()`, and a cutoff never lies in the database's future
(`CutoffBehind`), so a written row does not pass again.  `ClaimCounted` and `SentCounted`
say the same of a claimed row and of its messages, and give exclusivity: the second
claimant would find a larger `retry_count`.

*Pipeline.*  What a handler does next depends on what it read some statements ago.
`ThreadOK` says which of the things a handler remembers still hold in the tables, position
by position; `Grows` says that no statement of anybody takes them back (rows are not
deleted, the document and the flag of a request never change, artifacts, keys and schemas
stay).  That a task is published once does not follow from growth: `Unpublished` says that
a task its maker has still to publish is known to nobody else, no message names it, no
handler answers for it and nothing behind it in the chain exists.

*Refinement.*  `PipelineProofs` shows that the initial state of `Pipeline` is one of
`ExtractionFlow` and that each of its actions is, under `IInv`, an abstract step or leaves
the abstract variables alone.  The guards of the abstract steps (the text is there, the
schema is stored, extraction has not begun) are tested nowhere in the code when it writes;
they come from `IInv`.  The attempt corrected the refinement mapping: `Stage` was a `CASE`
with overlapping guards, which TLC evaluates in order and TLA+ leaves open; it is a
nested `IF` now.

*Wakeups.*  `NoLostWakeup` says that, when no handler runs, a request in flight has a task
that is pending or processing and whose callback moves it on, and names the two cases in
which the code leaves a request without one: a failed task that could not tell it
(`stranded`) and a prerequisite completed without its text (`Fruitless`).  `WInv` adds to
`IInv`, as long as no statement has failed, who is in charge of a request in every other
state.  `Awake`: one of its tasks is under way or in one of the two cases, or a handler
carries it, that is, has still to list the requests of the document, has it on its list,
has decided to insert a task for it that is not there, or works on the answer of one of its
tasks.  Each step hands the request on: a callback that completes a task takes every request
that waited for it, one that fails a task takes them to be failed (`Told`), an INSERT gives
the request a task that nobody has answered.  The race of `Initiate` with a callback is in
`Progress`: it finds a text missing, and the task that makes it may be completed by then,
so nothing will be inserted.  `RowsTexted` then gives a handler that is about to register
that text and lists the requests afterwards, this one included, or the text will never come
(`Barren`).  `SetRunning` puts a request back in flight whatever its status; its
resolve_keys task is there and unanswered by `Unpublished`.

*Answers.*  Nothing is assumed of what workers report, and nothing of failures.  `Grows` says
that keys, values and the documents of requests stay, so a name that has a key when extract
is started (`Placeable`: it was offered, or it is one of the new keys that were stored) has
one whenever a callback looks it up, though perhaps another one than before; what the
callback stores hangs on a key of that name, and GET shows every key of a name.  `Delivered`
says that the names in the hands of a callback that is about to complete the request have
their values, and so do those that completed it before.

*Documents.*  A handler checks, others delete, the handler writes.  `Moves` says what can
have become of a row meanwhile: it is as it was or gone for good, because an id is not used
again.  `ThreadOK` says what a handler knows of the rows it checked up to their deletion,
which suffices because the database refuses references to rows that are gone.  The id a
handler is going to insert and the object it has stored belong to it alone (`Held`).

*Accounts.*  Claims are copied from a row to a handler, from there to a token, and to the
next handler.  `SessionOK` and `TokenOK` bound, for a copy that no longer agrees with its
row, the time since the change plus the time the copy has left; each hand-over adds the
lifetime of the next holder.  A registration has its two ids, and from its second INSERT
its e-mail address, for itself (`HeldBy`, `Apart`).

*Sites.*  `Ancestors(s)` is the least set that holds `s` and is closed under `parent`, so
each fact about it is shown by giving a closed set.  A site is made under an id nothing
refers to, so nobody else's ancestors change (`UnusedAncestor`); a deletion only cuts
(`AncestorsShrink`).  The trigger has seen the tenant of the parent, the foreign key sees
that it is there, and in between a row may go but not change its tenant (`Ages`).  A trigger
that writes an older time over a newer one is off by no more than its statement took,
because no document is newer than the clock (`NotNewer`).

*Lifecycle.*  That nobody uses a closed connection holds because of what the main goroutine
did before it closed anything: `IInv` ties its position to the state of the watchdog, of
the listener and of the handlers.

Assumptions on the constants, each named in its module and evaluated by TLC:

* `Watchdog`: threshold and batch size are positive (config.go checks it), and
  `MaxSkew <= Threshold`.  The code does not check the second and depends on it: with a
  replica's clock ahead of the database by more than the threshold, a row passes its own
  claim again.
* `Pipeline` has no constant for it, but `CanBeStale` assumes that the staleness threshold
  lies above the time a handler runs (30 seconds at most for each part); config.go only
  checks that it is positive.
* `Accounts`: the lifetimes of tokens are positive; they are constants
  of service_auth.go (lines 19-20).  That a request takes at most `HandlerTime` is assumed:
  the `WriteTimeout` of main.go does not cancel a handler.
* `Sites`: likewise that a statement takes at most `StatementTime`.
* All: ids of different tables, `None`, and the words "unused" and "deleted" are different
  values.

Only model-checked:

* liveness (`OverdueHandled`, `WaitingRequestEnds`, `SignalEndsProcess`): TLAPS proves
  nothing about fairness.  What is proved of `WaitingRequestEnds` is its safety half,
  `NoLostWakeup`.
* The violated property `RequestsFinish` states what the repository says of itself; TLC
  gives the counterexample, and PROJECT.json quotes the line.

## 5. Behaviour worth knowing

* `error_message` is kept by COALESCE when a failed task is run again, although the
  comment on the column (000001, line 139) says it is NULL unless the task failed.
* `SetExtractionRequestStatus` has no condition on the current status, so a handler with
  an old copy moves a request from failed to running (`Reopen` in `ExtractionFlow`).  The
  refinement shows that this cannot happen to a completed request.
* When the watchdog gives up a convert or anonymize task (watchdog.go:105) it writes the
  task only.  The callback path fails the waiting requests "so they don't stay stuck in
  pending" (service_worker.go:188-189); after the watchdog they do stay stuck.
  `RequestsFinish` is the property this breaks, and `pipeline_stuck` shows the same end
  reached by a failure reported before the request was made.  A failed publication of
  convert (service_extraction.go:585) leads there, too.
* A convert task reported completed without a path (service_worker.go:358-360), or with a
  result that does not parse, registers no text; the requests that wait stay pending, and
  the completed singleton keeps the task from being made again (`Fruitless`).
* The watchdog's message (watchdog.go:141) has no kwargs, which resolve_keys and extract
  "require" according to client.go:54: their retry cannot succeed.  `Pipeline` has the
  kwargs in its messages for this reason (`CanComplete`).
* When anonymize fails, `failPendingRequests` fails every unfinished request of the
  document, also one with `anonymize = false` whose markdown exists; the comment in
  service_worker.go:188-189 says that the requests "can no longer progress".
* The comment on `bundle_id` (000004, line 171) is not enforced: a bundle's head may itself
  be in a bundle, and two documents may be each other's head.  Kind, role and bundle are
  written by COALESCE and cannot be taken back.
* PATCH and DELETE of a task write the row and nothing else: a task that a user sets to
  completed starts no next step, and deleting a convert task leaves the requests that wait
  for it pending until some later callback on the document lists them.
* Deleting a document never deletes its object in S3.  An INSERT that took place and was
  answered with an error makes the cleanup remove the object of an existing row (`lost`).
* RefreshTokens does not look at `is_active`; two administrators may demote each other, so
  an organization may be left without one.
* An expired invitation still blocks a new one for the address (the unique index ignores
  the expiry).  `InvitationService.Accept` and `SiteAuditService.Log` have no caller.
* `last_activity_at` may move back by the time one statement takes: `ActivityCoversSubtree`
  fails without its slack.
* `v_site_status` looks at documents of leaves only: documents of a site that has children
  are counted nowhere, although the view's comment says "по всему поддереву" (000004, line
  443).
* Values belong to a document and a key, so a request shows values that another request of
  the document found, before its own extraction is done, in place of what it found itself,
  and also values that were read from the plain text when the request itself asked for the
  anonymized one.  The comment in 000003_extraction_requests.up.sql:9-11 calls the requests
  independent, and handler_extraction_request.go:17 says that
  answers are empty until extract completes.
* A repeated resolve_keys callback replaces `resolved_schema` although extract was
  enqueued with the first one, so a completed request may show nothing of what was found
  for it, although 000003, line 52, says of "completed" that the answers are ready.
* `new_keys` is stored as it comes: a name of the schema it leaves out has no key, and the
  value found for it is dropped with a warning (service_extraction.go:427-431); a name of a
  shared key gives the tenant a second key of that name.  `GetExtractionKeysByNames` prefers
  the tenant's, `ListExtractedDataForKeys` does not choose: when a value hangs on either,
  GET shows both, and the answers are no map (sql/query/extraction.sql:42-43 calls them one).

## 6. Abstractions

* A statement either fails without effect or succeeds in `Pipeline`; a commit with a lost
  answer is modelled in `Watchdog` (`MarkError`) and, for publications, in both.
* In `Pipeline` the keys of a request and its values are one item each: stored or not.
  `Answers` has them one by one, and in turn has no tasks.
* `Answers` keeps of a value which request it came from; a key has no data type and no
  source query; keys are never deleted, as in the program, and documents neither.  A failed
  statement before resolve_keys is published leaves the request where it is.
* `Lifecycle`: the storage client has no connection to close and is left out; of the
  publications and queries only begin and end are kept; a second signal is not looked at,
  as in main.
* Tasks are deleted, and patched by users, in `Watchdog` only.  `Pipeline` has neither, nor
  deleted documents: a deletion takes the requests that its properties are about with it.
* `Documents` leaves out the checks of `uploaded_by` in the triggers, names, order and
  visibility of directory entries and the position of a document in a session.
* `Accounts`: `organizations.is_active` is never set by the program and is left out, as are
  names and password hashes.  An invitation has no expiry and cannot be accepted, because
  nothing in the program reads it.
* `Sites`: of a request only that it was created or got a status, which is all its trigger
  looks at; artifacts are left out (`Documents` shows that
  they are where their source is); name, cover and type of a site are left out.
* Python results are well-formed, empty, malformed or absent, as a whole: an anonymize
  result with one of its two paths is not told apart from one with both.
* In `Documents` trigger and foreign keys are checked in one step.  A row deleted between
  the two is refused by the key, as one deleted before is by the trigger; `Sites` has the
  two steps.

## 7. Not modelled

* Renaming and hiding of a directory entry, the position of a document in a session, and
  name, state, cover and type of a site: single updates of columns that nothing else reads.
* The site audit log: its only writer has no caller.
* The view `v_site_status`, a read nothing acts on.
* Listings, presigned URLs and other reads, except those whose result is acted on.
* Configuration, logging, error mapping, routing, CORS, the Celery envelope, generated
  mocks: no state.

## 8. State of the development

All modules are written, and all safety properties that hold, the action properties and
the refinement are proved.  Liveness stays with TLC (section 4).  The parts that remain
outside are those of section 7.
