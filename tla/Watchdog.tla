------------------------------- MODULE Watchdog -------------------------------
(***************************************************************************)
(* The watchdog goroutine (internal/watchdog/watchdog.go) and the rows of  *)
(* document_tasks it competes for with the other writers of that table:    *)
(* the code that creates a task, the callbacks of the Python workers and   *)
(* the user's PATCH and DELETE.                                            *)
(*                                                                         *)
(* Several replicas of the API run one watchdog each against one database. *)
(* Every SQL statement is one step.  "now" is the database's clock, which  *)
(* now() reads; time.Now() of a replica may differ from it by MaxSkew.     *)
(* The broker may deliver a message never, late or several times, so all   *)
(* that is kept of it is how often a message was pushed.                   *)
(***************************************************************************)
EXTENDS Integers, FiniteSets

CONSTANTS
    Tasks,        \* the document_tasks rows that may be created
    Instances,    \* the watchdogs, one per replica of the API
    Threshold,    \* cfg.WatchdogThreshold
    MaxSkew,      \* bound of |time.Now() - now()|
    MaxRetries,   \* cfg.WatchdogMaxRetries
    BatchSize,    \* cfg.WatchdogBatchSize
    NoRow,        \* no row is claimed
    MaxTime,      \* bound: the clock stops here
    MaxEdits,     \* bound: worker callbacks, PATCHes and DELETEs
    MaxFaults     \* bound: failed statements, failed publishes, stops

ASSUME ThresholdAssumption == Threshold \in Nat \ {0}
ASSUME RetriesAssumption == MaxRetries \in Nat
ASSUME BatchAssumption == BatchSize \in Nat \ {0}
\* Nothing in the code checks this one: with a clock further ahead than the
\* threshold, a cutoff lies in the database's future and the CAS is void.
ASSUME SkewAssumption == MaxSkew \in Nat /\ MaxSkew <= Threshold
ASSUME BoundsAssumption == MaxTime \in Nat /\ MaxEdits \in Nat /\ MaxFaults \in Nat

VARIABLES
    now,       \* the clock of the database
    task,      \* the rows: status, updated_at, retry_count, error_message
    creator,   \* what the handler that inserted a row still has to do for it
    sent,      \* messages pushed for a task, by the retry_count they belong to
    watchdog,  \* the local state of every watchdog
    edits,     \* worker callbacks and user edits left
    faults     \* faults left

vars == <<now, task, creator, sent, watchdog, edits, faults>>

Active == {"pending", "processing"}
Statuses == Active \cup {"completed", "failed"}
Gone == {"absent", "deleted"}

\* const maxPublishAttempts
MaxPublishAttempts == 3

\* error_message is NULL or some text.
Text == {"NULL", "text"}
Row == [status : Statuses \cup Gone, updated_at : Nat,
        retry_count : Nat, error_message : Text]

\* What ListStaleTasks returns of a row, with the updated_at it is ordered by.
ListedRow == [id : Tasks, retry_count : Nat, updated_at : Nat]

ASSUME NoRowAssumption == NoRow \notin ListedRow

\* idle: in the select of Start; process: before the next row of the batch;
\* publish: row cur is claimed and being published; stopped: ctx is cancelled.
Local == [pc : {"idle", "process", "publish", "stopped"}, cutoff : Int,
          batch : SUBSET ListedRow, cur : ListedRow \cup {NoRow},
          attempt : 1..MaxPublishAttempts]

TypeOK ==
    /\ now \in Nat
    /\ task \in [Tasks -> Row]
    /\ creator \in [Tasks -> {"none", "publish", "markFailed"}]
    /\ sent \in [Tasks -> [0..MaxRetries -> Nat]]
    /\ watchdog \in [Instances -> Local]
    /\ edits \in Nat
    /\ faults \in Nat

Idle == [pc |-> "idle", cutoff |-> 0, batch |-> {}, cur |-> NoRow, attempt |-> 1]

Init ==
    /\ now = 0
    /\ task = [t \in Tasks |-> [status |-> "absent", updated_at |-> 0,
                                retry_count |-> 0, error_message |-> "NULL"]]
    /\ creator = [t \in Tasks |-> "none"]
    /\ sent = [t \in Tasks |-> [k \in 0..MaxRetries |-> 0]]
    /\ watchdog = [i \in Instances |-> Idle]
    /\ edits = MaxEdits
    /\ faults = MaxFaults

Exists(t) == task[t].status \notin Gone

-----------------------------------------------------------------------------
(* The statements on document_tasks. *)

Coalesce(new, old) == IF new = "NULL" THEN old ELSE new

\* UPDATE ... SET status = $2, error_message = COALESCE($5, error_message),
\* updated_at = now(): no condition on the status the row has.
UpdateWorkerTaskStatus(t, s, e) ==
    task' = [task EXCEPT ![t] =
        [status |-> s, updated_at |-> now, retry_count |-> @.retry_count,
         error_message |-> Coalesce(e, @.error_message)]]

\* UPDATE ... SET status = $3, updated_at = now().
UpdateDocumentTaskStatus(t, s) ==
    task' = [task EXCEPT ![t] =
        [status |-> s, updated_at |-> now, retry_count |-> @.retry_count,
         error_message |-> @.error_message]]

DeleteDocumentTask(t) ==
    task' = [task EXCEPT ![t].status = "deleted"]

\* Plausible bug: a message lost before a worker took it is not looked for.
Stale_ProcessingOnly(cutoff) ==
    {t \in Tasks : task[t].status = "processing" /\ task[t].updated_at < cutoff}

\* The WHERE clause of ListStaleTasks.
Stale(cutoff) ==
    {t \in Tasks : task[t].status \in Active /\ task[t].updated_at < cutoff}

\* ORDER BY updated_at ASC LIMIT batch_size; ties in any order.
IsOldestBatch(S, stale) ==
    /\ S \subseteq stale
    /\ IF Cardinality(stale) <= BatchSize THEN S = stale ELSE Cardinality(S) = BatchSize
    /\ \A t \in S, u \in stale \ S : task[t].updated_at <= task[u].updated_at

\* Plausible bug: the compare-and-swap looks at the status only.
StillStale_StatusOnly(t, cutoff) == task[t].status \in Active

\* The WHERE clause the two Mark statements share.
StillStale(t, cutoff) ==
    /\ task[t].status \in Active
    /\ task[t].updated_at < cutoff

MarkStaleTaskPending(t) ==
    task' = [task EXCEPT ![t] =
        [status |-> "pending", updated_at |-> now,
         retry_count |-> @.retry_count + 1, error_message |-> "NULL"]]

MarkStaleTaskFailed(t) ==
    task' = [task EXCEPT ![t] =
        [status |-> "failed", updated_at |-> now,
         retry_count |-> @.retry_count, error_message |-> "text"]]

\* Plausible bug: the client repeats the LPUSH.
Push_Twice(t, k) == sent' = [sent EXCEPT ![t][k] = sent[t][k] + 2]

\* Publisher.Process: one LPUSH.
Push(t, k) == sent' = [sent EXCEPT ![t][k] = sent[t][k] + 1]

-----------------------------------------------------------------------------
(* The other writers of document_tasks. *)

\* Every creation of a task inserts the row and publishes it afterwards.
InsertTask(t) ==
    /\ task[t].status = "absent"
    /\ task' = [task EXCEPT ![t].status = "pending", ![t].updated_at = now]
    /\ creator' = [creator EXCEPT ![t] = "publish"]
    /\ UNCHANGED <<now, sent, watchdog, edits, faults>>

PublishFirst(t) ==
    /\ creator[t] = "publish"
    /\ Push(t, 0)
    /\ creator' = [creator EXCEPT ![t] = "none"]
    /\ UNCHANGED <<now, task, watchdog, edits, faults>>

\* Process returned an error; the message may have been pushed all the same.
\* DocumentTaskService.Create leaves the row pending, every other creator
\* goes on to markTaskFailed.
PublishFirstError(t) ==
    /\ creator[t] = "publish"
    /\ faults > 0
    /\ faults' = faults - 1
    /\ Push(t, 0) \/ UNCHANGED sent
    /\ \E next \in {"none", "markFailed"} : creator' = [creator EXCEPT ![t] = next]
    /\ UNCHANGED <<now, task, watchdog, edits>>

\* markTaskFailed; a row deleted meanwhile is not found, which is logged.
MarkFirstFailed(t) ==
    /\ creator[t] = "markFailed"
    /\ creator' = [creator EXCEPT ![t] = "none"]
    /\ IF Exists(t) THEN UpdateWorkerTaskStatus(t, "failed", "text") ELSE UNCHANGED task
    /\ UNCHANGED <<now, sent, watchdog, edits, faults>>

\* A callback of a worker that received some message for the task, possibly
\* long ago and possibly not the last one.
WorkerCallback(t) ==
    /\ Exists(t)
    /\ edits > 0
    /\ edits' = edits - 1
    /\ \E k \in 0..MaxRetries : sent[t][k] > 0
    /\ \E s \in {"processing", "completed", "failed"} :
           UpdateWorkerTaskStatus(t, s, IF s = "failed" THEN "text" ELSE "NULL")
    /\ UNCHANGED <<now, creator, sent, watchdog, faults>>

\* PATCH /api/v1/tasks/:id/status: any status is accepted.
UserUpdateStatus(t) ==
    /\ Exists(t)
    /\ edits > 0
    /\ edits' = edits - 1
    /\ \E s \in Statuses : UpdateDocumentTaskStatus(t, s)
    /\ UNCHANGED <<now, creator, sent, watchdog, faults>>

\* DELETE /api/v1/tasks/:id, or of the document, which cascades.
UserDelete(t) ==
    /\ Exists(t)
    /\ edits > 0
    /\ edits' = edits - 1
    /\ DeleteDocumentTask(t)
    /\ UNCHANGED <<now, creator, sent, watchdog, faults>>

-----------------------------------------------------------------------------
(* The watchdog. *)

\* Plausible bug: the threshold is forgotten.
Cutoff_NoThreshold(d) == now + d

\* time.Now().Add(-cfg.WatchdogThreshold), where time.Now() is d off.
Cutoff(d) == now + d - Threshold

\* runOnce: ListStaleTasks with a cutoff computed from the clock.  A failed
\* listing returns and changes nothing.
ListStaleTasks(i) ==
    /\ watchdog[i].pc = "idle"
    /\ \E d \in (-MaxSkew)..MaxSkew :
         LET cutoff == Cutoff(d) IN
         \E S \in SUBSET Stale(cutoff) :
           /\ IsOldestBatch(S, Stale(cutoff))
           /\ S # {}
           /\ watchdog' = [watchdog EXCEPT ![i] =
                [pc |-> "process", cutoff |-> cutoff, cur |-> NoRow, attempt |-> 1,
                 batch |-> {[id |-> t, retry_count |-> task[t].retry_count,
                             updated_at |-> task[t].updated_at] : t \in S}]]
    /\ UNCHANGED <<now, task, creator, sent, edits, faults>>

\* The row the loop of runOnce hands to processTask next.
IsNextRow(i, r) ==
    /\ watchdog[i].pc = "process"
    /\ r \in watchdog[i].batch
    /\ \A q \in watchdog[i].batch : r.updated_at <= q.updated_at

\* processTask returned: the loop goes on with what is left of the batch.
AfterRow(w, batch) ==
    IF batch = {} THEN Idle
    ELSE [pc |-> "process", cutoff |-> w.cutoff, batch |-> batch,
          cur |-> NoRow, attempt |-> 1]

\* processTask returns for row r.
SkipRow(i, r) ==
    watchdog' = [watchdog EXCEPT ![i] = AfterRow(@, @.batch \ {r})]

\* Plausible bug: off by one in the test for exhausted retries.
Exhausted_OffByOne(r) == r.retry_count > MaxRetries

\* Plausible bug: one retry is given away.
Exhausted_Early(r) == r.retry_count + 1 >= MaxRetries

\* if int(task.RetryCount) >= cfg.WatchdogMaxRetries, on the row as it was listed.
Exhausted(r) == r.retry_count >= MaxRetries

\* processTask, retries exhausted: MarkStaleTaskFailed; 0 rows is ignored.
FailExhausted(i) ==
    /\ \E r \in watchdog[i].batch :
         /\ IsNextRow(i, r)
         /\ Exhausted(r)
         /\ IF StillStale(r.id, watchdog[i].cutoff)
            THEN MarkStaleTaskFailed(r.id)
            ELSE UNCHANGED task
         /\ SkipRow(i, r)
    /\ UNCHANGED <<now, creator, sent, edits, faults>>

\* processTask, retries left: MarkStaleTaskPending updated the row.
Claim(i) ==
    /\ \E r \in watchdog[i].batch :
         /\ IsNextRow(i, r)
         /\ ~Exhausted(r)
         /\ StillStale(r.id, watchdog[i].cutoff)
         /\ MarkStaleTaskPending(r.id)
         /\ watchdog' = [watchdog EXCEPT ![i] =
              [pc |-> "publish", cutoff |-> @.cutoff, batch |-> @.batch \ {r},
               cur |-> r, attempt |-> 1]]
    /\ UNCHANGED <<now, creator, sent, edits, faults>>

\* MarkStaleTaskPending updated no row: claimed by another instance, refreshed
\* by a callback or gone.
ClaimLost(i) ==
    /\ \E r \in watchdog[i].batch :
         /\ IsNextRow(i, r)
         /\ ~Exhausted(r)
         /\ ~StillStale(r.id, watchdog[i].cutoff)
         /\ SkipRow(i, r)
    /\ UNCHANGED <<now, task, creator, sent, edits, faults>>

\* A Mark statement returned an error: processTask logs it and returns.  The
\* statement may have been committed all the same.
MarkError(i) ==
    /\ faults > 0
    /\ faults' = faults - 1
    /\ \E r \in watchdog[i].batch :
         /\ IsNextRow(i, r)
         /\ \/ /\ StillStale(r.id, watchdog[i].cutoff)
               /\ IF Exhausted(r) THEN MarkStaleTaskFailed(r.id)
                                  ELSE MarkStaleTaskPending(r.id)
            \/ UNCHANGED task
         /\ SkipRow(i, r)
    /\ UNCHANGED <<now, creator, sent, edits>>

Publish(i) ==
    /\ watchdog[i].pc = "publish"
    /\ Push(watchdog[i].cur.id, watchdog[i].cur.retry_count + 1)
    /\ watchdog' = [watchdog EXCEPT ![i] = AfterRow(@, @.batch)]
    /\ UNCHANGED <<now, task, creator, edits, faults>>

\* Plausible bug: the loop runs while attempt <= maxPublishAttempts + 1.
LastAttempt_Late(w) == w.attempt > MaxPublishAttempts

\* The loop condition attempt <= maxPublishAttempts.
LastAttempt(w) == w.attempt >= MaxPublishAttempts

NextAttempt(w) == [w EXCEPT !.attempt = w.attempt + 1]

\* Process returned an error, which does not tell whether the message was
\* pushed.  After the last attempt the row stays pending.
PublishError(i) ==
    /\ watchdog[i].pc = "publish"
    /\ faults > 0
    /\ faults' = faults - 1
    /\ \/ Push(watchdog[i].cur.id, watchdog[i].cur.retry_count + 1)
       \/ UNCHANGED sent
    /\ watchdog' = [watchdog EXCEPT ![i] =
         IF LastAttempt(@) THEN AfterRow(@, @.batch)
                           ELSE NextAttempt(@)]
    /\ UNCHANGED <<now, task, creator, edits>>

\* watchdogCancel or a crash: every later call with ctx fails, and the rest
\* of the batch, or the publication of a claimed row, is dropped.
Stop(i) ==
    /\ watchdog[i].pc # "stopped"
    /\ faults > 0
    /\ faults' = faults - 1
    /\ watchdog' = [watchdog EXCEPT ![i] = [Idle EXCEPT !.pc = "stopped"]]
    /\ UNCHANGED <<now, task, creator, sent, edits>>

\* The replica starts again: Start calls runOnce at once.
Restart(i) ==
    /\ watchdog[i].pc = "stopped"
    /\ watchdog' = [watchdog EXCEPT ![i] = Idle]
    /\ UNCHANGED <<now, task, creator, sent, edits, faults>>

Tick ==
    /\ now < MaxTime
    /\ now' = now + 1
    /\ UNCHANGED <<task, creator, sent, watchdog, edits, faults>>

-----------------------------------------------------------------------------
ProcessTask(i) == FailExhausted(i) \/ Claim(i) \/ ClaimLost(i)

WatchdogStep(i) ==
    \/ ListStaleTasks(i)
    \/ ProcessTask(i)
    \/ MarkError(i)
    \/ Publish(i)
    \/ PublishError(i)
    \/ Stop(i)
    \/ Restart(i)

TaskStep(t) ==
    \/ InsertTask(t)
    \/ PublishFirst(t)
    \/ PublishFirstError(t)
    \/ MarkFirstFailed(t)
    \/ WorkerCallback(t)
    \/ UserUpdateStatus(t)
    \/ UserDelete(t)

Next ==
    \/ Tick
    \/ \E t \in Tasks : TaskStep(t)
    \/ \E i \in Instances : WatchdogStep(i)

Spec == Init /\ [][Next]_vars

\* A watchdog that runs goes on: Start loops until its context is cancelled,
\* every call it makes is bounded by a timeout, and the replica's supervisor
\* restarts it.  Nothing is assumed of workers, users and clocks.
WatchdogFairness(i) ==
    /\ WF_vars(ListStaleTasks(i))
    /\ WF_vars(ProcessTask(i))
    /\ WF_vars(Publish(i))
    /\ WF_vars(Restart(i))

FairSpec == Spec /\ \A i \in Instances : WatchdogFairness(i)

-----------------------------------------------------------------------------
(* Properties *)

\* processTask tests the retry_count it listed, not the one in the database.
\* Still no task is requeued more than MaxRetries times, however many replicas
\* list the same row: the compare-and-swap on updated_at makes the listed
\* count the current one whenever the claim succeeds.
RetryBound == \A t \in Tasks : task[t].retry_count <= MaxRetries

\* Two watchdogs never publish on the strength of the same claim, so a stale
\* period of a task is answered once ("two concurrent watchdog instances cannot
\* double-claim the same task", document_task.sql).
OnePublisherPerClaim ==
    \A i, j \in Instances :
        /\ watchdog[i].pc = "publish"
        /\ watchdog[j].pc = "publish"
        /\ watchdog[i].cur.id = watchdog[j].cur.id
        /\ watchdog[i].cur.retry_count = watchdog[j].cur.retry_count
        => i = j

\* The queue gets at most maxPublishAttempts messages per claim, whatever
\* Redis answers: the duplicates a task can suffer are bounded.
PublishBound ==
    \A t \in Tasks : \A k \in 1..MaxRetries : sent[t][k] <= MaxPublishAttempts

\* processTask never changes a row that was written less than a threshold ago
\* (less the clock skew): a callback between the listing and the update wins.
RefreshedTaskSpared ==
    [][\A i \in Instances : ProcessTask(i) =>
         \A t \in Tasks : task'[t] # task[t] =>
             task[t].updated_at + Threshold < now + MaxSkew]_vars

\* A task is given up only after all its retries were used.
FailsOnlyExhausted ==
    [][\A i \in Instances : FailExhausted(i) =>
         \A t \in Tasks : task'[t] # task[t] => task[t].retry_count = MaxRetries]_vars

Overdue(t) ==
    task[t].status \in Active /\ task[t].updated_at + Threshold + MaxSkew < now

\* A task left behind in pending or processing is taken up again or failed,
\* also when the batch is smaller than the backlog and replicas come and go.
OverdueHandled == \A t \in Tasks : Overdue(t) ~> ~Overdue(t)

-----------------------------------------------------------------------------
(* Why the bounds hold: the parts of the inductive invariant. *)

Scanning(i) == watchdog[i].pc \in {"process", "publish"}

\* A cutoff lies a threshold, less the skew, behind the database's clock.
CutoffBehind ==
    \A i \in Instances : Scanning(i) => watchdog[i].cutoff + Threshold <= now + MaxSkew

\* A listed row that would still pass the compare-and-swap has not been
\* written since it was listed, so the retry_count processTask tests, and the
\* one it logs, is the one in the database.
ListedRowsCurrent ==
    \A i \in Instances : Scanning(i) =>
        \A r \in watchdog[i].batch :
            task[r.id].updated_at < watchdog[i].cutoff =>
                task[r.id].retry_count = r.retry_count

\* A row being published was counted when it was claimed.
ClaimCounted ==
    \A i \in Instances : watchdog[i].pc = "publish" =>
        /\ watchdog[i].cur \in ListedRow
        /\ watchdog[i].cur.retry_count < MaxRetries
        /\ watchdog[i].cur.retry_count + 1 <= task[watchdog[i].cur.id].retry_count

\* The messages of a claim are the attempts its publisher has behind it.
SentCounted ==
    /\ \A t \in Tasks : \A k \in 1..MaxRetries :
          sent[t][k] > 0 => k <= task[t].retry_count
    /\ \A i \in Instances : watchdog[i].pc = "publish" =>
          sent[watchdog[i].cur.id][watchdog[i].cur.retry_count + 1] < watchdog[i].attempt

IInv ==
    /\ TypeOK
    /\ CutoffBehind
    /\ ListedRowsCurrent
    /\ RetryBound
    /\ ClaimCounted
    /\ OnePublisherPerClaim
    /\ SentCounted
    /\ PublishBound

=============================================================================
