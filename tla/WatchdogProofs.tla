---------------------------- MODULE WatchdogProofs ----------------------------
(***************************************************************************)
(* Proofs about Watchdog for any number of tasks, replicas and retries.    *)
(*                                                                         *)
(* The bounds of the watchdog are not inductive: processTask decides on a  *)
(* retry_count it read earlier.  IInv adds that a row which still passes   *)
(* the compare-and-swap has the retry_count that was listed.               *)
(***************************************************************************)
EXTENDS Watchdog, TLAPS

USE ThresholdAssumption, RetriesAssumption, BatchAssumption, SkewAssumption,
    BoundsAssumption, NoRowAssumption

\* What processTask leaves of the local state has the type of a local state.
LEMMA AfterRowType ==
    ASSUME NEW w \in Local, NEW B \in SUBSET ListedRow
    PROVE  /\ AfterRow(w, B) \in Local
           /\ AfterRow(w, B).pc # "publish"
           /\ AfterRow(w, B).pc = "process" =>
                AfterRow(w, B).batch = B /\ AfterRow(w, B).cutoff = w.cutoff
<1>1. CASE B = {}
  BY <1>1 DEF AfterRow, Local, Idle, MaxPublishAttempts
<1>2. CASE B # {}
  BY <1>2 DEF AfterRow, Local, MaxPublishAttempts
<1> QED
  BY <1>1, <1>2

\* Pushing a message keeps the counters natural numbers and touches only the
\* counter of its claim.
LEMMA PushType ==
    ASSUME TypeOK, NEW t \in Tasks, NEW k \in 0..MaxRetries, Push(t, k)
    PROVE  /\ sent' \in [Tasks -> [0..MaxRetries -> Nat]]
           /\ sent'[t][k] = sent[t][k] + 1
           /\ \A u \in Tasks : \A m \in 0..MaxRetries :
                 (u # t \/ m # k) => sent'[u][m] = sent[u][m]
BY DEF TypeOK, Push

\* Init establishes the type invariant.
LEMMA InitType == Init => TypeOK
<1> SUFFICES ASSUME Init PROVE TypeOK
    OBVIOUS
<1>1. task \in [Tasks -> Row]
  BY DEF Init, Row, Gone, Text
<1>2. watchdog \in [Instances -> Local]
  BY DEF Init, Idle, Local, MaxPublishAttempts
<1> QED
  BY <1>1, <1>2 DEF Init, TypeOK

\* Every write of a row by SQL keeps the table well typed.
LEMMA WriteType ==
    ASSUME TypeOK, NEW t \in Tasks, NEW s \in Statuses, NEW e \in Text
    PROVE  /\ UpdateWorkerTaskStatus(t, s, e) => task' \in [Tasks -> Row]
           /\ UpdateDocumentTaskStatus(t, s) => task' \in [Tasks -> Row]
           /\ DeleteDocumentTask(t) => task' \in [Tasks -> Row]
           /\ MarkStaleTaskPending(t) => task' \in [Tasks -> Row]
           /\ MarkStaleTaskFailed(t) => task' \in [Tasks -> Row]
<1>1. /\ task \in [Tasks -> Row]
      /\ now \in Nat
  BY DEF TypeOK
<1>2. /\ task[t] \in Row
      /\ Coalesce(e, task[t].error_message) \in Text
  BY <1>1 DEF Row, Coalesce
<1>3. UpdateWorkerTaskStatus(t, s, e) => task' \in [Tasks -> Row]
  BY <1>1, <1>2 DEF UpdateWorkerTaskStatus, Row
<1>4. UpdateDocumentTaskStatus(t, s) => task' \in [Tasks -> Row]
  BY <1>1, <1>2 DEF UpdateDocumentTaskStatus, Row
<1>5. DeleteDocumentTask(t) => task' \in [Tasks -> Row]
  BY <1>1, <1>2 DEF DeleteDocumentTask, Row, Gone
<1>6. MarkStaleTaskPending(t) => task' \in [Tasks -> Row]
  BY <1>1, <1>2 DEF MarkStaleTaskPending, Row, Statuses, Active, Text
<1>7. MarkStaleTaskFailed(t) => task' \in [Tasks -> Row]
  BY <1>1, <1>2 DEF MarkStaleTaskFailed, Row, Statuses, Text
<1> QED
  BY <1>3, <1>4, <1>5, <1>6, <1>7

\* Every step of a writer other than the watchdog keeps the type invariant.
LEMMA TaskStepType ==
    ASSUME TypeOK, NEW t \in Tasks, TaskStep(t)
    PROVE  TypeOK'
<1>0. 0 \in 0..MaxRetries
  OBVIOUS
<1>1. CASE InsertTask(t)
  <2>1. task' \in [Tasks -> Row]
    <3>1. task \in [Tasks -> Row] /\ now \in Nat
      BY DEF TypeOK
    <3>2. [task[t] EXCEPT !.status = "pending", !.updated_at = now] \in Row
      BY <3>1 DEF Row, Statuses, Active
    <3>3. task' = [task EXCEPT ![t] = [task[t] EXCEPT !.status = "pending", !.updated_at = now]]
      BY <1>1, <3>1 DEF InsertTask
    <3> QED
      BY <3>1, <3>2, <3>3
  <2> QED
    BY <1>1, <2>1 DEF InsertTask, TypeOK
<1>2. CASE PublishFirst(t)
  BY <1>0, <1>2, PushType DEF PublishFirst, TypeOK
<1>3. CASE PublishFirstError(t)
  <2>1. sent' \in [Tasks -> [0..MaxRetries -> Nat]]
    BY <1>0, <1>3, PushType DEF PublishFirstError, TypeOK
  <2>2. creator' \in [Tasks -> {"none", "publish", "markFailed"}]
    BY <1>3 DEF PublishFirstError, TypeOK
  <2>3. faults' \in Nat
    BY <1>3 DEF PublishFirstError, TypeOK
  <2> QED
    BY <1>3, <2>1, <2>2, <2>3 DEF PublishFirstError, TypeOK
<1>4. CASE MarkFirstFailed(t)
  <2>1. task' \in [Tasks -> Row]
    BY <1>4, WriteType DEF MarkFirstFailed, TypeOK, Statuses, Text
  <2> QED
    BY <1>4, <2>1 DEF MarkFirstFailed, TypeOK
<1>5. CASE WorkerCallback(t)
  <2>1. PICK s \in {"processing", "completed", "failed"} :
            UpdateWorkerTaskStatus(t, s, IF s = "failed" THEN "text" ELSE "NULL")
    BY <1>5 DEF WorkerCallback
  <2>2. task' \in [Tasks -> Row]
    BY <2>1, WriteType DEF Statuses, Active, Text
  <2> QED
    BY <1>5, <2>2 DEF WorkerCallback, TypeOK
<1>6. CASE UserUpdateStatus(t)
  <2>1. task' \in [Tasks -> Row]
    BY <1>6, WriteType DEF UserUpdateStatus, Text
  <2> QED
    BY <1>6, <2>1 DEF UserUpdateStatus, TypeOK
<1>7. CASE UserDelete(t)
  <2>1. task' \in [Tasks -> Row]
    BY <1>7, WriteType DEF UserDelete, Statuses, Text
  <2> QED
    BY <1>7, <2>1 DEF UserDelete, TypeOK
<1> QED
  BY <1>1, <1>2, <1>3, <1>4, <1>5, <1>6, <1>7 DEF TaskStep

\* Every step of a watchdog keeps the type invariant.
LEMMA WatchdogStepType ==
    ASSUME TypeOK, ClaimCounted, NEW i \in Instances, WatchdogStep(i)
    PROVE  TypeOK'
<1>0. watchdog[i] \in Local
  BY DEF TypeOK
<1>1. CASE ListStaleTasks(i)
  <2>1. PICK d \in (-MaxSkew)..MaxSkew, S \in SUBSET Tasks :
          watchdog' = [watchdog EXCEPT ![i] =
            [pc |-> "process", cutoff |-> now + d - Threshold, cur |-> NoRow,
             attempt |-> 1,
             batch |-> {[id |-> t, retry_count |-> task[t].retry_count,
                         updated_at |-> task[t].updated_at] : t \in S}]]
    BY <1>1 DEF ListStaleTasks, Stale, Cutoff
  <2> DEFINE B == {[id |-> t, retry_count |-> task[t].retry_count,
                    updated_at |-> task[t].updated_at] : t \in S}
  <2>2. B \in SUBSET ListedRow
    BY DEF TypeOK, Row, ListedRow
  <2>3. now + d - Threshold \in Int
    BY DEF TypeOK
  <2>4. [pc |-> "process", cutoff |-> now + d - Threshold, cur |-> NoRow,
         attempt |-> 1, batch |-> B] \in Local
    <3> HIDE DEF B
    <3> QED BY <2>2, <2>3 DEF Local, MaxPublishAttempts
  <2> QED
    BY <1>1, <2>1, <2>4 DEF ListStaleTasks, TypeOK
<1>2. ASSUME NEW r \in watchdog[i].batch, SkipRow(i, r)
      PROVE  watchdog' \in [Instances -> Local]
  <2>1. watchdog[i].batch \ {r} \in SUBSET ListedRow
    BY <1>0 DEF Local
  <2> QED
    BY <1>0, <1>2, <2>1, AfterRowType DEF SkipRow, TypeOK
<1>3. ASSUME NEW r \in watchdog[i].batch,
             MarkStaleTaskFailed(r.id) \/ MarkStaleTaskPending(r.id) \/ UNCHANGED task
      PROVE  task' \in [Tasks -> Row]
  <2>1. r.id \in Tasks
    BY <1>0 DEF Local, ListedRow
  <2> QED
    BY <1>3, <2>1, WriteType DEF TypeOK, Statuses, Text
<1>4. CASE FailExhausted(i)
  BY <1>2, <1>3, <1>4 DEF FailExhausted, TypeOK
<1>5. CASE Claim(i)
  <2>1. PICK r \in watchdog[i].batch :
          /\ MarkStaleTaskPending(r.id)
          /\ watchdog' = [watchdog EXCEPT ![i] =
               [pc |-> "publish", cutoff |-> @.cutoff, batch |-> @.batch \ {r},
                cur |-> r, attempt |-> 1]]
    BY <1>5 DEF Claim
  <2>2. [pc |-> "publish", cutoff |-> watchdog[i].cutoff,
         batch |-> watchdog[i].batch \ {r}, cur |-> r, attempt |-> 1] \in Local
    BY <1>0 DEF Local, MaxPublishAttempts
  <2>3. task' \in [Tasks -> Row]
    BY <1>3, <2>1
  <2> QED
    BY <1>5, <2>1, <2>2, <2>3 DEF Claim, TypeOK
<1>6. CASE ClaimLost(i)
  BY <1>2, <1>6 DEF ClaimLost, TypeOK
<1>7. CASE MarkError(i)
  BY <1>2, <1>3, <1>7 DEF MarkError, TypeOK
<1>8. ASSUME watchdog[i].pc = "publish"
      PROVE  /\ watchdog[i].cur.id \in Tasks
             /\ watchdog[i].cur.retry_count + 1 \in 0..MaxRetries
  BY <1>8 DEF ClaimCounted, ListedRow
<1>9. /\ watchdog[i].batch \in SUBSET ListedRow
      /\ AfterRow(watchdog[i], watchdog[i].batch) \in Local
  BY <1>0, AfterRowType DEF Local
<1>10. CASE Publish(i)
  <2>1. sent' \in [Tasks -> [0..MaxRetries -> Nat]]
    BY <1>8, <1>10, PushType DEF Publish
  <2> QED
    BY <1>9, <1>10, <2>1 DEF Publish, TypeOK
<1>11. CASE PublishError(i)
  <2>1. sent' \in [Tasks -> [0..MaxRetries -> Nat]]
    BY <1>8, <1>11, PushType DEF PublishError, TypeOK
  <2>2. ASSUME ~LastAttempt(watchdog[i])
        PROVE  NextAttempt(watchdog[i]) \in Local
    BY <1>0, <2>2 DEF NextAttempt, LastAttempt, Local, MaxPublishAttempts
  <2>3. watchdog' \in [Instances -> Local]
    <3>1. watchdog' = [watchdog EXCEPT ![i] =
            IF LastAttempt(watchdog[i]) THEN AfterRow(watchdog[i], watchdog[i].batch)
            ELSE NextAttempt(watchdog[i])]
      BY <1>11 DEF PublishError
    <3>2. watchdog \in [Instances -> Local]
      BY DEF TypeOK
    <3> QED
      BY <1>9, <2>2, <3>1, <3>2
  <2>4. faults' \in Nat
    <3>1. faults \in Nat /\ faults > 0 /\ faults' = faults - 1
      BY <1>11 DEF PublishError, TypeOK
    <3> QED
      BY <3>1
  <2>5. UNCHANGED <<now, task, creator, edits>>
    BY <1>11 DEF PublishError
  <2> QED
    BY <2>1, <2>3, <2>4, <2>5 DEF TypeOK
<1>12. CASE Stop(i)
  <2>1. [Idle EXCEPT !.pc = "stopped"] \in Local
    BY DEF Idle, Local, MaxPublishAttempts
  <2> QED
    BY <1>12, <2>1 DEF Stop, TypeOK
<1>13. CASE Restart(i)
  <2>1. Idle \in Local
    BY DEF Idle, Local, MaxPublishAttempts
  <2> QED
    BY <1>13, <2>1 DEF Restart, TypeOK
<1> QED
  BY <1>1, <1>4, <1>5, <1>6, <1>7, <1>10, <1>11, <1>12, <1>13
     DEF WatchdogStep, ProcessTask

-----------------------------------------------------------------------------
\* What a step may do to a watchdog without claiming, listing or publishing:
\* nothing, leave the scan, or go on with fewer rows of the same batch.
Progressed(i) ==
    \/ watchdog'[i] = watchdog[i]
    \/ watchdog'[i].pc \notin {"process", "publish"}
    \/ /\ Scanning(i)
       /\ watchdog'[i].pc = "process"
       /\ watchdog'[i].cutoff = watchdog[i].cutoff
       /\ watchdog'[i].batch \subseteq watchdog[i].batch

\* The rows are written with the current time and keep their retry_count,
\* time does not go back, and no message of a claim is pushed.
QuietRows ==
    /\ now <= now'
    /\ \A t \in Tasks :
         /\ task'[t].retry_count = task[t].retry_count
         /\ task'[t].updated_at = task[t].updated_at \/ task'[t].updated_at = now

QuietQueue == \A t \in Tasks : \A k \in 1..MaxRetries : sent'[t][k] = sent[t][k]

\* Any write of a row hides it from every cutoff computed before: this is
\* where the skew assumption is needed.
LEMMA WriteHides ==
    ASSUME IInv, NEW i \in Instances, Scanning(i)
    PROVE  /\ now \in Nat
           /\ watchdog[i].cutoff \in Int
           /\ watchdog[i].cutoff <= now
<1>1. now \in Nat /\ watchdog[i] \in Local
  BY DEF IInv, TypeOK
<1>2. watchdog[i].cutoff \in Int
  BY <1>1 DEF Local
<1>3. watchdog[i].cutoff + Threshold <= now + MaxSkew
  BY DEF IInv, CutoffBehind
<1> QED
  BY <1>1, <1>2, <1>3

\* Steps that neither claim, list nor publish preserve the invariant.
LEMMA QuietStep ==
    ASSUME IInv, TypeOK', QuietRows, QuietQueue, \A i \in Instances : Progressed(i)
    PROVE  IInv'
<1>0. /\ now \in Nat
      /\ now' \in Nat
      /\ task \in [Tasks -> Row]
      /\ task' \in [Tasks -> Row]
      /\ watchdog \in [Instances -> Local]
      /\ watchdog' \in [Instances -> Local]
  BY DEF IInv, TypeOK
<1>a. ASSUME NEW i \in Instances, Scanning(i)'
      PROVE  /\ Scanning(i)
             /\ watchdog'[i].cutoff = watchdog[i].cutoff
             /\ watchdog'[i].batch \subseteq watchdog[i].batch
             /\ watchdog'[i].pc = "publish" => watchdog'[i] = watchdog[i]
  BY <1>a DEF Progressed, Scanning
<1>1. CutoffBehind'
  <2> SUFFICES ASSUME NEW i \in Instances, Scanning(i)'
               PROVE  watchdog'[i].cutoff + Threshold <= now' + MaxSkew
    BY DEF CutoffBehind
  <2>1. watchdog[i].cutoff + Threshold <= now + MaxSkew /\ watchdog[i].cutoff \in Int
    BY <1>0, <1>a DEF IInv, CutoffBehind, Local
  <2> QED
    BY <1>0, <1>a, <2>1 DEF QuietRows
<1>2. ListedRowsCurrent'
  <2> SUFFICES ASSUME NEW i \in Instances, Scanning(i)',
                      NEW r \in watchdog'[i].batch,
                      task'[r.id].updated_at < watchdog'[i].cutoff
               PROVE  task'[r.id].retry_count = r.retry_count
    BY DEF ListedRowsCurrent
  <2>1. Scanning(i) /\ r \in watchdog[i].batch /\ watchdog'[i].cutoff = watchdog[i].cutoff
    BY <1>a
  <2>2. r.id \in Tasks
    BY <1>0, <2>1 DEF Local, ListedRow
  <2>3. watchdog[i].cutoff <= now /\ watchdog[i].cutoff \in Int
    BY <2>1, WriteHides
  <2>4. task'[r.id].updated_at = task[r.id].updated_at
    BY <1>0, <2>1, <2>2, <2>3 DEF QuietRows
  <2> QED
    BY <2>1, <2>2, <2>4 DEF IInv, ListedRowsCurrent, QuietRows
<1>3. RetryBound'
  BY DEF IInv, RetryBound, QuietRows
<1>4. ClaimCounted'
  <2> SUFFICES ASSUME NEW i \in Instances, watchdog'[i].pc = "publish"
               PROVE  /\ watchdog'[i].cur \in ListedRow
                      /\ watchdog'[i].cur.retry_count < MaxRetries
                      /\ watchdog'[i].cur.retry_count + 1 <= task'[watchdog'[i].cur.id].retry_count
    BY DEF ClaimCounted
  <2>1. watchdog'[i] = watchdog[i]
    BY <1>a DEF Scanning
  <2>2. watchdog[i].cur.id \in Tasks
    BY <2>1 DEF IInv, ClaimCounted, ListedRow
  <2> QED
    BY <2>1, <2>2 DEF IInv, ClaimCounted, QuietRows
<1>5. OnePublisherPerClaim'
  <2>1. \A i \in Instances : watchdog'[i].pc = "publish" => watchdog'[i] = watchdog[i]
    BY <1>a DEF Scanning
  <2> QED
    BY <2>1 DEF IInv, OnePublisherPerClaim
<1>6. SentCounted'
  <2>1. \A t \in Tasks : \A k \in 1..MaxRetries : sent'[t][k] > 0 => k <= task'[t].retry_count
    BY DEF IInv, SentCounted, QuietRows, QuietQueue
  <2>2. ASSUME NEW i \in Instances, watchdog'[i].pc = "publish"
        PROVE  sent'[watchdog'[i].cur.id][watchdog'[i].cur.retry_count + 1] < watchdog'[i].attempt
    <3>1. watchdog'[i] = watchdog[i]
      BY <1>a, <2>2 DEF Scanning
    <3>2. watchdog[i].cur.id \in Tasks /\ watchdog[i].cur.retry_count + 1 \in 1..MaxRetries
      BY <2>2, <3>1 DEF IInv, ClaimCounted, ListedRow
    <3> QED
      BY <2>2, <3>1, <3>2 DEF IInv, SentCounted, QuietQueue
  <2> QED
    BY <2>1, <2>2 DEF SentCounted
<1>7. PublishBound'
  BY DEF IInv, PublishBound, QuietQueue
<1> QED
  BY <1>1, <1>2, <1>3, <1>4, <1>5, <1>6, <1>7 DEF IInv

\* A row that passes the compare-and-swap has the retry_count it was listed with.
LEMMA ClaimIsExact ==
    ASSUME IInv, NEW i \in Instances, NEW r \in watchdog[i].batch, IsNextRow(i, r),
           StillStale(r.id, watchdog[i].cutoff)
    PROVE  /\ r \in ListedRow
           /\ task[r.id].retry_count = r.retry_count
           /\ task[r.id].updated_at + Threshold < now + MaxSkew
<1>1. watchdog[i] \in Local /\ Scanning(i) /\ now \in Nat
  BY DEF IInv, TypeOK, IsNextRow, Scanning
<1>2. r \in ListedRow
  BY <1>1 DEF Local
<1>3. task[r.id].updated_at < watchdog[i].cutoff
  BY DEF StillStale
<1>4. task[r.id].updated_at \in Nat /\ watchdog[i].cutoff \in Int
  BY <1>1, <1>2 DEF IInv, TypeOK, Row, ListedRow, Local
<1>5. watchdog[i].cutoff + Threshold <= now + MaxSkew
  BY <1>1 DEF IInv, CutoffBehind
<1> QED
  BY <1>1, <1>2, <1>3, <1>4, <1>5 DEF IInv, ListedRowsCurrent

\* A claim preserves the invariant, whether the watchdog learns of it and goes
\* on to publish or gets an error and drops the row.
LEMMA ClaimStep ==
    ASSUME IInv, TypeOK',
           NEW i \in Instances, NEW r \in watchdog[i].batch, IsNextRow(i, r),
           ~Exhausted(r), StillStale(r.id, watchdog[i].cutoff),
           MarkStaleTaskPending(r.id), now' = now, sent' = sent,
           \A j \in Instances : j # i => watchdog'[j] = watchdog[j],
           Scanning(i)' => /\ watchdog'[i].cutoff = watchdog[i].cutoff
                           /\ watchdog'[i].batch \subseteq watchdog[i].batch,
           watchdog'[i].pc = "publish" => watchdog'[i].cur = r /\ watchdog'[i].attempt = 1
    PROVE  IInv'
<1>0. /\ now \in Nat
      /\ task \in [Tasks -> Row]
      /\ task' \in [Tasks -> Row]
      /\ watchdog \in [Instances -> Local]
      /\ watchdog' \in [Instances -> Local]
  BY DEF IInv, TypeOK
<1>1. r \in ListedRow /\ task[r.id].retry_count = r.retry_count
  BY ClaimIsExact
<1>2. r.id \in Tasks /\ r.retry_count \in Nat /\ r.retry_count < MaxRetries
  BY <1>1 DEF ListedRow, Exhausted
<1>3. /\ task'[r.id].retry_count = r.retry_count + 1
      /\ task'[r.id].updated_at = now
      /\ \A t \in Tasks : t # r.id => task'[t] = task[t]
  BY <1>0, <1>1, <1>2 DEF MarkStaleTaskPending
<1>4. \A t \in Tasks : /\ task[t].retry_count \in Nat
                       /\ task'[t].retry_count \in Nat
                       /\ task[t].retry_count <= task'[t].retry_count
  BY <1>0, <1>1, <1>2, <1>3 DEF Row
<1>a. ASSUME NEW j \in Instances, Scanning(j)'
      PROVE  /\ Scanning(j)
             /\ watchdog'[j].cutoff = watchdog[j].cutoff
             /\ watchdog'[j].batch \subseteq watchdog[j].batch
  BY <1>a DEF Scanning, IsNextRow
<1>5. CutoffBehind'
  BY <1>a DEF IInv, CutoffBehind
<1>6. ListedRowsCurrent'
  <2> SUFFICES ASSUME NEW j \in Instances, Scanning(j)', NEW q \in watchdog'[j].batch,
                      task'[q.id].updated_at < watchdog'[j].cutoff
               PROVE  task'[q.id].retry_count = q.retry_count
    BY DEF ListedRowsCurrent
  <2>1. Scanning(j) /\ q \in watchdog[j].batch /\ watchdog'[j].cutoff = watchdog[j].cutoff
    BY <1>a
  <2>2. q.id \in Tasks
    BY <1>0, <2>1 DEF Local, ListedRow
  <2>3. watchdog[j].cutoff <= now /\ watchdog[j].cutoff \in Int
    BY <2>1, WriteHides
  <2>4. q.id # r.id
    BY <1>0, <1>3, <2>1, <2>3
  <2> QED
    BY <1>3, <2>1, <2>2, <2>4 DEF IInv, ListedRowsCurrent
<1>7. RetryBound'
  BY <1>2, <1>3, <1>4 DEF IInv, RetryBound
<1>8. ASSUME NEW j \in Instances, j # i, watchdog'[j].pc = "publish"
      PROVE  /\ watchdog[j].cur \in ListedRow
             /\ watchdog[j].cur.id \in Tasks
             /\ watchdog[j].cur.retry_count \in Nat
             /\ watchdog[j].cur.retry_count < MaxRetries
             /\ watchdog[j].cur.retry_count + 1 <= task[watchdog[j].cur.id].retry_count
  BY <1>8 DEF IInv, ClaimCounted, ListedRow
<1>9. ClaimCounted'
  <2> SUFFICES ASSUME NEW j \in Instances, watchdog'[j].pc = "publish"
               PROVE  /\ watchdog'[j].cur \in ListedRow
                      /\ watchdog'[j].cur.retry_count < MaxRetries
                      /\ watchdog'[j].cur.retry_count + 1 <= task'[watchdog'[j].cur.id].retry_count
    BY DEF ClaimCounted
  <2>1. CASE j = i
    BY <1>1, <1>2, <1>3, <2>1
  <2>2. CASE j # i
    BY <1>4, <1>8, <2>2
  <2> QED
    BY <2>1, <2>2
<1>10. OnePublisherPerClaim'
  <2>1. ASSUME NEW j \in Instances, j # i, watchdog'[j].pc = "publish",
               watchdog[j].cur.id = r.id
        PROVE  watchdog[j].cur.retry_count # r.retry_count
    BY <1>1, <1>2, <1>8, <2>1
  <2> QED
    BY <2>1 DEF IInv, OnePublisherPerClaim
<1>11. SentCounted'
  <2>1. \A t \in Tasks : \A k \in 1..MaxRetries :
           sent[t][k] \in Nat /\ (sent[t][k] > 0 => k <= task[t].retry_count)
    BY DEF IInv, SentCounted, TypeOK
  <2>2. \A t \in Tasks : \A k \in 1..MaxRetries : sent'[t][k] > 0 => k <= task'[t].retry_count
    BY <1>4, <2>1
  <2>3. ASSUME NEW j \in Instances, watchdog'[j].pc = "publish"
        PROVE  sent'[watchdog'[j].cur.id][watchdog'[j].cur.retry_count + 1] < watchdog'[j].attempt
    <3>1. CASE j = i
      <4>1. r.retry_count + 1 \in 1..MaxRetries
        BY <1>2
      <4>2. sent[r.id][r.retry_count + 1] = 0
        BY <1>1, <1>2, <2>1, <4>1
      <4> QED
        BY <2>3, <3>1, <4>2
    <3>2. CASE j # i
      BY <2>3, <3>2 DEF IInv, SentCounted
    <3> QED
      BY <3>1, <3>2
  <2> QED
    BY <2>2, <2>3 DEF SentCounted
<1>12. PublishBound'
  BY DEF IInv, PublishBound
<1> QED
  BY <1>5, <1>6, <1>7, <1>9, <1>10, <1>11, <1>12 DEF IInv

\* One publish attempt preserves the invariant: only the claim's publisher can
\* push for it, and it has an attempt left.
LEMMA PublishStep ==
    ASSUME IInv, TypeOK', NEW i \in Instances, Publish(i) \/ PublishError(i)
    PROVE  IInv'
<1> DEFINE t == watchdog[i].cur.id
           k == watchdog[i].cur.retry_count + 1
<1>0. /\ now' = now
      /\ task' = task
      /\ watchdog[i].pc = "publish"
      /\ watchdog \in [Instances -> Local]
      /\ \A j \in Instances : j # i => watchdog'[j] = watchdog[j]
  BY DEF Publish, PublishError, IInv, TypeOK
<1>1. t \in Tasks /\ k \in 1..MaxRetries /\ watchdog[i].cur \in ListedRow
  BY <1>0 DEF IInv, ClaimCounted, ListedRow
<1>2. /\ \A u \in Tasks : \A m \in 0..MaxRetries : sent[u][m] \in Nat /\ sent'[u][m] \in Nat
      /\ \A u \in Tasks : \A m \in 0..MaxRetries :
            (u # t \/ m # k) => sent'[u][m] = sent[u][m]
      /\ sent'[t][k] <= sent[t][k] + 1
  <2>1. \A u \in Tasks : \A m \in 0..MaxRetries : sent[u][m] \in Nat /\ sent'[u][m] \in Nat
    BY DEF IInv, TypeOK
  <2>2. Push(t, k) \/ UNCHANGED sent
    BY DEF Publish, PublishError
  <2>3. k \in 0..MaxRetries
    BY <1>1
  <2>4. CASE Push(t, k)
    <3>1. TypeOK /\ t \in Tasks /\ Push(t, k)
      BY <1>1, <2>4 DEF IInv
    <3> HIDE DEF t, k
    <3>2. /\ sent'[t][k] = sent[t][k] + 1
          /\ \A u \in Tasks : \A m \in 0..MaxRetries :
                (u # t \/ m # k) => sent'[u][m] = sent[u][m]
      BY <2>3, <3>1, PushType
    <3> QED
      BY <2>1, <2>3, <3>1, <3>2
  <2>5. CASE UNCHANGED sent
    <3>1. sent' = sent
      BY <2>5
    <3> HIDE DEF t, k
    <3> QED
      BY <1>1, <2>1, <2>3, <3>1
  <2> QED
    BY <2>1, <2>2, <2>4, <2>5
<1>3. \/ watchdog'[i].pc \notin {"process", "publish"}
      \/ /\ watchdog'[i].pc = "process"
         /\ watchdog'[i].cutoff = watchdog[i].cutoff
         /\ watchdog'[i].batch = watchdog[i].batch
      \/ /\ ~LastAttempt(watchdog[i])
         /\ watchdog'[i].pc = "publish"
         /\ watchdog'[i].cutoff = watchdog[i].cutoff
         /\ watchdog'[i].batch = watchdog[i].batch
         /\ watchdog'[i].cur = watchdog[i].cur
         /\ watchdog'[i].attempt = watchdog[i].attempt + 1
  <2>1. \/ watchdog'[i] = AfterRow(watchdog[i], watchdog[i].batch)
        \/ ~LastAttempt(watchdog[i]) /\ watchdog'[i] = NextAttempt(watchdog[i])
    BY <1>0 DEF Publish, PublishError
  <2>2. watchdog[i] \in Local /\ watchdog[i].batch \in SUBSET ListedRow
    BY <1>0 DEF Local
  <2>3. CASE watchdog'[i] = AfterRow(watchdog[i], watchdog[i].batch)
    BY <2>2, <2>3, AfterRowType DEF Local
  <2>4. CASE ~LastAttempt(watchdog[i]) /\ watchdog'[i] = NextAttempt(watchdog[i])
    BY <1>0, <2>2, <2>4 DEF NextAttempt, Local
  <2> QED
    BY <2>1, <2>3, <2>4
<1>a. ASSUME NEW j \in Instances, Scanning(j)'
      PROVE  /\ Scanning(j)
             /\ watchdog'[j].cutoff = watchdog[j].cutoff
             /\ watchdog'[j].batch = watchdog[j].batch
             /\ watchdog'[j].pc = "publish" =>
                   watchdog[j].pc = "publish" /\ watchdog'[j].cur = watchdog[j].cur
  BY <1>0, <1>3, <1>a DEF Scanning
<1>4. CutoffBehind' /\ ListedRowsCurrent' /\ RetryBound'
  BY <1>0, <1>a DEF IInv, CutoffBehind, ListedRowsCurrent, RetryBound
<1>b. ASSUME NEW j \in Instances, watchdog'[j].pc = "publish"
      PROVE  watchdog[j].pc = "publish" /\ watchdog'[j].cur = watchdog[j].cur
  BY <1>a, <1>b DEF Scanning
<1>5. ClaimCounted'
  BY <1>0, <1>b DEF IInv, ClaimCounted
<1>6. OnePublisherPerClaim'
  BY <1>b DEF IInv, OnePublisherPerClaim
<1>7. watchdog[i].attempt \in 1..MaxPublishAttempts /\ sent[t][k] < watchdog[i].attempt
  BY <1>0 DEF IInv, SentCounted, Local
<1>8. k <= task[t].retry_count
  BY <1>0 DEF IInv, ClaimCounted
<1>9. SentCounted'
  <2>1. ASSUME NEW u \in Tasks, NEW m \in 1..MaxRetries, sent'[u][m] > 0
        PROVE  m <= task'[u].retry_count
    <3>1. CASE u = t /\ m = k
      BY <1>0, <1>8, <3>1
    <3>2. CASE u # t \/ m # k
      <4>1. sent'[u][m] = sent[u][m]
        BY <1>2, <3>2
      <4> QED
        BY <1>0, <2>1, <4>1 DEF IInv, SentCounted
    <3> QED
      BY <3>1, <3>2
  <2>2. ASSUME NEW j \in Instances, watchdog'[j].pc = "publish"
        PROVE  sent'[watchdog'[j].cur.id][watchdog'[j].cur.retry_count + 1] < watchdog'[j].attempt
    <3>1. CASE j = i
      <4>1. watchdog'[i].cur = watchdog[i].cur /\ watchdog'[i].attempt = watchdog[i].attempt + 1
        BY <1>3, <2>2, <3>1
      <4>2. sent'[t][k] \in Nat /\ sent[t][k] \in Nat
        BY <1>1, <1>2
      <4>3. sent'[t][k] < watchdog[i].attempt + 1
        BY <1>2, <1>7, <4>2
      <4> QED
        BY <3>1, <4>1, <4>3
    <3>2. CASE j # i
      <4>1. watchdog'[j] = watchdog[j] /\ watchdog[j].pc = "publish"
        BY <1>0, <2>2, <3>2
      <4>2. /\ watchdog[j].cur.id \in Tasks
            /\ watchdog[j].cur.retry_count \in Nat
            /\ watchdog[j].cur.retry_count + 1 \in 0..MaxRetries
        BY <4>1 DEF IInv, ClaimCounted, ListedRow
      <4>3. watchdog[i].cur.retry_count \in Nat
        BY <1>1 DEF ListedRow
      <4>4. watchdog[j].cur.id # t \/ watchdog[j].cur.retry_count # watchdog[i].cur.retry_count
        BY <1>0, <3>2, <4>1 DEF IInv, OnePublisherPerClaim
      <4>5. watchdog[j].cur.id # t \/ watchdog[j].cur.retry_count + 1 # k
        BY <4>2, <4>3, <4>4
      <4>6. sent'[watchdog[j].cur.id][watchdog[j].cur.retry_count + 1]
              = sent[watchdog[j].cur.id][watchdog[j].cur.retry_count + 1]
        BY <1>2, <4>2, <4>5
      <4> QED
        BY <4>1, <4>6 DEF IInv, SentCounted
    <3> QED
      BY <3>1, <3>2
  <2> QED
    BY <2>1, <2>2 DEF SentCounted
<1>10. PublishBound'
  <2> SUFFICES ASSUME NEW u \in Tasks, NEW m \in 1..MaxRetries
               PROVE  sent'[u][m] <= MaxPublishAttempts
    BY DEF PublishBound
  <2>1. CASE u = t /\ m = k
    <3>1. sent'[t][k] \in Nat /\ sent[t][k] \in Nat
      BY <1>1, <1>2
    <3> QED
      BY <1>2, <1>7, <2>1, <3>1 DEF MaxPublishAttempts
  <2>2. CASE u # t \/ m # k
    <3>1. sent'[u][m] = sent[u][m]
      BY <1>2, <2>2
    <3> QED
      BY <3>1 DEF IInv, PublishBound
  <2> QED
    BY <2>1, <2>2
<1> QED
  BY <1>4, <1>5, <1>6, <1>9, <1>10 DEF IInv

\* A listing preserves the invariant: it reads the rows as they are, with a
\* cutoff computed from the current time.
LEMMA ListStep ==
    ASSUME IInv, TypeOK', NEW i \in Instances, ListStaleTasks(i)
    PROVE  IInv'
<1>1. PICK d \in (-MaxSkew)..MaxSkew, S \in SUBSET Tasks :
          watchdog' = [watchdog EXCEPT ![i] =
            [pc |-> "process", cutoff |-> now + d - Threshold, cur |-> NoRow,
             attempt |-> 1,
             batch |-> {[id |-> t, retry_count |-> task[t].retry_count,
                         updated_at |-> task[t].updated_at] : t \in S}]]
  BY DEF ListStaleTasks, Stale, Cutoff
<1>2. /\ now' = now
      /\ task' = task
      /\ sent' = sent
      /\ now \in Nat
      /\ watchdog \in [Instances -> Local]
  BY DEF ListStaleTasks, IInv, TypeOK
<1>3. /\ watchdog'[i].pc = "process"
      /\ watchdog'[i].cutoff = now + d - Threshold
      /\ \A r \in watchdog'[i].batch : task[r.id].retry_count = r.retry_count
      /\ \A j \in Instances : j # i => watchdog'[j] = watchdog[j]
  BY <1>1, <1>2
<1>4. CutoffBehind'
  BY <1>2, <1>3 DEF IInv, CutoffBehind, Scanning
<1>5. ListedRowsCurrent'
  BY <1>2, <1>3 DEF IInv, ListedRowsCurrent, Scanning
<1>6. RetryBound' /\ ClaimCounted'
  BY <1>2, <1>3 DEF IInv, RetryBound, ClaimCounted
<1>7. OnePublisherPerClaim'
  BY <1>3 DEF IInv, OnePublisherPerClaim
<1>8. SentCounted' /\ PublishBound'
  BY <1>2, <1>3 DEF IInv, SentCounted, PublishBound
<1> QED
  BY <1>4, <1>5, <1>6, <1>7, <1>8 DEF IInv

-----------------------------------------------------------------------------
\* Init establishes the inductive invariant.
LEMMA InitIInv == Init => IInv
<1> SUFFICES ASSUME Init PROVE IInv
    OBVIOUS
<1>1. \A i \in Instances : watchdog[i].pc = "idle"
  BY DEF Init, Idle
<1>2. CutoffBehind /\ ListedRowsCurrent /\ ClaimCounted /\ OnePublisherPerClaim
  BY <1>1 DEF CutoffBehind, ListedRowsCurrent, ClaimCounted, OnePublisherPerClaim, Scanning
<1>3. RetryBound
  BY DEF Init, RetryBound
<1>4. SentCounted /\ PublishBound
  BY <1>1 DEF Init, SentCounted, PublishBound, MaxPublishAttempts
<1> QED
  BY <1>2, <1>3, <1>4, InitType DEF IInv

\* The other writers of document_tasks preserve the invariant.
LEMMA TaskStepIInv ==
    ASSUME IInv, NEW t \in Tasks, TaskStep(t)
    PROVE  IInv'
<1>1. TypeOK'
  BY TaskStepType DEF IInv
<1>2. now' = now /\ watchdog' = watchdog /\ now \in Nat /\ task \in [Tasks -> Row]
  BY DEF TaskStep, InsertTask, PublishFirst, PublishFirstError, MarkFirstFailed,
         WorkerCallback, UserUpdateStatus, UserDelete, IInv, TypeOK
<1>3. QuietQueue
  <2>1. Push(t, 0) \/ sent' = sent
    BY DEF TaskStep, InsertTask, PublishFirst, PublishFirstError, MarkFirstFailed,
           WorkerCallback, UserUpdateStatus, UserDelete
  <2> QED
    BY <2>1, PushType DEF IInv, QuietQueue
<1>4. QuietRows
  <2>1. ASSUME NEW s, NEW e, UpdateWorkerTaskStatus(t, s, e) PROVE QuietRows
    BY <1>2, <2>1 DEF UpdateWorkerTaskStatus, QuietRows
  <2>2. ASSUME NEW s, UpdateDocumentTaskStatus(t, s) PROVE QuietRows
    BY <1>2, <2>2 DEF UpdateDocumentTaskStatus, QuietRows
  <2>3. CASE task' = task
    BY <1>2, <2>3 DEF QuietRows
  <2>4. CASE InsertTask(t)
    BY <1>2, <2>4 DEF InsertTask, QuietRows
  <2>5. CASE UserDelete(t)
    BY <1>2, <2>5 DEF UserDelete, DeleteDocumentTask, QuietRows
  <2>6. CASE WorkerCallback(t)
    BY <2>1, <2>6 DEF WorkerCallback
  <2>7. CASE MarkFirstFailed(t)
    BY <2>1, <2>3, <2>7 DEF MarkFirstFailed
  <2>8. CASE UserUpdateStatus(t)
    BY <2>2, <2>8 DEF UserUpdateStatus
  <2>9. CASE PublishFirst(t) \/ PublishFirstError(t)
    BY <2>3, <2>9 DEF PublishFirst, PublishFirstError
  <2> QED
    BY <2>4, <2>5, <2>6, <2>7, <2>8, <2>9 DEF TaskStep
<1>5. \A i \in Instances : Progressed(i)
  BY <1>2 DEF Progressed
<1> QED
  BY <1>1, <1>3, <1>4, <1>5, QuietStep

\* Every step of a watchdog preserves the invariant.
LEMMA WatchdogStepIInv ==
    ASSUME IInv, NEW i \in Instances, WatchdogStep(i)
    PROVE  IInv'
<1>0. /\ TypeOK'
      /\ watchdog[i] \in Local
      /\ now \in Nat
      /\ watchdog \in [Instances -> Local]
      /\ task \in [Tasks -> Row]
  BY WatchdogStepType DEF IInv, TypeOK
<1>a. ASSUME NEW r \in watchdog[i].batch, IsNextRow(i, r), SkipRow(i, r)
      PROVE  /\ \A j \in Instances : Progressed(j)
             /\ \A j \in Instances : j # i => watchdog'[j] = watchdog[j]
             /\ watchdog'[i].pc # "publish"
             /\ Scanning(i)' => /\ watchdog'[i].cutoff = watchdog[i].cutoff
                                /\ watchdog'[i].batch \subseteq watchdog[i].batch
  <2>1. /\ watchdog'[i] = AfterRow(watchdog[i], watchdog[i].batch \ {r})
        /\ \A j \in Instances : j # i => watchdog'[j] = watchdog[j]
    BY <1>0, <1>a DEF SkipRow
  <2>2. watchdog[i].batch \ {r} \in SUBSET ListedRow
    BY <1>0 DEF Local
  <2>3. /\ watchdog'[i].pc # "publish"
        /\ watchdog'[i].pc = "process" => /\ watchdog'[i].cutoff = watchdog[i].cutoff
                                          /\ watchdog'[i].batch \subseteq watchdog[i].batch
    <3> DEFINE B == watchdog[i].batch \ {r}
    <3>1. B \subseteq watchdog[i].batch /\ B \in SUBSET ListedRow
      BY <2>2
    <3> HIDE DEF B
    <3>2. watchdog'[i] = AfterRow(watchdog[i], B)
      BY <2>1 DEF B
    <3> QED
      BY <1>0, <3>1, <3>2, AfterRowType
  <2> QED
    BY <1>a, <2>1, <2>3 DEF Progressed, Scanning, IsNextRow
<1>b. ASSUME now' = now, sent' = sent, NEW t \in Tasks,
             MarkStaleTaskFailed(t) \/ task' = task
      PROVE  QuietRows /\ QuietQueue
  BY <1>0, <1>b DEF MarkStaleTaskFailed, QuietRows, QuietQueue
<1>c. \A r \in watchdog[i].batch : r.id \in Tasks
  BY <1>0 DEF Local, ListedRow
<1>1. CASE ListStaleTasks(i)
  BY <1>0, <1>1, ListStep
<1>2. CASE FailExhausted(i)
  <2>1. PICK r \in watchdog[i].batch :
          /\ IsNextRow(i, r)
          /\ MarkStaleTaskFailed(r.id) \/ task' = task
          /\ SkipRow(i, r)
    BY <1>2 DEF FailExhausted
  <2>2. now' = now /\ sent' = sent
    BY <1>2 DEF FailExhausted
  <2> QED
    BY <1>0, <1>a, <1>b, <1>c, <2>1, <2>2, QuietStep
<1>3. CASE Claim(i)
  <2>1. PICK r \in watchdog[i].batch :
          /\ IsNextRow(i, r)
          /\ ~Exhausted(r)
          /\ StillStale(r.id, watchdog[i].cutoff)
          /\ MarkStaleTaskPending(r.id)
          /\ watchdog' = [watchdog EXCEPT ![i] =
               [pc |-> "publish", cutoff |-> @.cutoff, batch |-> @.batch \ {r},
                cur |-> r, attempt |-> 1]]
    BY <1>3 DEF Claim
  <2>2. now' = now /\ sent' = sent
    BY <1>3 DEF Claim
  <2>3. /\ \A j \in Instances : j # i => watchdog'[j] = watchdog[j]
        /\ watchdog'[i].cutoff = watchdog[i].cutoff
        /\ watchdog'[i].batch \subseteq watchdog[i].batch
        /\ watchdog'[i].cur = r
        /\ watchdog'[i].attempt = 1
    BY <1>0, <2>1
  <2> QED
    BY <1>0, <2>1, <2>2, <2>3, ClaimStep
<1>4. CASE ClaimLost(i)
  <2>1. PICK r \in watchdog[i].batch : IsNextRow(i, r) /\ SkipRow(i, r)
    BY <1>4 DEF ClaimLost
  <2>2. now' = now /\ sent' = sent /\ task' = task
    BY <1>4 DEF ClaimLost
  <2> QED
    BY <1>0, <1>a, <1>b, <1>c, <2>1, <2>2, QuietStep
<1>5. CASE MarkError(i)
  <2>1. PICK r \in watchdog[i].batch :
          /\ IsNextRow(i, r)
          /\ \/ /\ StillStale(r.id, watchdog[i].cutoff)
                /\ IF Exhausted(r) THEN MarkStaleTaskFailed(r.id)
                                   ELSE MarkStaleTaskPending(r.id)
             \/ UNCHANGED task
          /\ SkipRow(i, r)
    BY <1>5 DEF MarkError
  <2>2. now' = now /\ sent' = sent
    BY <1>5 DEF MarkError
  <2>3. CASE MarkStaleTaskFailed(r.id) \/ task' = task
    BY <1>0, <1>a, <1>b, <1>c, <2>1, <2>2, <2>3, QuietStep
  <2>4. CASE ~Exhausted(r) /\ StillStale(r.id, watchdog[i].cutoff) /\ MarkStaleTaskPending(r.id)
    BY <1>0, <1>a, <2>1, <2>2, <2>4, ClaimStep
  <2> QED
    BY <2>1, <2>3, <2>4
<1>6. CASE Publish(i) \/ PublishError(i)
  BY <1>0, <1>6, PublishStep
<1>7. CASE Stop(i) \/ Restart(i)
  <2>1. now' = now /\ sent' = sent /\ task' = task
    BY <1>7 DEF Stop, Restart
  <2>2. \A j \in Instances : Progressed(j)
    BY <1>0, <1>7 DEF Stop, Restart, Idle, Progressed
  <2>3. QuietRows /\ QuietQueue
    BY <1>0, <2>1 DEF QuietRows, QuietQueue
  <2> QED
    BY <1>0, <2>2, <2>3, QuietStep
<1> QED
  BY <1>1, <1>2, <1>3, <1>4, <1>5, <1>6, <1>7 DEF WatchdogStep, ProcessTask

\* The invariant is inductive.
LEMMA NextIInv == IInv /\ [Next]_vars => IInv'
<1> SUFFICES ASSUME IInv, [Next]_vars PROVE IInv'
    OBVIOUS
<1>1. CASE Tick
  <2>1. TypeOK' /\ QuietRows /\ QuietQueue
    BY <1>1 DEF Tick, IInv, TypeOK, QuietRows, QuietQueue
  <2>2. \A i \in Instances : Progressed(i)
    BY <1>1 DEF Tick, Progressed
  <2> QED
    BY <2>1, <2>2, QuietStep
<1>2. CASE \E t \in Tasks : TaskStep(t)
  BY <1>2, TaskStepIInv
<1>3. CASE \E i \in Instances : WatchdogStep(i)
  BY <1>3, WatchdogStepIInv
<1>4. CASE UNCHANGED vars
  <2>1. TypeOK' /\ QuietRows /\ QuietQueue
    BY <1>4 DEF vars, IInv, TypeOK, QuietRows, QuietQueue
  <2>2. \A i \in Instances : Progressed(i)
    BY <1>4 DEF vars, Progressed
  <2> QED
    BY <2>1, <2>2, QuietStep
<1> QED
  BY <1>1, <1>2, <1>3, <1>4 DEF Next

\* The inductive invariant of the watchdog holds in every reachable state.
THEOREM Inductive == Spec => []IInv
<1> QED
  BY InitIInv, NextIInv, PTL DEF Spec

\* Type correctness of the task table, the queue and the watchdogs.
THEOREM TypeCorrect == Spec => []TypeOK
<1>1. IInv => TypeOK
  BY DEF IInv
<1> QED
  BY <1>1, Inductive, PTL

\* No task is requeued more than MaxRetries times, for any number of replicas
\* that run processTask on rows they listed earlier.
THEOREM RetriesBounded == Spec => []RetryBound
<1>1. IInv => RetryBound
  BY DEF IInv
<1> QED
  BY <1>1, Inductive, PTL

\* Two watchdogs never publish on the strength of the same claim.
THEOREM ClaimsExclusive == Spec => []OnePublisherPerClaim
<1>1. IInv => OnePublisherPerClaim
  BY DEF IInv
<1> QED
  BY <1>1, Inductive, PTL

\* A claim puts at most maxPublishAttempts messages on the queue.
THEOREM PublishesBounded == Spec => []PublishBound
<1>1. IInv => PublishBound
  BY DEF IInv
<1> QED
  BY <1>1, Inductive, PTL

\* processTask spares a row that was written less than a threshold ago.
THEOREM FreshRowsSpared == Spec => RefreshedTaskSpared
<1>1. ASSUME IInv, NEW i \in Instances, ProcessTask(i), NEW t \in Tasks, task'[t] # task[t]
      PROVE  task[t].updated_at + Threshold < now + MaxSkew
  <2>1. PICK r \in watchdog[i].batch :
          /\ IsNextRow(i, r)
          /\ StillStale(r.id, watchdog[i].cutoff)
          /\ MarkStaleTaskFailed(r.id) \/ MarkStaleTaskPending(r.id)
    BY <1>1 DEF ProcessTask, FailExhausted, Claim, ClaimLost
  <2>2. t = r.id
    BY <1>1, <2>1 DEF MarkStaleTaskFailed, MarkStaleTaskPending, IInv, TypeOK
  <2> QED
    BY <1>1, <2>1, <2>2, ClaimIsExact
<1>2. IInv /\ [Next]_vars =>
        [\A i \in Instances : ProcessTask(i) =>
           \A t \in Tasks : task'[t] # task[t] =>
               task[t].updated_at + Threshold < now + MaxSkew]_vars
  BY <1>1
<1> QED
  BY <1>2, Inductive, PTL DEF Spec, RefreshedTaskSpared

\* A task is failed by the watchdog only when its retries are used up.
THEOREM GivesUpLast == Spec => FailsOnlyExhausted
<1>1. ASSUME IInv, NEW i \in Instances, FailExhausted(i), NEW t \in Tasks, task'[t] # task[t]
      PROVE  task[t].retry_count = MaxRetries
  <2>1. PICK r \in watchdog[i].batch :
          /\ IsNextRow(i, r)
          /\ Exhausted(r)
          /\ StillStale(r.id, watchdog[i].cutoff)
          /\ MarkStaleTaskFailed(r.id)
    BY <1>1 DEF FailExhausted
  <2>2. t = r.id
    BY <1>1, <2>1 DEF MarkStaleTaskFailed, IInv, TypeOK
  <2>3. task[t].retry_count = r.retry_count /\ r \in ListedRow
    BY <1>1, <2>1, <2>2, ClaimIsExact
  <2>4. task[t].retry_count <= MaxRetries /\ r.retry_count >= MaxRetries
    BY <1>1, <2>1 DEF IInv, RetryBound, Exhausted
  <2> QED
    BY <2>3, <2>4 DEF ListedRow
<1>2. IInv /\ [Next]_vars =>
        [\A i \in Instances : FailExhausted(i) =>
           \A t \in Tasks : task'[t] # task[t] => task[t].retry_count = MaxRetries]_vars
  BY <1>1
<1> QED
  BY <1>2, Inductive, PTL DEF Spec, FailsOnlyExhausted
=============================================================================
