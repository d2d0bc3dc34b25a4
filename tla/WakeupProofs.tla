---------------------------- MODULE WakeupProofs ----------------------------
(***************************************************************************)
(* The proof that no request of Pipeline is forgotten: whatever the        *)
(* interleaving of handlers, callbacks and the watchdog, as long as        *)
(* nothing fails, a request in flight has a task to wait for or a handler  *)
(* that is going to move it on.                                            *)
(*                                                                         *)
(* NoLostWakeup speaks of the moments when no handler runs.  Awake says    *)
(* for every state who is in charge of a request: one of its tasks, or a   *)
(* handler that has still to list the requests of the document, has it on  *)
(* its list, has decided to insert a task for it, or works on the answer   *)
(* of one of its tasks.  Every step hands the request over to the next in  *)
(* charge.  The step that needs more is Progress: it may decide on a text  *)
(* that is not there while the task that makes it is completed already;    *)
(* RowsTexted finds the handler that is about to register that text, and   *)
(* to list the request; or the task was reported completed without it.     *)
(* That a failed task keeps nobody waiting but those no callback tells is  *)
(* Told: a handler is on its way to fail the request, or it is stranded.   *)
(***************************************************************************)
EXTENDS PipelineProofs

USE BoundsAssumption, NoneAssumption

\* Positions from which a handler comes to list the requests of its document,
\* and positions in which it keeps the list.
Listing == OnRegistered \cup {"listProgress", "listFail"}
OnList == OnRequest \cup {"loop", "failLoop", "publish"}

\* A task that is there and not completed: its callback is still to come, or it
\* has failed.
Waits(id) == task[id].status \in {"pending", "processing", "failed"}

\* Some task whose callback moves the request on.
Tasked(r) == \E id \in Wakers(r) : Waits(id)

\* The handler has still to list the requests of document d.
WillList(t, d) ==
    t.doc = d /\ (t.pc \in Listing \/ (t.pc = "publish" /\ t.after = "listProgress"))

\* It has listed r and not come to it.
Listed(t, r) == t.pc \in OnList /\ \E q \in t.todo : q.id = r

\* It has decided what to do about r, and the task it is going to insert is not
\* there yet.
Decided(t, r) ==
    /\ t.req # None /\ t.req.id = r
    /\ \/ t.pc = "createResolveKeys"
       \/ t.pc = "ensureConvert" /\ ~Exists(<<t.doc, "convert">>)
       \/ t.pc = "ensureAnonymize" /\ request[r].anonymize /\ ~Exists(<<t.doc, "anonymize">>)

\* It works on the answer of a task of r.
Resolving(t, r) == t.pc \in OnResolved \cup {"failRequest"} /\ t.task = <<r, "resolve_keys">>
Extracting(t, r) == t.pc \in OnExtracted \cup {"failRequest"} /\ t.task = <<r, "extract">>

\* A handler that is going to move r on, given how far it has come.
Carries(t, r) ==
    IF Exists(<<r, "extract">>) THEN Extracting(t, r)
    ELSE IF Exists(<<r, "resolve_keys">>) THEN Resolving(t, r)
    ELSE WillList(t, request[r].doc) \/ Listed(t, r) \/ Decided(t, r)

\* A task r waits for was completed without its text.
Barren(r) == \E id \in Wakers(r) : Fruitless(id)

\* A task or a handler will move r on, unless its text never came.
Cared(r) == Tasked(r) \/ Barren(r) \/ \E p \in Threads : Carries(thread[p], r)

\* No request is left alone.
Awake == \A r \in Requests : request[r].status \in InFlight => Cared(r)

\* The text a singleton task is there for, and where its callback registers it.
TextFor(m) == IF m = "convert" THEN "convert_md" ELSE "anonymize_doc"
RegistersAt(m) == IF m = "convert" THEN "registerConvert" ELSE "registerAnonymize"

\* A completed task has its text, or a handler about to register it, or was
\* answered without one.
RowsTexted ==
    \A d \in Docs : \A m \in Singletons :
        /\ task[<<d, m>>].payload \in Useless \cup {"raw", "final"}
        /\ task[<<d, m>>].payload = "final" => TextFor(m) \in artifact[d]
        /\ task[<<d, m>>].status = "completed" /\ TextFor(m) \notin artifact[d] =>
              \/ task[<<d, m>>].payload \in Useless
              \/ \E p \in Threads : thread[p].pc = RegistersAt(m) /\ thread[p].doc = d

\* What a handler has done on its way, when nothing fails.
Handling(t) ==
    /\ t.pc \in {"registerConvert", "convertPayload"} => t.task = <<t.doc, "convert">>
    /\ t.pc \in {"registerAnonymize", "registerEntities", "anonymizePayload"} =>
          t.task = <<t.doc, "anonymize">>
    /\ t.pc = "convertPayload" => "convert_md" \in artifact[t.doc]
    /\ t.pc \in {"registerEntities", "anonymizePayload"} => "anonymize_doc" \in artifact[t.doc]
    /\ t.pc \in Publishing => Waits(t.made)
    /\ t.pc \notin {"markTaskFailed", "markRequestFailed"}

Wakeful ==
    /\ Awake
    /\ RowsTexted
    /\ \A p \in Threads : Handling(thread[p])

\* The handler is on its way to fail r.
Tells(t, r) ==
    \/ t.pc = "listFail" /\ t.doc = request[r].doc
    \/ t.pc = "failLoop" /\ \E q \in t.todo : q.id = r
    \/ t.pc = "failRequest" /\ t.task[1] = r

\* A request in flight whose task has failed is about to be told, or is one of
\* those that no callback tells.
Told ==
    \A r \in Requests : request[r].status \in InFlight =>
        \A id \in Wakers(r) : task[id].status = "failed" =>
            <<r, id>> \in stranded \/ \E p \in Threads : Tells(thread[p], r)

\* The task a handler has still to publish has not failed: nobody knows of it.
Unfailed == \A p \in Threads : thread[p].pc \in Publishing => task[thread[p].made].status # "failed"

WInv == IInv /\ (faults = MaxFaults => Wakeful /\ Told /\ Unfailed)

-----------------------------------------------------------------------------
(* What a step may not take away *)

\* Rows stay, requests keep document and flag, texts stay.
Fixed ==
    /\ \A id \in TaskIds : Exists(id) => Exists(id)'
    /\ \A r \in Requests : request[r].doc \in Docs =>
          /\ request'[r].doc = request[r].doc
          /\ request'[r].anonymize = request[r].anonymize
    /\ \A d \in Docs : artifact[d] \subseteq artifact'[d]

\* No task is completed, and one that was completed without its text stays as it
\* is, unless somebody is going to list the requests of the document anyway.
Steady ==
    /\ \A id \in TaskIds : task'[id].status = "completed" => task[id].status = "completed"
    /\ \A d \in Docs : \A m \in Singletons :
          Fruitless(<<d, m>>) /\ task'[<<d, m>>].status = "completed" =>
              Fruitless(<<d, m>>)' \/ \E v \in Threads : WillList(thread[v], d)

\* A task that is inserted waits.
Fresh == \A id \in TaskIds : ~Exists(id) /\ Exists(id)' => Waits(id)'

\* The payload of a singleton task has its final form only with the text.
PayloadsTexted ==
    \A d \in Docs : \A m \in Singletons :
        \/ task'[<<d, m>>].payload = task[<<d, m>>].payload
        \/ task'[<<d, m>>].payload \in Useless
        \/ task'[<<d, m>>].payload = "final" /\ TextFor(m) \in artifact'[d]

\* The statuses of a row.
LEMMA WaitsIff ==
    ASSUME TypeOK, NEW id \in TaskIds
    PROVE  Waits(id) <=> Exists(id) /\ task[id].status # "completed"
BY DEF TypeOK, Task, TaskStatuses, Active, Waits, Exists

\* A task that waited still waits, and a new one does.
LEMMA WaitsKept ==
    ASSUME TypeOK, TypeOK', Fixed, Steady, NEW id \in TaskIds
    PROVE  /\ Waits(id) => Waits(id)'
           /\ ~Exists(id) /\ Exists(id)' => Waits(id)'
<1>1. Waits(id)' <=> Exists(id)' /\ task'[id].status # "completed"
  BY DEF TypeOK, Task, TaskStatuses, Active, Waits, Exists
<1>2. task'[id].status = "completed" => task[id].status = "completed"
  BY DEF Steady
<1>3. Exists(id) => Exists(id)'
  BY DEF Fixed
<1> QED
  BY <1>1, <1>2, <1>3, WaitsIff DEF Exists

\* What wakes a request at each stage.
LEMMA TaskedAt ==
    ASSUME NEW r \in Requests
    PROVE  /\ Exists(<<r, "extract">>) => (Tasked(r) <=> Waits(<<r, "extract">>))
           /\ ~Exists(<<r, "extract">>) /\ Exists(<<r, "resolve_keys">>) =>
                 (Tasked(r) <=> Waits(<<r, "resolve_keys">>))
           /\ ~Exists(<<r, "extract">>) /\ ~Exists(<<r, "resolve_keys">>) =>
                 (Tasked(r) <=> \/ Waits(<<request[r].doc, "convert">>)
                                \/ request[r].anonymize /\ Waits(<<request[r].doc, "anonymize">>))
<1>1. CASE Exists(<<r, "extract">>)
  BY <1>1 DEF Tasked, Wakers, Prerequisites
<1>2. CASE ~Exists(<<r, "extract">>) /\ Exists(<<r, "resolve_keys">>)
  BY <1>2 DEF Tasked, Wakers, Prerequisites
<1>3. CASE ~Exists(<<r, "extract">>) /\ ~Exists(<<r, "resolve_keys">>) /\ request[r].anonymize
  BY <1>3 DEF Tasked, Wakers, Prerequisites
<1>4. CASE ~Exists(<<r, "extract">>) /\ ~Exists(<<r, "resolve_keys">>) /\ ~request[r].anonymize
  BY <1>4 DEF Tasked, Wakers, Prerequisites
<1> QED
  BY <1>1, <1>2, <1>3, <1>4

\* The same after the step.
LEMMA TaskedAtNext ==
    ASSUME NEW r \in Requests
    PROVE  /\ Exists(<<r, "extract">>)' => (Tasked(r)' <=> Waits(<<r, "extract">>)')
           /\ ~Exists(<<r, "extract">>)' /\ Exists(<<r, "resolve_keys">>)' =>
                 (Tasked(r)' <=> Waits(<<r, "resolve_keys">>)')
           /\ ~Exists(<<r, "extract">>)' /\ ~Exists(<<r, "resolve_keys">>)' =>
                 (Tasked(r)' <=> \/ Waits(<<request[r].doc, "convert">>)'
                                 \/ request'[r].anonymize /\ Waits(<<request[r].doc, "anonymize">>)')
<1>1. CASE Exists(<<r, "extract">>)'
  BY <1>1 DEF Tasked, Wakers, Prerequisites
<1>2. CASE ~Exists(<<r, "extract">>)' /\ Exists(<<r, "resolve_keys">>)'
  BY <1>2 DEF Tasked, Wakers, Prerequisites
<1>3. CASE ~Exists(<<r, "extract">>)' /\ ~Exists(<<r, "resolve_keys">>)' /\ request'[r].anonymize
  BY <1>3 DEF Tasked, Wakers, Prerequisites
<1>4. CASE ~Exists(<<r, "extract">>)' /\ ~Exists(<<r, "resolve_keys">>)' /\ ~request'[r].anonymize
  BY <1>4 DEF Tasked, Wakers, Prerequisites
<1> QED
  BY <1>1, <1>2, <1>3, <1>4

\* A request that waits for a task goes on waiting for one; a request that gets
\* a task of its own waits for it.
LEMMA TaskedKept ==
    ASSUME TypeOK, TypeOK', Fixed, Steady, NEW r \in Requests, request[r].doc \in Docs
    PROVE  /\ Tasked(r) => Tasked(r)'
           /\ ~Exists(<<r, "extract">>) /\ Exists(<<r, "extract">>)' => Tasked(r)'
           /\ ~Exists(<<r, "extract">>)' /\ ~Exists(<<r, "resolve_keys">>) /\ Exists(<<r, "resolve_keys">>)'
                 => Tasked(r)'
<1>0. /\ <<r, "extract">> \in TaskIds /\ <<r, "resolve_keys">> \in TaskIds
      /\ <<request[r].doc, "convert">> \in TaskIds /\ <<request[r].doc, "anonymize">> \in TaskIds
  BY RequestTaskIds, DocTaskIds
<1>1. PICK e, k, c, a : /\ e = <<r, "extract">> /\ k = <<r, "resolve_keys">>
                        /\ c = <<request[r].doc, "convert">> /\ a = <<request[r].doc, "anonymize">>
  OBVIOUS
<1>2. /\ e \in TaskIds /\ k \in TaskIds /\ c \in TaskIds /\ a \in TaskIds
  BY <1>0, <1>1
<1>3. /\ Waits(e) => Waits(e)'
      /\ Waits(k) => Waits(k)'
      /\ Waits(c) => Waits(c)'
      /\ Waits(a) => Waits(a)'
      /\ ~Exists(e) /\ Exists(e)' => Waits(e)'
      /\ ~Exists(k) /\ Exists(k)' => Waits(k)'
      /\ Exists(e) => Exists(e)'
      /\ Exists(k) => Exists(k)'
  BY <1>2, WaitsKept DEF Fixed
<1>4. /\ Exists(e) => (Tasked(r) <=> Waits(e))
      /\ ~Exists(e) /\ Exists(k) => (Tasked(r) <=> Waits(k))
      /\ ~Exists(e) /\ ~Exists(k) => (Tasked(r) <=> Waits(c) \/ (request[r].anonymize /\ Waits(a)))
  BY <1>1, TaskedAt
<1>5. request'[r].doc = request[r].doc /\ request'[r].anonymize = request[r].anonymize
  BY DEF Fixed
<1>6. /\ Exists(e)' => (Tasked(r)' <=> Waits(e)')
      /\ ~Exists(e)' /\ Exists(k)' => (Tasked(r)' <=> Waits(k)')
      /\ ~Exists(e)' /\ ~Exists(k)' => (Tasked(r)' <=> Waits(c)' \/ (request[r].anonymize /\ Waits(a)'))
  BY <1>1, <1>5, TaskedAtNext DEF Waits
<1>7. /\ Tasked(r) => Tasked(r)'
      /\ ~Exists(e) /\ Exists(e)' => Tasked(r)'
      /\ ~Exists(e)' /\ ~Exists(k) /\ Exists(k)' => Tasked(r)'
  BY <1>3, <1>4, <1>6
<1> QED
  BY <1>1, <1>7


\* A task that appears for a request is one it waits for.
LEMMA FreshTasked ==
    ASSUME Fixed, Fresh, NEW r \in Requests, request[r].doc \in Docs
    PROVE  /\ ~Exists(<<r, "extract">>) /\ Exists(<<r, "extract">>)' => Tasked(r)'
           /\ /\ ~Exists(<<r, "extract">>)'
              /\ ~Exists(<<r, "resolve_keys">>) /\ Exists(<<r, "resolve_keys">>)'
              => Tasked(r)'
           /\ /\ ~Exists(<<r, "extract">>)' /\ ~Exists(<<r, "resolve_keys">>)'
              /\ \/ ~Exists(<<request[r].doc, "convert">>) /\ Exists(<<request[r].doc, "convert">>)'
                 \/ /\ request[r].anonymize
                    /\ ~Exists(<<request[r].doc, "anonymize">>) /\ Exists(<<request[r].doc, "anonymize">>)'
              => Tasked(r)'
<1>1. request'[r].doc = request[r].doc /\ request'[r].anonymize = request[r].anonymize
  BY DEF Fixed
<1>2. PICK d \in Docs : d = request[r].doc
  OBVIOUS
<1>3. /\ <<r, "extract">> \in TaskIds /\ <<r, "resolve_keys">> \in TaskIds
      /\ <<d, "convert">> \in TaskIds /\ <<d, "anonymize">> \in TaskIds
  BY RequestTaskIds, DocTaskIds
<1>4. PICK e, k, c, a : /\ e = <<r, "extract">> /\ k = <<r, "resolve_keys">>
                        /\ c = <<d, "convert">> /\ a = <<d, "anonymize">>
  OBVIOUS
<1>5. /\ ~Exists(e) /\ Exists(e)' => Waits(e)'
      /\ ~Exists(k) /\ Exists(k)' => Waits(k)'
      /\ ~Exists(c) /\ Exists(c)' => Waits(c)'
      /\ ~Exists(a) /\ Exists(a)' => Waits(a)'
  BY <1>3, <1>4 DEF Fresh
<1>6. /\ Exists(e)' => (Tasked(r)' <=> Waits(e)')
      /\ ~Exists(e)' /\ Exists(k)' => (Tasked(r)' <=> Waits(k)')
      /\ ~Exists(e)' /\ ~Exists(k)' => (Tasked(r)' <=> Waits(c)' \/ (request[r].anonymize /\ Waits(a)'))
  BY <1>1, <1>2, <1>4, TaskedAtNext DEF Waits
<1>7. /\ ~Exists(e) /\ Exists(e)' => Tasked(r)'
      /\ ~Exists(e)' /\ ~Exists(k) /\ Exists(k)' => Tasked(r)'
      /\ /\ ~Exists(e)' /\ ~Exists(k)'
         /\ \/ ~Exists(c) /\ Exists(c)'
            \/ request[r].anonymize /\ ~Exists(a) /\ Exists(a)'
         => Tasked(r)'
  BY <1>5, <1>6
<1> QED
  BY <1>1, <1>2, <1>4, <1>7

\* A request whose text never came is still one, or gets a task to wait for,
\* unless a handler was going to look at it.
LEMMA BarrenKept ==
    ASSUME TypeOK, TypeOK', Fixed, Steady, NEW r \in Requests, request[r].doc \in Docs, Barren(r)
    PROVE  Tasked(r)' \/ Barren(r)' \/ \E v \in Threads : Carries(thread[v], r)
<1>1. PICK d \in Docs : d = request[r].doc /\ d = request'[r].doc
  BY DEF Fixed
<1>2. request'[r].anonymize = request[r].anonymize
  BY DEF Fixed
<1>3. PICK id \in Wakers(r) : Fruitless(id)
  BY DEF Barren
<1>4. /\ ~Exists(<<r, "extract">>) /\ ~Exists(<<r, "resolve_keys">>)
      /\ id \in Prerequisites(d, request[r].anonymize)
  BY <1>1, <1>3 DEF Wakers, Fruitless, Singletons
<1>5. PICK m \in Singletons : id = <<d, m>> /\ id \in TaskIds
  BY <1>4, DocTaskIds DEF Prerequisites, Singletons
<1>6. CASE Exists(<<r, "extract">>)' \/ Exists(<<r, "resolve_keys">>)'
  BY <1>4, <1>6, TaskedKept
<1>7. CASE ~Exists(<<r, "extract">>)' /\ ~Exists(<<r, "resolve_keys">>)'
  <2>1. Wakers(r)' = Prerequisites(d, request[r].anonymize)
    BY <1>1, <1>2, <1>7 DEF Wakers, Prerequisites
  <2>2. CASE task'[id].status # "completed"
    <3>1. Exists(id)'
      BY <1>3, <1>5 DEF Fixed, Fruitless, Exists
    <3>2. Waits(id)'
      BY <1>5, <2>2, <3>1 DEF TypeOK, Task, TaskStatuses, Active, Waits, Exists
    <3> QED
      BY <1>4, <2>1, <3>2 DEF Tasked
  <2>3. CASE Fruitless(id)'
    BY <1>4, <2>1, <2>3 DEF Barren
  <2>4. ASSUME NEW v \in Threads, WillList(thread[v], d) PROVE Carries(thread[v], r)
    BY <1>1, <1>4, <2>4 DEF Carries
  <2> QED
    BY <1>3, <1>5, <2>2, <2>3, <2>4 DEF Steady
<1> QED
  BY <1>6, <1>7

\* A handler that was to move a request on still is, or the request got a task.
LEMMA CarriesKept ==
    ASSUME Fixed, Fresh, NEW t \in Thread, ThreadOK(t), NEW r \in Requests, request[r].doc \in Docs,
           Carries(t, r)
    PROVE  Carries(t, r)' \/ Tasked(r)'
<1>0. request'[r].doc = request[r].doc /\ request'[r].anonymize = request[r].anonymize
  BY DEF Fixed
<1>1. /\ Exists(<<r, "extract">>) => Exists(<<r, "extract">>)'
      /\ Exists(<<r, "resolve_keys">>) => Exists(<<r, "resolve_keys">>)'
  BY RequestTaskIds DEF Fixed
<1>2. CASE Exists(<<r, "extract">>)
  BY <1>1, <1>2 DEF Carries, Extracting
<1>3. CASE ~Exists(<<r, "extract">>) /\ Exists(<<r, "extract">>)'
  BY <1>3, FreshTasked
<1>4. CASE ~Exists(<<r, "extract">>)' /\ ~Exists(<<r, "extract">>) /\ Exists(<<r, "resolve_keys">>)
  BY <1>1, <1>4 DEF Carries, Resolving
<1>5. CASE ~Exists(<<r, "extract">>)' /\ ~Exists(<<r, "resolve_keys">>) /\ Exists(<<r, "resolve_keys">>)'
  BY <1>5, FreshTasked
<1>6. CASE /\ ~Exists(<<r, "extract">>)' /\ ~Exists(<<r, "extract">>)
           /\ ~Exists(<<r, "resolve_keys">>)' /\ ~Exists(<<r, "resolve_keys">>)
  <2>1. WillList(t, request[r].doc) \/ Listed(t, r) \/ Decided(t, r)
    BY <1>6 DEF Carries
  <2>2. ASSUME WillList(t, request[r].doc)' \/ Listed(t, r)' \/ Decided(t, r)' PROVE Carries(t, r)'
    BY <1>6, <2>2 DEF Carries
  <2>3. CASE WillList(t, request[r].doc) \/ Listed(t, r)
    BY <1>0, <2>2, <2>3 DEF WillList, Listed
  <2>4. CASE Decided(t, r)
    <3>1. t.doc = request[r].doc
      BY <2>4 DEF Decided, ThreadOK, Remembers
    <3>2. CASE Decided(t, r)'
      BY <2>2, <3>2
    <3>3. CASE ~Decided(t, r)'
      <4>1. \/ ~Exists(<<request[r].doc, "convert">>) /\ Exists(<<t.doc, "convert">>)'
            \/ /\ request[r].anonymize
               /\ ~Exists(<<request[r].doc, "anonymize">>) /\ Exists(<<t.doc, "anonymize">>)'
        BY <1>0, <2>4, <3>1, <3>3 DEF Decided
      <4>2. PICK d : d = t.doc /\ d = request[r].doc /\ d = request'[r].doc
        BY <1>0, <3>1
      <4>3. \/ ~Exists(<<request[r].doc, "convert">>) /\ Exists(<<request[r].doc, "convert">>)'
            \/ /\ request[r].anonymize
               /\ ~Exists(<<request[r].doc, "anonymize">>) /\ Exists(<<request[r].doc, "anonymize">>)'
        BY <4>1, <4>2 DEF Exists
      <4> QED
        BY <1>6, <4>3, FreshTasked
    <3> QED
      BY <3>2, <3>3
  <2> QED
    BY <2>1, <2>3, <2>4
<1> QED
  BY <1>1, <1>2, <1>3, <1>4, <1>5, <1>6


\* What a handler has done stays done, and the task it has still to publish is
\* still there.
LEMMA HandlingKept ==
    ASSUME Fixed, NEW t \in Thread, ThreadOK(t), Handling(t),
           t.pc \in Publishing => Waits(t.made)'
    PROVE  Handling(t)'
<1>1. t.pc \in {"convertPayload", "registerEntities", "anonymizePayload"} => t.doc \in Docs
  BY DEF ThreadOK, Placed
<1>2. t.doc \in Docs => artifact[t.doc] \subseteq artifact'[t.doc]
  BY DEF Fixed
<1> QED
  BY <1>1, <1>2 DEF Handling

-----------------------------------------------------------------------------
(* What a step of one handler leaves of Wakeful *)

\* The texts of the completed tasks: the step registers the text its handler is
\* there for, and a task it completes has its text, or the handler registers it.
Texts(p, t) ==
    /\ \A d \in Docs : \A m \in Singletons :
          \/ task'[<<d, m>>].payload = task[<<d, m>>].payload
          \/ task'[<<d, m>>].payload \in Useless \cup {"raw"}
          \/ task'[<<d, m>>].payload = "final" /\ TextFor(m) \in artifact'[d]
    /\ \A m \in Singletons : thread[p].pc = RegistersAt(m) => TextFor(m) \in artifact'[thread[p].doc]
    /\ \A d \in Docs : \A m \in Singletons :
          task'[<<d, m>>].status = "completed" =>
              \/ task[<<d, m>>].status = "completed" /\ task'[<<d, m>>].payload = task[<<d, m>>].payload
              \/ task'[<<d, m>>].payload \in Useless
              \/ TextFor(m) \in artifact'[d]
              \/ t.pc = RegistersAt(m) /\ t.doc = d

\* The completed tasks after the step.
LEMMA TextsStep ==
    ASSUME RowsTexted, NEW p \in Threads, NEW t \in Thread, thread \in [Threads -> Thread],
           thread' = [thread EXCEPT ![p] = t], Fixed, Texts(p, t)
    PROVE  RowsTexted'
<1> SUFFICES ASSUME NEW d \in Docs, NEW m \in Singletons
             PROVE  /\ task'[<<d, m>>].payload \in Useless \cup {"raw", "final"}
                    /\ task'[<<d, m>>].payload = "final" => TextFor(m) \in artifact'[d]
                    /\ task'[<<d, m>>].status = "completed" /\ TextFor(m) \notin artifact'[d] =>
                          \/ task'[<<d, m>>].payload \in Useless
                          \/ \E q \in Threads : thread'[q].pc = RegistersAt(m) /\ thread'[q].doc = d
  BY DEF RowsTexted, TextFor, RegistersAt, Useless
<1>1. /\ task[<<d, m>>].payload \in Useless \cup {"raw", "final"}
      /\ task[<<d, m>>].payload = "final" => TextFor(m) \in artifact[d]
      /\ task[<<d, m>>].status = "completed" /\ TextFor(m) \notin artifact[d] =>
            \/ task[<<d, m>>].payload \in Useless
            \/ \E q \in Threads : thread[q].pc = RegistersAt(m) /\ thread[q].doc = d
  BY DEF RowsTexted
<1>2. artifact[d] \subseteq artifact'[d]
  BY DEF Fixed
<1>3. /\ task'[<<d, m>>].payload \in Useless \cup {"raw", "final"}
      /\ task'[<<d, m>>].payload = "final" => TextFor(m) \in artifact'[d]
  BY <1>1, <1>2 DEF Texts, Useless
<1>4. ASSUME task'[<<d, m>>].status = "completed", TextFor(m) \notin artifact'[d],
             task'[<<d, m>>].payload \notin Useless
      PROVE  \E q \in Threads : thread'[q].pc = RegistersAt(m) /\ thread'[q].doc = d
  <2>1. CASE t.pc = RegistersAt(m) /\ t.doc = d
    BY <2>1
  <2>2. CASE task[<<d, m>>].status = "completed" /\ task'[<<d, m>>].payload = task[<<d, m>>].payload
    <3>1. PICK q \in Threads : thread[q].pc = RegistersAt(m) /\ thread[q].doc = d
      BY <1>1, <1>2, <1>4, <2>2
    <3>2. q # p
      BY <1>4, <3>1 DEF Texts
    <3> QED
      BY <3>1, <3>2
  <2> QED
    BY <1>4, <2>1, <2>2 DEF Texts
<1> QED
  BY <1>3, <1>4

\* Wakeful after a step of handler p that leaves t of its local state.
LEMMA WakeStep ==
    ASSUME IInv, Wakeful, NEW p \in Threads, NEW t \in Thread,
           thread' = [thread EXCEPT ![p] = t],
           Fixed, Fresh, Texts(p, t), Handling(t)',
           \A q \in Threads : q # p /\ thread[q].pc \in Publishing =>
               \A id \in TaskIds : id = thread[q].made => Waits(id)',
           \A r \in Requests : request'[r].status \in InFlight =>
               /\ request[r].status \notin InFlight => Cared(r)'
               /\ request[r].status \in InFlight /\ (Tasked(r) \/ Barren(r)) =>
                     Cared(r)' \/ \E v \in Threads : Carries(thread[v], r),
           \A u \in Thread : u = thread[p] =>
               \A r \in Requests :
                   request'[r].status \in InFlight /\ request[r].status \in InFlight /\ Carries(u, r)'
                   => Cared(r)'
    PROVE  Wakeful'
<1>0. /\ thread \in [Threads -> Thread]
      /\ thread'[p] = t
      /\ \A q \in Threads : q # p => thread'[q] = thread[q]
      /\ \A q \in Threads : thread[q] \in Thread /\ ThreadOK(thread[q]) /\ Handling(thread[q])
  BY DEF IInv, TypeOK, ThreadsOK, Wakeful
<1>1. Awake'
  <2> SUFFICES ASSUME NEW r \in Requests, request'[r].status \in InFlight, request[r].status \in InFlight
               PROVE  Cared(r)'
    BY DEF Awake
  <2>1. request[r].doc \in Docs
    BY DEF IInv, TablesOK, RequestRows, InFlight
  <2>2. CASE ~\E q \in Threads : Carries(thread[q], r)
    BY <2>2 DEF Wakeful, Awake, Cared
  <2>3. CASE \E q \in Threads : Carries(thread[q], r)
    <3>1. PICK q \in Threads : Carries(thread[q], r)
      BY <2>3
    <3>2. PICK u \in Thread : u = thread[q] /\ ThreadOK(u) /\ Carries(u, r)
      BY <1>0, <3>1
    <3>3. Carries(u, r)' \/ Tasked(r)'
      BY <2>1, <3>2, CarriesKept
    <3>4. CASE q = p
      BY <3>2, <3>3, <3>4 DEF Cared
    <3>5. CASE q # p
      <4>1. thread'[q] = u
        BY <1>0, <3>2, <3>5
      <4>2. Carries(u, r)' => Carries(thread[q], r)'
        BY <4>1
      <4> QED
        BY <3>3, <4>2 DEF Cared
    <3> QED
      BY <3>4, <3>5
  <2> QED
    BY <2>2, <2>3
<1>2. RowsTexted'
  BY <1>0, TextsStep DEF Wakeful
<1>3. \A q \in Threads : Handling(thread[q])'
  <2> SUFFICES ASSUME NEW q \in Threads PROVE Handling(thread[q])'
    OBVIOUS
  <2>1. CASE q = p
    <3>1. thread'[q] = t
      BY <1>0, <2>1
    <3> QED
      BY <3>1
  <2>2. CASE q # p
    <3>1. PICK u \in Thread : u = thread[q] /\ ThreadOK(u) /\ Handling(u) /\ thread'[q] = u
      BY <1>0, <2>2
    <3>2. u.pc \in Publishing => u.made \in TaskIds
      BY <3>1 DEF ThreadOK, Called, Publishing, OnMade
    <3>3. u.pc \in Publishing => Waits(u.made)'
      BY <2>2, <3>1, <3>2
    <3>4. Handling(u)'
      BY <3>1, <3>3, HandlingKept
    <3> QED
      BY <3>1, <3>4
  <2> QED
    BY <2>1, <2>2
<1> QED
  BY <1>1, <1>2, <1>3 DEF Wakeful


\* The step hands on what the handler was to do: it registers the text it is
\* there for, and every request it carried, or brings in flight, is cared for.
HandsOn(p, t) ==
    /\ thread' = [thread EXCEPT ![p] = t]
    /\ Handling(t)'
    /\ \A m \in Singletons : thread[p].pc = RegistersAt(m) => TextFor(m) \in artifact'[thread[p].doc]
    /\ \A r \in Requests :
          request'[r].status \in InFlight /\ request[r].status \notin InFlight => Cared(r)'
    /\ \A u \in Thread : u = thread[p] =>
          \A r \in Requests :
              request'[r].status \in InFlight /\ request[r].status \in InFlight /\ Carries(u, r)'
              => Cared(r)'

\* Wakeful after a step that completes no task.
LEMMA SteadyStep ==
    ASSUME IInv, Wakeful, TypeOK', NEW p \in Threads, NEW t \in Thread,
           Fixed, Steady, PayloadsTexted, HandsOn(p, t)
    PROVE  Wakeful'
<1>1. TypeOK
  BY DEF IInv
<1>2. Fresh
  BY <1>1, WaitsKept DEF Fresh
<1>3. Texts(p, t)
  <2>1. \A d \in Docs : \A m \in Singletons : <<d, m>> \in TaskIds
    BY DEF TaskIds
  <2> QED
    BY <2>1 DEF Texts, Steady, PayloadsTexted, HandsOn
<1>4. \A q \in Threads : q # p /\ thread[q].pc \in Publishing =>
          \A id \in TaskIds : id = thread[q].made => Waits(id)'
  <2>1. \A q \in Threads : thread[q].pc \in Publishing => Waits(thread[q].made)
    BY DEF Wakeful, Handling
  <2>2. \A id \in TaskIds : Waits(id) => Waits(id)'
    BY <1>1, WaitsKept
  <2> QED
    BY <2>1, <2>2
<1>5. \A r \in Requests : request[r].status \in InFlight /\ (Tasked(r) \/ Barren(r)) =>
          Cared(r)' \/ \E v \in Threads : Carries(thread[v], r)
  <2>1. \A r \in Requests : request[r].status \in InFlight => request[r].doc \in Docs
    BY DEF IInv, TablesOK, RequestRows, InFlight
  <2>2. \A r \in Requests : request[r].doc \in Docs /\ Tasked(r) => Tasked(r)'
    BY <1>1, TaskedKept
  <2>3. \A r \in Requests : request[r].doc \in Docs /\ Barren(r) =>
            Tasked(r)' \/ Barren(r)' \/ \E v \in Threads : Carries(thread[v], r)
    BY <1>1, BarrenKept
  <2> QED
    BY <2>1, <2>2, <2>3 DEF Cared
<1> QED
  BY <1>2, <1>3, <1>4, <1>5, WakeStep DEF HandsOn

\* A step that writes no task.
LEMMA NoTaskWrite ==
    ASSUME UNCHANGED <<task, artifact>>,
           \A r \in Requests : request[r].doc \in Docs =>
               request'[r].doc = request[r].doc /\ request'[r].anonymize = request[r].anonymize
    PROVE  Fixed /\ Steady /\ PayloadsTexted
<1>1. \A d \in Docs : \A m \in Singletons : Fruitless(<<d, m>>) => Fruitless(<<d, m>>)'
  BY DEF Fruitless, TextOf
<1> QED
  BY <1>1 DEF Fixed, Steady, PayloadsTexted, Exists

\* A step that inserts a task.
LEMMA TaskInserted ==
    ASSUME TypeOK, NEW id \in TaskIds, ~Exists(id), NEW in \in Kinds \cup {"original"}, InsertTask(id, in),
           UNCHANGED <<request, artifact>>
    PROVE  Fixed /\ Steady /\ PayloadsTexted /\ Exists(id)' /\ Waits(id)'
<1>1. /\ task'[id] = [status |-> "pending", payload |-> "empty", input |-> in, retry_count |-> 0]
      /\ \A x \in TaskIds : x # id => task'[x] = task[x]
  BY InsertTaskRow DEF TypeOK
<1>2. task'[id].status = "pending" /\ task'[id].payload = "empty"
  BY <1>1
<1>3. \A d \in Docs : \A m \in Singletons : <<d, m>> \in TaskIds
  BY DEF TaskIds
<1>4. PayloadsTexted
  BY <1>1, <1>2, <1>3 DEF PayloadsTexted, Useless
<1>5. \A d \in Docs : \A m \in Singletons : Fruitless(<<d, m>>) => Fruitless(<<d, m>>)'
  BY <1>1, <1>3 DEF Fruitless, TextOf, Exists
<1> QED
  BY <1>1, <1>2, <1>4, <1>5 DEF Fixed, Steady, Exists, Waits

\* No task of its own has been made for the request.
Unbegun(r) == ~Exists(<<r, "extract">>) /\ ~Exists(<<r, "resolve_keys">>)

\* How a handler carries a request, by its position.
LEMMA CarriesAt ==
    ASSUME NEW u \in Thread, NEW r \in Requests, Carries(u, r)'
    PROVE  /\ u.pc # "idle"
           /\ u.pc \in Listing => Unbegun(r)' /\ WillList(u, request[r].doc)'
           /\ u.pc \in OnList =>
                 Unbegun(r)' /\ (WillList(u, request[r].doc)' \/ Listed(u, r) \/ Decided(u, r)')
           /\ u.pc \in OnResolved => ~Exists(<<r, "extract">>)' /\ u.task = <<r, "resolve_keys">>
           /\ u.pc \in OnExtracted => u.task = <<r, "extract">>
           /\ u.pc = "failRequest" => u.task \in {<<r, "resolve_keys">>, <<r, "extract">>}
BY DEF Carries, Unbegun, Listing, OnList, OnRegistered, OnRequest, OnResolved, OnExtracted,
       WillList, Listed, Decided, Resolving, Extracting

\* A request without tasks is carried by whoever is to list it or has listed it.
LEMMA CarriesUnbegun ==
    ASSUME NEW t \in Thread, NEW r \in Requests, Unbegun(r)',
           WillList(t, request[r].doc)' \/ Listed(t, r) \/ Decided(t, r)'
    PROVE  Carries(t, r)'
BY DEF Carries, Unbegun, Listed

\* What the handler carries after the step is cared for.
LEMMA CaredBy ==
    ASSUME NEW p \in Threads, NEW t \in Thread, thread \in [Threads -> Thread],
           thread' = [thread EXCEPT ![p] = t],
           NEW r \in Requests, Carries(t, r)' \/ Tasked(r)'
    PROVE  Cared(r)'
<1>1. thread'[p] = t
  OBVIOUS
<1>2. Carries(t, r)' => Carries(thread[p], r)'
  BY <1>1
<1> QED
  BY <1>2 DEF Cared


-----------------------------------------------------------------------------
(* The actions *)

\* A handler that has still to list the requests of its document has still to.
LEMMA WakeListing ==
    ASSUME IInv, Wakeful, TypeOK', NEW p \in Threads, NEW t \in Thread,
           thread' = [thread EXCEPT ![p] = t],
           thread[p].pc \in Listing, WillList(t, thread[p].doc),
           Fixed, Steady, PayloadsTexted, request' = request, Handling(t)',
           \A m \in Singletons : thread[p].pc = RegistersAt(m) => TextFor(m) \in artifact'[thread[p].doc]
    PROVE  Wakeful'
<1>1. thread \in [Threads -> Thread]
  BY DEF IInv, TypeOK
<1>2. ASSUME NEW u \in Thread, u = thread[p], NEW r \in Requests, Carries(u, r)' PROVE Cared(r)'
  <2>1. Unbegun(r)' /\ WillList(u, request[r].doc)'
    BY <1>2, CarriesAt
  <2>2. WillList(t, request[r].doc)'
    BY <1>2, <2>1 DEF WillList
  <2> QED
    BY <1>1, <2>1, <2>2, CarriesUnbegun, CaredBy
<1>3. HandsOn(p, t)
  BY <1>2 DEF HandsOn
<1> QED
  BY <1>3, SteadyStep

\* The steps that register a text.
LEMMA WakeRegister ==
    ASSUME IInv, Wakeful, TypeOK', NEW p \in Threads,
           RegisterConvert(p) \/ RegisterAnonymize(p) \/ RegisterEntities(p)
    PROVE  Wakeful'
<1>1. PICK x \in {"convertPayload", "registerEntities", "anonymizePayload"}, k \in Kinds :
         /\ \/ thread[p].pc = "registerConvert" /\ x = "convertPayload" /\ k = "convert_md"
            \/ thread[p].pc = "registerAnonymize" /\ x = "registerEntities" /\ k = "anonymize_doc"
            \/ thread[p].pc = "registerEntities" /\ x = "anonymizePayload"
         /\ artifact' = [artifact EXCEPT ![thread[p].doc] = @ \cup {k}]
         /\ Goto(p, x)
         /\ UNCHANGED <<task, request>>
  BY DEF RegisterConvert, RegisterAnonymize, RegisterEntities, Kinds
<1>2. /\ thread[p].pc \notin {"idle", "publish"} /\ x \in Pcs \ {"idle"} /\ x \notin Publishing
      /\ thread[p].pc \in Listing /\ x \in Listing
  BY <1>1 DEF Pcs, Publishing, Listing, OnRegistered
<1>3. thread[p].doc \in Docs
  BY <1>2, HasDoc
<1>4. PICK t \in Thread : t.pc = x /\ SameLocals(t, thread[p]) /\ GoesOn(p, t)
  BY <1>1, <1>2, <1>3, GotoOK
<1>5. /\ \A d \in Docs : artifact[d] \subseteq artifact'[d]
      /\ k \in artifact'[thread[p].doc]
  BY <1>1, <1>3 DEF IInv, TypeOK
<1>6. Fixed /\ Steady /\ PayloadsTexted
  <2>1. WillList(thread[p], thread[p].doc)
    BY <1>2 DEF WillList
  <2>2. \A d \in Docs : d # thread[p].doc => artifact'[d] = artifact[d]
    BY <1>1 DEF IInv, TypeOK
  <2>3. \A d \in Docs : \A m \in Singletons :
            d # thread[p].doc /\ Fruitless(<<d, m>>) => Fruitless(<<d, m>>)'
    BY <1>1, <2>2 DEF Fruitless, TextOf
  <2> QED
    BY <1>1, <1>5, <2>1, <2>3 DEF Fixed, Steady, PayloadsTexted, Exists
<1>7. Handling(t)'
  <2>1. Handling(thread[p])
    BY DEF Wakeful
  <2> QED
    BY <1>1, <1>3, <1>4, <1>5, <2>1 DEF Handling, SameLocals, Publishing
<1>8. \A m \in Singletons : thread[p].pc = RegistersAt(m) => TextFor(m) \in artifact'[thread[p].doc]
  BY <1>1, <1>5 DEF Singletons, RegistersAt, TextFor
<1>9. WillList(t, thread[p].doc)
  BY <1>2, <1>4 DEF WillList, SameLocals
<1> QED
  BY <1>1, <1>2, <1>4, <1>6, <1>7, <1>8, <1>9, WakeListing DEF GoesOn

\* The final payload is written when the text is there.
LEMMA WakePayload ==
    ASSUME IInv, Wakeful, TypeOK', NEW p \in Threads, ConvertPayload(p) \/ AnonymizePayload(p)
    PROVE  Wakeful'
<1>1. PICK x \in {"triggerAnonymize", "listProgress"}, m \in Singletons :
         /\ \/ thread[p].pc = "convertPayload" /\ m = "convert"
            \/ thread[p].pc = "anonymizePayload" /\ m = "anonymize"
         /\ UpdateTaskResultPayload(thread[p].task, "final")
         /\ Goto(p, x)
         /\ UNCHANGED <<request, artifact>>
  BY DEF ConvertPayload, AnonymizePayload, Singletons
<1>2. /\ thread[p].pc \notin {"idle", "publish"} /\ x \in Pcs \ {"idle"} /\ x \notin Publishing
      /\ thread[p].pc \in Listing /\ x \in Listing
  BY <1>1 DEF Pcs, Publishing, Listing, OnRegistered
<1>3. thread[p].doc \in Docs
  BY <1>2, HasDoc
<1>4. PICK t \in Thread : t.pc = x /\ SameLocals(t, thread[p]) /\ GoesOn(p, t)
  BY <1>1, <1>2, <1>3, GotoOK
<1>5. PICK id \in TaskIds : /\ id = thread[p].task /\ id = <<thread[p].doc, m>>
                            /\ TextFor(m) \in artifact[thread[p].doc]
  <2>1. Handling(thread[p]) /\ <<thread[p].doc, m>> \in TaskIds
    BY <1>3 DEF Wakeful, TaskIds
  <2> QED
    BY <1>1, <2>1 DEF Handling, TextFor
<1>6. /\ task'[id].status = task[id].status
      /\ task'[id].payload = "final"
      /\ \A y \in TaskIds : y # id => task'[y] = task[y]
  BY <1>1, <1>5, PayloadRow DEF IInv, TypeOK, Payloads
<1>7. Fixed /\ Steady
  <2>1. WillList(thread[p], thread[p].doc)
    BY <1>2 DEF WillList
  <2>2. ASSUME NEW d \in Docs, NEW n \in Singletons, d # thread[p].doc, Fruitless(<<d, n>>)
        PROVE  Fruitless(<<d, n>>)'
    <3>1. <<d, n>> \in TaskIds /\ <<d, n>> # id
      BY <1>5, <2>2 DEF TaskIds
    <3> QED
      BY <1>1, <1>6, <2>2, <3>1 DEF Fruitless, TextOf
  <2> QED
    BY <1>1, <1>6, <2>1, <2>2 DEF Fixed, Steady, Exists
<1>8. PayloadsTexted
  <2> SUFFICES ASSUME NEW d \in Docs, NEW n \in Singletons
               PROVE  \/ task'[<<d, n>>].payload = task[<<d, n>>].payload
                      \/ task'[<<d, n>>].payload = "final" /\ TextFor(n) \in artifact'[d]
    BY DEF PayloadsTexted, TextFor
  <2>1. <<d, n>> \in TaskIds
    BY DEF TaskIds
  <2>2. CASE <<d, n>> = id
    BY <1>1, <1>5, <1>6, <2>2
  <2>3. CASE <<d, n>> # id
    BY <1>6, <2>1, <2>3
  <2> QED
    BY <2>2, <2>3
<1>9. Handling(t)'
  BY <1>1, <1>4 DEF Handling, Publishing
<1>10. WillList(t, thread[p].doc)
  BY <1>2, <1>4 DEF WillList, SameLocals
<1>11. \A n \in Singletons : thread[p].pc # RegistersAt(n)
  BY <1>1 DEF RegistersAt
<1> QED
  BY <1>1, <1>2, <1>4, <1>7, <1>8, <1>9, <1>10, <1>11, WakeListing DEF GoesOn

\* anonymize is inserted, or found, on the way to the listing.
LEMMA WakeTrigger ==
    ASSUME IInv, Wakeful, TypeOK', NEW p \in Threads, TriggerAnonymize(p)
    PROVE  Wakeful'
<1>0. /\ thread \in [Threads -> Thread] /\ thread[p] \in Thread
      /\ thread[p].pc = "triggerAnonymize" /\ thread[p].doc \in Docs
      /\ thread[p].pc \in Listing
      /\ UNCHANGED <<request, artifact>>
  BY HasDoc DEF TriggerAnonymize, IInv, TypeOK, Listing, OnRegistered
<1>1. \A n \in Singletons : thread[p].pc # RegistersAt(n)
  BY <1>0 DEF RegistersAt
<1>2. CASE Exists(<<thread[p].doc, "anonymize">>)
  <2>1. PICK t \in Thread : t.pc = "listProgress" /\ SameLocals(t, thread[p]) /\ GoesOn(p, t)
    BY <1>0, <1>2, GotoOK DEF TriggerAnonymize, Pcs, Publishing
  <2>2. Fixed /\ Steady /\ PayloadsTexted
    BY <1>0, <1>2, NoTaskWrite DEF TriggerAnonymize
  <2>3. Handling(t)' /\ WillList(t, thread[p].doc)
    BY <2>1 DEF Handling, Publishing, WillList, SameLocals, Listing
  <2> QED
    BY <1>0, <1>1, <2>1, <2>2, <2>3, WakeListing DEF GoesOn
<1>3. CASE ~Exists(<<thread[p].doc, "anonymize">>)
  <2>1. PICK t \in Thread : t = [thread[p] EXCEPT !.pc = "publish",
                  !.made = <<thread[p].doc, "anonymize">>, !.after = "listProgress"]
    <3>1. [thread[p] EXCEPT !.pc = "publish", !.made = <<thread[p].doc, "anonymize">>,
                            !.after = "listProgress"] \in Thread
      BY <1>0, DocTaskIds DEF Thread, Pcs
    <3> QED
      BY <3>1
  <2>2. /\ thread' = [thread EXCEPT ![p] = t]
        /\ t.pc = "publish" /\ t.made = <<thread[p].doc, "anonymize">> /\ t.after = "listProgress"
        /\ t.doc = thread[p].doc
    BY <1>0, <1>3, <2>1 DEF TriggerAnonymize, Thread
  <2>3. PICK id \in TaskIds : id = <<thread[p].doc, "anonymize">> /\ ~Exists(id) /\ InsertTask(id, "convert_md")
    BY <1>0, <1>3, DocTaskIds DEF TriggerAnonymize
  <2>4. Fixed /\ Steady /\ PayloadsTexted /\ Waits(id)'
    BY <1>0, <2>3, TaskInserted DEF IInv, Kinds
  <2>5. Handling(t)' /\ WillList(t, thread[p].doc)
    BY <2>2, <2>3, <2>4 DEF Handling, Publishing, WillList
  <2> QED
    BY <1>0, <1>1, <2>2, <2>4, <2>5, WakeListing
<1> QED
  BY <1>2, <1>3


\* The requests of the document are in the list, whoever was to wait for it.
LEMMA WakeList ==
    ASSUME IInv, Wakeful, TypeOK', NEW p \in Threads, ListProgress(p) \/ ListFail(p)
    PROVE  Wakeful'
<1>0. /\ thread \in [Threads -> Thread] /\ thread[p] \in Thread
      /\ thread[p].pc \in {"listProgress", "listFail"} /\ thread[p].doc \in Docs
      /\ UNCHANGED <<task, request, artifact>>
  BY HasDoc DEF ListProgress, ListFail, IInv, TypeOK, tables
<1>1. Fixed /\ Steady /\ PayloadsTexted
  BY <1>0, NoTaskWrite
<1>2. PICK rows : rows = PendingRequests(thread[p].doc)
  OBVIOUS
<1>3. /\ rows \subseteq Snapshot
      /\ \A r \in Requests : request[r].doc = thread[p].doc /\ request[r].status \in InFlight =>
            \E q \in rows : q.id = r
  <2>1. ASSUME NEW r \in Requests, request[r].doc = thread[p].doc, request[r].status \in InFlight
        PROVE  \E q \in rows : q.id = r
    <3>1. [id |-> r, status |-> request[r].status] \in rows
      BY <1>2, <2>1 DEF PendingRequests
    <3>2. [id |-> r, status |-> request[r].status].id = r
      OBVIOUS
    <3> QED
      BY <3>1, <3>2
  <2> QED
    BY <1>0, <1>2, <2>1, PendingRequestsType DEF IInv
<1>4. PICK t \in Thread : /\ thread' = [thread EXCEPT ![p] = t]
                          /\ t.pc \in {"idle", "loop", "failLoop"}
                          /\ rows # {} => t.pc # "idle" /\ t.todo = rows
  <2>1. CASE rows = {}
    BY <1>2, <2>1, IdleOK DEF ListProgress, ListFail
  <2>2. CASE rows # {} /\ ListProgress(p)
    <3>1. PICK x : x = [thread[p] EXCEPT !.pc = "loop", !.todo = rows, !.made = None, !.after = "loop"]
      OBVIOUS
    <3>2. x \in Thread /\ x.pc = "loop" /\ x.todo = rows
      BY <1>0, <1>3, <3>1 DEF Thread, Pcs
    <3>3. thread' = [thread EXCEPT ![p] = x]
      BY <1>2, <2>2, <3>1 DEF ListProgress
    <3> QED
      BY <3>2, <3>3
  <2>3. CASE rows # {} /\ ListFail(p)
    <3>1. PICK x : x = [thread[p] EXCEPT !.pc = "failLoop", !.todo = rows]
      OBVIOUS
    <3>2. x \in Thread /\ x.pc = "failLoop" /\ x.todo = rows
      BY <1>0, <1>3, <3>1 DEF Thread, Pcs
    <3>3. thread' = [thread EXCEPT ![p] = x]
      BY <1>2, <2>3, <3>1 DEF ListFail
    <3> QED
      BY <3>2, <3>3
  <2> QED
    BY <2>1, <2>2, <2>3
<1>5. ASSUME NEW u \in Thread, u = thread[p], NEW r \in Requests, request[r].status \in InFlight,
             Carries(u, r)'
      PROVE  Cared(r)'
  <2>1. Unbegun(r)' /\ WillList(u, request[r].doc)'
    BY <1>0, <1>5, CarriesAt DEF Listing
  <2>2. \E q \in rows : q.id = r
    BY <1>0, <1>3, <1>5, <2>1 DEF WillList
  <2>3. Listed(t, r)
    BY <1>4, <2>2 DEF Listed, OnList
  <2> QED
    BY <1>0, <1>4, <2>1, <2>3, CarriesUnbegun, CaredBy
<1>6. HandsOn(p, t)
  <2>1. \A m \in Singletons : thread[p].pc # RegistersAt(m)
    BY <1>0 DEF RegistersAt
  <2>2. Handling(t)'
    BY <1>4 DEF Handling, Publishing
  <2> QED
    BY <1>0, <1>4, <1>5, <2>1, <2>2 DEF HandsOn
<1> QED
  BY <1>1, <1>6, SteadyStep

\* A handler on its list goes on: what it has listed stays listed, and what it
\* has decided is done.
LEMMA WakeOnList ==
    ASSUME IInv, Wakeful, TypeOK', NEW p \in Threads, NEW t \in Thread,
           thread' = [thread EXCEPT ![p] = t],
           thread[p].pc \in OnList,
           Fixed, Steady, PayloadsTexted, Handling(t)',
           \A r \in Requests :
              request'[r].status \in InFlight /\ request[r].status \notin InFlight => Cared(r)',
           \A u \in Thread : u = thread[p] =>
              \A r \in Requests :
                 Unbegun(r)' /\ request'[r].status \in InFlight /\ request[r].status \in InFlight =>
                    /\ Listed(u, r) \/ WillList(u, request[r].doc)' =>
                          Listed(t, r) \/ WillList(t, request[r].doc)' \/ Cared(r)'
                    /\ ~Decided(u, r)'
    PROVE  Wakeful'
<1>1. thread \in [Threads -> Thread]
  BY DEF IInv, TypeOK
<1>2. ASSUME NEW u \in Thread, u = thread[p], NEW r \in Requests,
             request'[r].status \in InFlight, request[r].status \in InFlight, Carries(u, r)'
      PROVE  Cared(r)'
  <2>1. Unbegun(r)' /\ (WillList(u, request[r].doc)' \/ Listed(u, r) \/ Decided(u, r)')
    BY <1>2, CarriesAt
  <2>2. Listed(t, r) \/ WillList(t, request[r].doc)' \/ Cared(r)'
    BY <1>2, <2>1
  <2> QED
    BY <1>1, <2>1, <2>2, CarriesUnbegun, CaredBy
<1>3. \A m \in Singletons : thread[p].pc # RegistersAt(m)
  BY DEF RegistersAt, OnList, OnRequest
<1>4. HandsOn(p, t)
  BY <1>2, <1>3 DEF HandsOn
<1> QED
  BY <1>4, SteadyStep

\* A request that is failed is out of flight; the others stay on the list.
LEMMA WakeFailLoop ==
    ASSUME IInv, Wakeful, TypeOK', NEW p \in Threads, FailLoop(p)
    PROVE  Wakeful'
<1>0. /\ thread \in [Threads -> Thread] /\ thread[p] \in Thread /\ ThreadOK(thread[p])
      /\ thread[p].pc = "failLoop" /\ UNCHANGED <<task, artifact>>
  BY DEF FailLoop, IInv, TypeOK, ThreadsOK
<1>1. PICK q \in thread[p].todo : SetExtractionRequestStatus(q.id, "failed") /\ DropRequest(p, q)
  BY DEF FailLoop
<1>2. q.id \in Requests
  BY <1>0, <1>1 DEF Thread, Snapshot
<1>3. /\ request'[q.id].status = "failed"
      /\ \A r \in Requests : /\ request'[r].doc = request[r].doc
                             /\ request'[r].anonymize = request[r].anonymize
                             /\ r # q.id => request'[r] = request[r]
  BY <1>1, <1>2, StatusRow DEF IInv, TypeOK, RequestStatuses
<1>4. Fixed /\ Steady /\ PayloadsTexted
  BY <1>0, <1>3, NoTaskWrite
<1>5. PICK t \in Thread : /\ thread' = [thread EXCEPT ![p] = t]
                          /\ t.pc \in {"idle", "failLoop"}
                          /\ \A y \in thread[p].todo : y # q => t.pc = "failLoop" /\ y \in t.todo
  <2>1. CASE thread[p].todo = {q}
    BY <1>1, <2>1, IdleOK DEF DropRequest
  <2>2. CASE thread[p].todo # {q}
    <3>1. PICK x : x = [thread[p] EXCEPT !.todo = thread[p].todo \ {q}]
      OBVIOUS
    <3>2. x \in Thread /\ x.pc = "failLoop" /\ x.todo = thread[p].todo \ {q}
      BY <1>0, <3>1 DEF Thread
    <3>3. thread' = [thread EXCEPT ![p] = x]
      BY <1>1, <2>2, <3>1 DEF DropRequest
    <3> QED
      BY <3>2, <3>3
  <2> QED
    BY <2>1, <2>2
<1>6. Handling(t)'
  BY <1>5 DEF Handling, Publishing
<1>7. ASSUME NEW u \in Thread, u = thread[p], NEW r \in Requests, request'[r].status \in InFlight
      PROVE  /\ Listed(u, r) => Listed(t, r)
             /\ ~WillList(u, request[r].doc)' /\ ~Decided(u, r)'
  <2>1. r # q.id
    BY <1>3, <1>7 DEF InFlight
  <2> QED
    BY <1>0, <1>5, <1>7, <2>1 DEF Listed, OnList, WillList, Decided, Listing, OnRegistered
<1>8. \A r \in Requests : request'[r].status \in InFlight => request[r].status \in InFlight
  BY <1>2, <1>3 DEF InFlight
<1> QED
  BY <1>0, <1>4, <1>5, <1>6, <1>7, <1>8, WakeOnList DEF OnList

\* A request that ends needs nobody.
LEMMA WakeEnd ==
    ASSUME IInv, Wakeful, TypeOK', NEW p \in Threads, FailRequest(p) \/ Complete(p)
    PROVE  Wakeful'
<1>0. /\ thread \in [Threads -> Thread] /\ thread[p] \in Thread /\ ThreadOK(thread[p])
      /\ thread[p].pc \in {"failRequest", "complete"} /\ UNCHANGED <<task, artifact>> /\ Return(p)
  BY DEF FailRequest, Complete, IInv, TypeOK, ThreadsOK
<1>1. PICK q \in Requests, s \in {"failed", "completed"} :
         q = thread[p].task[1] /\ SetExtractionRequestStatus(q, s)
  BY <1>0 DEF FailRequest, Complete, RequestOf, ThreadOK, Called, OnExtracted
<1>2. /\ request'[q].status = s
      /\ \A r \in Requests : /\ request'[r].doc = request[r].doc
                             /\ request'[r].anonymize = request[r].anonymize
                             /\ r # q => request'[r] = request[r]
  BY <1>1, StatusRow DEF IInv, TypeOK, RequestStatuses
<1>3. Fixed /\ Steady /\ PayloadsTexted
  BY <1>0, <1>2, NoTaskWrite
<1>4. PICK t \in Thread : thread' = [thread EXCEPT ![p] = t] /\ t.pc = "idle"
  BY <1>0, IdleOK DEF Return
<1>5. HandsOn(p, t)
  <2>1. \A r \in Requests : request'[r].status \in InFlight => request[r].status \in InFlight /\ r # q
    BY <1>1, <1>2 DEF InFlight
  <2>2. ASSUME NEW u \in Thread, u = thread[p], NEW r \in Requests, Carries(u, r)' PROVE r = q
    <3>1. u.task \in {<<r, "resolve_keys">>, <<r, "extract">>}
      BY <1>0, <2>2, CarriesAt DEF OnExtracted
    <3> QED
      BY <1>1, <2>2, <3>1
  <2>3. Handling(t)' /\ \A m \in Singletons : thread[p].pc # RegistersAt(m)
    BY <1>0, <1>4 DEF Handling, Publishing, RegistersAt
  <2> QED
    BY <1>4, <2>1, <2>2, <2>3 DEF HandsOn
<1> QED
  BY <1>3, <1>5, SteadyStep


\* The callback of a singleton task that has no text yet will list the request,
\* unless it is over and brought none.
LEMMA TextComes ==
    ASSUME IInv, Wakeful, NEW d \in Docs, NEW m \in Singletons,
           Exists(<<d, m>>), TextFor(m) \notin artifact[d]
    PROVE  Waits(<<d, m>>) \/ Fruitless(<<d, m>>) \/ \E v \in Threads : WillList(thread[v], d)
<1>1. <<d, m>> \in TaskIds
  BY DEF TaskIds
<1>2. CASE task[<<d, m>>].status # "completed"
  BY <1>1, <1>2, WaitsIff DEF IInv
<1>3. CASE task[<<d, m>>].status = "completed"
  BY <1>3 DEF Wakeful, RowsTexted, WillList, Listing, OnRegistered, RegistersAt,
              Fruitless, TextOf, TextFor
<1> QED
  BY <1>2, <1>3

\* Progress decides on a request: what it decides to insert is not there, or
\* somebody else is on the way with its text.
LEMMA WakeProgress ==
    ASSUME IInv, Wakeful, TypeOK', NEW p \in Threads, Progress(p)
    PROVE  Wakeful'
<1>0. /\ thread \in [Threads -> Thread] /\ thread[p] \in Thread /\ ThreadOK(thread[p])
      /\ thread[p].pc = "loop" /\ UNCHANGED <<task, artifact, request>>
  BY DEF Progress, IInv, TypeOK, ThreadsOK, tables
<1>1. PICK q \in thread[p].todo, x \in {"createResolveKeys", "ensureAnonymize", "ensureConvert"} :
         /\ x = "ensureAnonymize" => /\ request[q.id].anonymize
                                     /\ "anonymize_doc" \notin artifact[thread[p].doc]
         /\ x = "ensureConvert" => "convert_md" \notin artifact[thread[p].doc]
         /\ thread' = [thread EXCEPT ![p] = [thread[p] EXCEPT
                !.pc = x, !.req = q, !.todo = thread[p].todo \ {q}]]
  BY DEF Progress, Target
<1>2. PICK t : t = [thread[p] EXCEPT !.pc = x, !.req = q, !.todo = thread[p].todo \ {q}]
  OBVIOUS
<1>3. /\ t \in Thread /\ thread' = [thread EXCEPT ![p] = t]
      /\ t.pc = x /\ t.todo = thread[p].todo \ {q} /\ t.req = q /\ t.doc = thread[p].doc
  BY <1>0, <1>1, <1>2 DEF Thread, Pcs
<1>4. /\ q \in Snapshot /\ q # None /\ q.id \in Requests
      /\ thread[p].doc \in Docs /\ request[q.id].doc = thread[p].doc
  BY <1>0, <1>1 DEF Thread, Snapshot, ThreadOK, Remembers
<1>5. Fixed /\ Steady /\ PayloadsTexted
  BY <1>0, NoTaskWrite
<1>6. Handling(t)'
  BY <1>1, <1>3 DEF Handling, Publishing
<1>7. ASSUME NEW r \in Requests, r = q.id, Unbegun(r)' PROVE Carries(t, r)' \/ Cared(r)'
  <2>1. ASSUME Decided(t, r)' PROVE Carries(t, r)'
    BY <1>3, <1>7, <2>1, CarriesUnbegun
  <2>2. CASE x = "createResolveKeys"
    BY <1>3, <1>4, <1>7, <2>1, <2>2 DEF Decided
  <2>3. ASSUME NEW m \in Singletons, Exists(<<thread[p].doc, m>>), TextFor(m) \notin artifact[thread[p].doc],
               m = "anonymize" => request[r].anonymize
        PROVE  Cared(r)'
    <3>1. CASE Waits(<<thread[p].doc, m>>)
      <4>1. Unbegun(r)
        BY <1>0, <1>7 DEF Unbegun, Exists
      <4>2. Tasked(r)
        BY <1>4, <1>7, <2>3, <3>1, <4>1, TaskedAt DEF Unbegun, Singletons
      <4>3. Tasked(r)'
        BY <1>0, <4>2 DEF Tasked, Waits, Wakers, Exists
      <4> QED
        BY <4>3 DEF Cared
    <3>2. ASSUME NEW v \in Threads, WillList(thread[v], thread[p].doc) PROVE Cared(r)'
      <4>1. v # p
        BY <1>0, <3>2 DEF WillList, Listing, OnRegistered
      <4>2. PICK w \in Thread : w = thread[v] /\ thread'[v] = w /\ WillList(w, request[r].doc)
        BY <1>0, <1>3, <1>4, <1>7, <3>2, <4>1
      <4>3. WillList(w, request[r].doc)'
        BY <1>0, <4>2 DEF WillList
      <4>4. Carries(w, r)'
        BY <1>7, <4>3, CarriesUnbegun
      <4>5. Carries(thread[v], r)'
        BY <4>2, <4>4
      <4> QED
        BY <4>5 DEF Cared
    <3>3. CASE Fruitless(<<thread[p].doc, m>>)
      <4>1. Unbegun(r)
        BY <1>0, <1>7 DEF Unbegun, Exists
      <4>2. <<thread[p].doc, m>> \in Wakers(r)
        BY <1>4, <1>7, <2>3, <4>1 DEF Unbegun, Wakers, Prerequisites, Singletons
      <4>3. Barren(r)'
        BY <1>0, <3>3, <4>2 DEF Barren, Fruitless, Wakers, Exists
      <4> QED
        BY <4>3 DEF Cared
    <3> QED
      BY <1>4, <2>3, <3>1, <3>2, <3>3, TextComes
  <2>4. CASE x = "ensureConvert"
    <3>1. CASE Exists(<<thread[p].doc, "convert">>)
      BY <1>1, <2>3, <2>4, <3>1 DEF Singletons, TextFor
    <3>2. CASE ~Exists(<<thread[p].doc, "convert">>)
      <4>1. ~Exists(<<t.doc, "convert">>)'
        BY <1>0, <1>3, <3>2 DEF Exists
      <4> QED
        BY <1>3, <1>4, <1>7, <2>1, <2>4, <4>1 DEF Decided
    <3> QED
      BY <3>1, <3>2
  <2>5. CASE x = "ensureAnonymize"
    <3>1. CASE Exists(<<thread[p].doc, "anonymize">>)
      BY <1>1, <1>7, <2>3, <2>5, <3>1 DEF Singletons, TextFor
    <3>2. CASE ~Exists(<<thread[p].doc, "anonymize">>)
      <4>1. ~Exists(<<t.doc, "anonymize">>)' /\ request'[r].anonymize
        BY <1>0, <1>1, <1>3, <1>7, <2>5, <3>2 DEF Exists
      <4> QED
        BY <1>3, <1>4, <1>7, <2>1, <2>5, <4>1 DEF Decided
    <3> QED
      BY <3>1, <3>2
  <2> QED
    BY <2>2, <2>4, <2>5
<1>8. ASSUME NEW u \in Thread, u = thread[p], NEW r \in Requests, Unbegun(r)'
      PROVE  /\ Listed(u, r) => Listed(t, r) \/ Cared(r)'
             /\ ~WillList(u, request[r].doc)' /\ ~Decided(u, r)'
  <2>1. ~WillList(u, request[r].doc)' /\ ~Decided(u, r)'
    BY <1>0, <1>8 DEF WillList, Decided, Listing, OnRegistered
  <2>2. CASE r = q.id
    BY <1>0, <1>3, <1>7, <1>8, <2>1, <2>2, CaredBy
  <2>3. CASE r # q.id
    BY <1>1, <1>3, <1>8, <2>1, <2>3 DEF Listed, OnList, OnRequest
  <2> QED
    BY <2>2, <2>3
<1> QED
  BY <1>0, <1>3, <1>5, <1>6, <1>8, WakeOnList DEF OnList

\* Loop keeps the list, or it was empty.
LEMMA LoopListed ==
    ASSUME thread \in [Threads -> Thread], NEW p \in Threads, Loop(p)
    PROVE  \E t \in Thread : /\ thread' = [thread EXCEPT ![p] = t]
                             /\ t.pc \in {"idle", "loop"}
                             /\ thread[p].todo # {} => t.pc = "loop" /\ t.todo = thread[p].todo
<1>1. CASE thread[p].todo = {}
  BY <1>1, IdleOK DEF Loop
<1>2. CASE thread[p].todo # {}
  <2>1. PICK x : x = [thread[p] EXCEPT !.pc = "loop", !.made = None]
    OBVIOUS
  <2>2. x \in Thread /\ x.pc = "loop" /\ x.todo = thread[p].todo
    <3>1. thread[p] \in Thread
      OBVIOUS
    <3> QED
      BY <2>1, <3>1 DEF Thread, Pcs
  <2>3. thread' = [thread EXCEPT ![p] = x]
    BY <1>2, <2>1 DEF Loop
  <2> QED
    BY <2>2, <2>3
<1> QED
  BY <1>1, <1>2

\* A task is inserted, or is found, as decided: the list is as before.
LEMMA WakeInsert ==
    ASSUME IInv, Wakeful, TypeOK', NEW p \in Threads, thread[p].pc \in OnRequest,
           NEW id \in TaskIds, NEW in \in Kinds \cup {"original"}, NEW x \in Publishing,
           IF Exists(id) THEN Loop(p) /\ UNCHANGED task
           ELSE InsertTask(id, in) /\ PublishNext(p, id, x),
           UNCHANGED <<request, artifact>>,
           \A u \in Thread : u = thread[p] =>
              \A r \in Requests : Exists(id)' /\ Unbegun(r)' => ~Decided(u, r)'
    PROVE  Wakeful'
<1>0. thread \in [Threads -> Thread] /\ thread[p] \in Thread
  BY DEF IInv, TypeOK
<1>1. Fixed /\ Steady /\ PayloadsTexted /\ Exists(id)' /\ (~Exists(id) => Waits(id)')
  <2>1. CASE Exists(id)
    BY <2>1, NoTaskWrite DEF Exists
  <2>2. CASE ~Exists(id)
    BY <2>2, TaskInserted DEF IInv
  <2> QED
    BY <2>1, <2>2
<1>2. PICK t \in Thread : /\ thread' = [thread EXCEPT ![p] = t]
                          /\ \/ t.pc \in {"idle", "loop"}
                             \/ t.pc \in Publishing /\ t.made = id /\ ~Exists(id)
                          /\ thread[p].todo # {} => t.pc # "idle" /\ t.todo = thread[p].todo
  <2>1. CASE Exists(id)
    BY <1>0, <2>1, LoopListed
  <2>2. CASE ~Exists(id)
    <3>1. x \in Pcs
      BY DEF Publishing, Pcs
    <3> QED
      BY <1>0, <2>2, <3>1, PublishNextThread DEF Publishing
  <2> QED
    BY <2>1, <2>2
<1>3. Handling(t)'
  BY <1>1, <1>2 DEF Handling, Publishing
<1>4. ASSUME NEW u \in Thread, u = thread[p], NEW r \in Requests
      PROVE  /\ Listed(u, r) => Listed(t, r)
             /\ ~WillList(u, request[r].doc)'
  BY <1>2, <1>4 DEF Listed, OnList, OnRequest, Publishing, WillList, Listing, OnRegistered
<1> QED
  BY <1>1, <1>2, <1>3, <1>4, WakeOnList DEF OnList

\* resolve_keys is inserted for the request that was decided on.
LEMMA WakeCreateResolveKeys ==
    ASSUME IInv, Wakeful, TypeOK', NEW p \in Threads, CreateResolveKeys(p)
    PROVE  Wakeful'
<1>0. /\ thread[p] \in Thread /\ ThreadOK(thread[p]) /\ thread[p].pc = "createResolveKeys"
      /\ UNCHANGED <<request, artifact>>
  BY DEF CreateResolveKeys, IInv, TypeOK, ThreadsOK
<1>1. thread[p].req # None
  BY <1>0 DEF ThreadOK, Called, OnRequest
<1>2. PICK q \in Requests : q = thread[p].req.id
  BY <1>0, <1>1 DEF Thread, Snapshot
<1>3. PICK id \in TaskIds, x \in Publishing, in \in Kinds :
         /\ id = <<q, "resolve_keys">>
         /\ IF Exists(id) THEN Loop(p) /\ UNCHANGED task
            ELSE InsertTask(id, in) /\ PublishNext(p, id, x)
  <2>1. <<q, "resolve_keys">> \in TaskIds /\ Target(q) \in Kinds
    BY RequestTaskIds DEF Target, Kinds
  <2>2. (IF thread[p].req.status = "pending" THEN "setRunning" ELSE "publish") \in Publishing
    BY DEF Publishing
  <2> QED
    BY <1>2, <2>1, <2>2 DEF CreateResolveKeys
<1>4. ASSUME NEW u \in Thread, u = thread[p], NEW r \in Requests, Exists(id)', Unbegun(r)'
      PROVE  ~Decided(u, r)'
  BY <1>0, <1>2, <1>3, <1>4 DEF Decided, Unbegun
<1> QED
  BY <1>0, <1>3, <1>4, WakeInsert DEF OnRequest

\* convert or anonymize is inserted for the document of the request.
LEMMA WakeEnsure ==
    ASSUME IInv, Wakeful, TypeOK', NEW p \in Threads, EnsureConvert(p) \/ EnsureAnonymize(p)
    PROVE  Wakeful'
<1>1. PICK m \in Singletons, in \in Kinds \cup {"original"} :
         /\ \/ thread[p].pc = "ensureConvert" /\ m = "convert"
            \/ thread[p].pc = "ensureAnonymize" /\ m = "anonymize"
         /\ IF Exists(<<thread[p].doc, m>>) THEN Loop(p) /\ UNCHANGED task
            ELSE InsertTask(<<thread[p].doc, m>>, in) /\ PublishNext(p, <<thread[p].doc, m>>, "publish")
         /\ UNCHANGED <<request, artifact>>
  BY DEF EnsureConvert, EnsureAnonymize, Ensure, Singletons, Kinds
<1>2. PICK d \in Docs : d = thread[p].doc
  BY <1>1, HasDoc
<1>3. PICK id \in TaskIds : id = <<d, m>>
  BY DEF TaskIds
<1>4. ASSUME NEW u \in Thread, u = thread[p], NEW r \in Requests, Exists(id)', Unbegun(r)'
      PROVE  ~Decided(u, r)'
  BY <1>1, <1>2, <1>3, <1>4 DEF Decided
<1> QED
  BY <1>1, <1>2, <1>3, <1>4, WakeInsert DEF OnRequest, Publishing


\* A request is set running, from whatever status, when its resolve_keys task is
\* there and nobody has heard of it.
LEMMA WakeSetRunning ==
    ASSUME IInv, Wakeful, TypeOK', NEW p \in Threads, SetRunning(p)
    PROVE  Wakeful'
<1>0. /\ thread \in [Threads -> Thread] /\ thread[p] \in Thread /\ ThreadOK(thread[p])
      /\ thread[p].pc = "setRunning" /\ thread[p].doc \in Docs
      /\ UNCHANGED <<task, artifact>>
  BY HasDoc DEF SetRunning, IInv, TypeOK, ThreadsOK
<1>1. /\ thread[p].req # None
      /\ thread[p].made = <<thread[p].req.id, "resolve_keys">>
      /\ Waits(thread[p].made) /\ Secret(p, thread[p].made)
  BY <1>0 DEF ThreadOK, Called, OnRequest, Wakeful, Handling, Publishing, IInv, Unpublished
<1>2. PICK q \in Requests : q = thread[p].req.id
  BY <1>0, <1>1 DEF Thread, Snapshot
<1>3. \A r \in Requests : /\ request'[r].doc = request[r].doc
                          /\ request'[r].anonymize = request[r].anonymize
                          /\ r # q => request'[r] = request[r]
  BY <1>2, StatusRow DEF SetRunning, IInv, TypeOK, RequestStatuses, InFlight
<1>4. Fixed /\ Steady /\ PayloadsTexted
  BY <1>0, <1>3, NoTaskWrite
<1>5. PICK t \in Thread : t.pc = "publish" /\ SameLocals(t, thread[p]) /\ GoesOn(p, t)
  BY <1>0, GotoOK DEF SetRunning, Pcs, Publishing
<1>6. Handling(t)'
  BY <1>0, <1>1, <1>5 DEF Handling, SameLocals, Waits
<1>7. Cared(q)'
  <2>1. Waits(<<q, "resolve_keys">>)' /\ ~Exists(<<q, "extract">>)' /\ Exists(<<q, "resolve_keys">>)'
    BY <1>0, <1>1, <1>2 DEF Waits, Secret, Exists
  <2>2. Tasked(q)'
    BY <2>1, TaskedAtNext
  <2> QED
    BY <2>2 DEF Cared
<1>8. ASSUME NEW u \in Thread, u = thread[p], NEW r \in Requests
      PROVE  /\ Listed(u, r) => Listed(t, r)
             /\ ~WillList(u, request[r].doc)' /\ ~Decided(u, r)'
  BY <1>0, <1>5, <1>8 DEF Listed, OnList, WillList, Decided, Listing, OnRegistered, SameLocals
<1>9. \A r \in Requests : r # q => request'[r].status = request[r].status
  BY <1>3
<1> QED
  BY <1>0, <1>4, <1>5, <1>6, <1>7, <1>8, <1>9, WakeOnList DEF OnList, OnRequest, GoesOn

\* The task is published; the handler lists the requests or goes on with its list.
LEMMA WakePublish ==
    ASSUME IInv, Wakeful, TypeOK', NEW p \in Threads, Publish(p)
    PROVE  Wakeful'
<1>0. /\ thread \in [Threads -> Thread] /\ thread[p] \in Thread /\ ThreadOK(thread[p])
      /\ thread[p].pc = "publish" /\ UNCHANGED <<task, artifact, request>>
  BY DEF Publish, IInv, TypeOK, ThreadsOK, tables
<1>1. Fixed /\ Steady /\ PayloadsTexted
  BY <1>0, NoTaskWrite
<1>2. ASSUME NEW u \in Thread, u = thread[p], NEW r \in Requests
      PROVE  ~Decided(u, r)'
  BY <1>0, <1>2 DEF Decided
<1>3. CASE thread[p].after = "listProgress"
  <2>1. thread[p].doc \in Docs
    BY <1>0, <1>3 DEF ThreadOK, Placed
  <2>2. PICK t \in Thread : t.pc = "listProgress" /\ SameLocals(t, thread[p]) /\ GoesOn(p, t)
    BY <1>0, <1>3, <2>1, GotoOK DEF Publish, AfterPublish, Pcs, Publishing
  <2>3. Handling(t)'
    BY <2>2 DEF Handling, Publishing
  <2>4. ASSUME NEW u \in Thread, u = thread[p], NEW r \in Requests, Listed(u, r) \/ WillList(u, request[r].doc)'
        PROVE  WillList(t, request[r].doc)'
    <3>1. thread[p].doc = request[r].doc
      BY <1>0, <2>4 DEF Listed, WillList, ThreadOK, Remembers
    <3> QED
      BY <1>0, <2>2, <3>1 DEF WillList, Listing, SameLocals
  <2> QED
    BY <1>0, <1>1, <1>2, <2>2, <2>3, <2>4, WakeOnList DEF OnList, GoesOn
<1>4. CASE thread[p].after # "listProgress"
  <2>1. PICK t \in Thread : /\ thread' = [thread EXCEPT ![p] = t]
                            /\ t.pc \in {"idle", "loop"}
                            /\ thread[p].todo # {} => t.pc = "loop" /\ t.todo = thread[p].todo
    BY <1>0, <1>4, LoopListed DEF Publish, AfterPublish
  <2>2. Handling(t)'
    BY <2>1 DEF Handling, Publishing
  <2>3. ASSUME NEW u \in Thread, u = thread[p], NEW r \in Requests
        PROVE  (Listed(u, r) => Listed(t, r)) /\ ~WillList(u, request[r].doc)'
    BY <1>0, <1>4, <2>1, <2>3 DEF Listed, OnList, WillList, Listing, OnRegistered
  <2> QED
    BY <1>0, <1>1, <1>2, <2>1, <2>2, <2>3, WakeOnList DEF OnList
<1> QED
  BY <1>3, <1>4

\* The steps between the answer of resolve_keys and the insert of extract, and
\* the storing of the values: the request stays with its handler.
LEMMA WakeAnswer ==
    ASSUME IInv, Wakeful, TypeOK', NEW p \in Threads,
           UpsertKeys(p) \/ SaveSchema(p) \/ FindTarget(p) \/ Persist(p)
    PROVE  Wakeful'
<1>0. /\ thread \in [Threads -> Thread] /\ thread[p] \in Thread /\ ThreadOK(thread[p])
      /\ thread[p].pc \in {"upsertKeys", "saveSchema", "findTarget", "persist"}
      /\ thread[p].doc \in Docs
  BY HasDoc DEF UpsertKeys, SaveSchema, FindTarget, Persist, IInv, TypeOK, ThreadsOK
<1>1. /\ UNCHANGED <<task, artifact>>
      /\ \A r \in Requests : /\ request'[r].doc = request[r].doc
                             /\ request'[r].anonymize = request[r].anonymize
                             /\ request'[r].status = request[r].status
  <2>1. CASE SaveSchema(p)
    <3>1. request \in [Requests -> Request]
      BY DEF IInv, TypeOK
    <3> QED
      BY <2>1, <3>1 DEF SaveSchema, Request
  <2>2. CASE UpsertKeys(p) \/ FindTarget(p) \/ Persist(p)
    BY <2>2 DEF UpsertKeys, FindTarget, Persist, tables
  <2> QED
    BY <2>1, <2>2
<1>2. Fixed /\ Steady /\ PayloadsTexted
  BY <1>1, NoTaskWrite
<1>3. PICK x \in {"saveSchema", "findTarget", "createExtract", "failRequest", "complete"} :
         /\ Goto(p, x)
         /\ thread[p].pc = "persist" => x = "complete"
         /\ thread[p].pc # "persist" => x # "complete"
  BY DEF UpsertKeys, SaveSchema, FindTarget, Persist
<1>4. PICK t \in Thread : t.pc = x /\ SameLocals(t, thread[p]) /\ GoesOn(p, t)
  <2>1. x \in Pcs \ {"idle"} /\ x \notin Publishing
    BY <1>3 DEF Pcs, Publishing
  <2> QED
    BY <1>0, <1>3, <2>1, GotoOK
<1>5. ASSUME NEW u \in Thread, u = thread[p], NEW r \in Requests, Carries(u, r)' PROVE Cared(r)'
  <2>1. t.task = u.task
    BY <1>4, <1>5 DEF SameLocals
  <2>2. Carries(t, r)'
    BY <1>0, <1>3, <1>4, <1>5, <2>1
    DEF Carries, Resolving, Extracting, WillList, Listed, Decided, OnResolved, OnExtracted,
        Listing, OnList, OnRegistered, OnRequest
  <2> QED
    BY <1>0, <1>4, <2>2, CaredBy DEF GoesOn
<1>6. HandsOn(p, t)
  <2>1. Handling(t)' /\ \A m \in Singletons : thread[p].pc # RegistersAt(m)
    BY <1>0, <1>3, <1>4 DEF Handling, Publishing, RegistersAt
  <2> QED
    BY <1>1, <1>4, <1>5, <2>1 DEF HandsOn, GoesOn
<1> QED
  BY <1>2, <1>6, SteadyStep

\* extract is inserted, or is there: the request waits for it.
LEMMA WakeCreateExtract ==
    ASSUME IInv, Wakeful, TypeOK', NEW p \in Threads, CreateExtract(p)
    PROVE  Wakeful'
<1>0. /\ thread \in [Threads -> Thread] /\ thread[p] \in Thread /\ ThreadOK(thread[p])
      /\ thread[p].pc = "createExtract" /\ UNCHANGED <<request, artifact>>
  BY DEF CreateExtract, IInv, TypeOK, ThreadsOK
<1>1. PICK q \in Requests : q = RequestOf(p)
  BY <1>0 DEF ThreadOK, Called, ResolvedKnown, OnResolved, RequestOf
<1>2. PICK id \in TaskIds : id = <<q, "extract">>
  BY RequestTaskIds
<1>3. /\ Fixed /\ Steady /\ PayloadsTexted /\ Exists(id)'
      /\ \E t \in Thread : /\ thread' = [thread EXCEPT ![p] = t]
                           /\ t.pc = "idle" \/ (t.pc = "publish" /\ t.made = id /\ Waits(id)')
  <2>1. CASE Exists(id)
    <3>1. UNCHANGED task /\ Return(p)
      BY <1>1, <1>2, <2>1 DEF CreateExtract
    <3> QED
      BY <1>0, <2>1, <3>1, NoTaskWrite, IdleOK DEF Exists, Return
  <2>2. CASE ~Exists(id)
    <3>1. InsertTask(id, Target(q)) /\ PublishNext(p, id, "publish") /\ Target(q) \in Kinds
      BY <1>1, <1>2, <2>2 DEF CreateExtract, Target, Kinds
    <3>2. Fixed /\ Steady /\ PayloadsTexted /\ Exists(id)' /\ Waits(id)'
      BY <1>0, <2>2, <3>1, TaskInserted DEF IInv
    <3> QED
      BY <1>0, <3>1, <3>2, PublishNextThread DEF Pcs
  <2> QED
    BY <2>1, <2>2
<1>4. PICK t \in Thread : /\ thread' = [thread EXCEPT ![p] = t]
                          /\ t.pc = "idle" \/ (t.pc = "publish" /\ t.made = id /\ Waits(id)')
  BY <1>3
<1>5. ASSUME NEW u \in Thread, u = thread[p], NEW r \in Requests PROVE ~Carries(u, r)'
  <2>1. Carries(u, r)' => ~Exists(<<r, "extract">>)' /\ u.task = <<r, "resolve_keys">>
    BY <1>0, <1>5, CarriesAt DEF OnResolved
  <2>2. u.task = <<r, "resolve_keys">> => r = q
    BY <1>1, <1>5 DEF RequestOf
  <2> QED
    BY <1>2, <1>3, <2>1, <2>2
<1>6. HandsOn(p, t)
  <2>1. Handling(t)' /\ \A m \in Singletons : thread[p].pc # RegistersAt(m)
    BY <1>0, <1>4 DEF Handling, Publishing, RegistersAt
  <2> QED
    BY <1>0, <1>4, <1>5, <2>1 DEF HandsOn
<1> QED
  BY <1>3, <1>6, SteadyStep


\* Initiate inserts a request that its handler has on its list.
LEMMA WakeInitiate ==
    ASSUME IInv, Wakeful, TypeOK', NEW p \in Threads, NEW q \in Requests, NEW d \in Docs, NEW a \in BOOLEAN,
           Initiate(p, q, d, a)
    PROVE  Wakeful'
<1>0. /\ thread \in [Threads -> Thread] /\ thread[p] \in Thread /\ request \in [Requests -> Request]
      /\ thread[p].pc = "idle" /\ request[q].status = "absent" /\ UNCHANGED <<task, artifact>>
  BY DEF Initiate, IInv, TypeOK
<1>1. request[q].doc \notin Docs /\ Unbegun(q)
  <2>1. request[q].doc \notin Docs
    BY <1>0 DEF IInv, TablesOK, RequestRows
  <2> QED
    BY <2>1 DEF Unbegun, IInv, TablesOK, TaskRows, PerRequest
<1>2. \A r \in Requests : r # q => request'[r] = request[r]
  BY <1>0 DEF Initiate
<1>3. Fixed /\ Steady /\ PayloadsTexted
  BY <1>0, <1>1, <1>2, NoTaskWrite
<1>4. PICK y \in Snapshot : y = [id |-> q, status |-> "pending"] /\ y.id = q
  <2>1. [id |-> q, status |-> "pending"] \in Snapshot
    BY DEF Snapshot, InFlight
  <2> QED
    BY <2>1
<1>5. PICK t \in Thread : thread' = [thread EXCEPT ![p] = t] /\ t.pc = "loop" /\ t.todo = {y}
  <2>1. PICK t : t = [IdleThread EXCEPT !.pc = "loop", !.doc = d, !.todo = {y}]
    OBVIOUS
  <2>2. t \in Thread /\ t.pc = "loop" /\ t.todo = {y}
    BY <2>1 DEF IdleThread, Thread, Pcs, Payloads
  <2>3. thread' = [thread EXCEPT ![p] = t]
    BY <1>4, <2>1 DEF Initiate
  <2> QED
    BY <2>2, <2>3
<1>6. Cared(q)'
  <2>1. Listed(t, q)
    BY <1>4, <1>5 DEF Listed, OnList
  <2>2. Unbegun(q)'
    BY <1>0, <1>1 DEF Unbegun, Exists
  <2> QED
    BY <1>0, <1>5, <2>1, <2>2, CarriesUnbegun, CaredBy
<1>7. HandsOn(p, t)
  <2>1. Handling(t)' /\ \A m \in Singletons : thread[p].pc # RegistersAt(m)
    BY <1>0, <1>5 DEF Handling, Publishing, RegistersAt
  <2>2. \A u \in Thread : u = thread[p] => \A r \in Requests : ~Carries(u, r)'
    BY <1>0, CarriesAt
  <2>3. \A r \in Requests : request'[r].status \in InFlight /\ request[r].status \notin InFlight => Cared(r)'
    BY <1>2, <1>6
  <2> QED
    BY <1>5, <2>1, <2>2, <2>3 DEF HandsOn
<1> QED
  BY <1>3, <1>5, <1>7, SteadyStep

\* POST /tasks inserts convert.
LEMMA WakeCreateConvert ==
    ASSUME IInv, Wakeful, TypeOK', NEW p \in Threads, NEW d \in Docs, CreateConvert(p, d)
    PROVE  Wakeful'
<1>0. /\ thread \in [Threads -> Thread] /\ thread[p] \in Thread
      /\ thread[p].pc = "idle" /\ UNCHANGED <<request, artifact>>
  BY DEF CreateConvert, IInv, TypeOK
<1>1. PICK id \in TaskIds : id = <<d, "convert">> /\ ~Exists(id) /\ InsertTask(id, "original")
  BY DocTaskIds DEF CreateConvert
<1>2. Fixed /\ Steady /\ PayloadsTexted /\ Waits(id)'
  BY <1>0, <1>1, TaskInserted DEF IInv
<1>3. PICK t : t = [IdleThread EXCEPT !.pc = "publish", !.made = id, !.lenient = TRUE]
  OBVIOUS
<1>4. /\ t \in Thread /\ thread' = [thread EXCEPT ![p] = t]
      /\ t.pc = "publish" /\ t.made = id
  BY <1>1, <1>3 DEF CreateConvert, IdleThread, Thread, Pcs, Payloads
<1>5. HandsOn(p, t)
  <2>1. Handling(t)' /\ \A m \in Singletons : thread[p].pc # RegistersAt(m)
    BY <1>0, <1>2, <1>4 DEF Handling, RegistersAt
  <2>2. \A u \in Thread : u = thread[p] => \A r \in Requests : ~Carries(u, r)'
    BY <1>0, CarriesAt
  <2> QED
    BY <1>0, <1>4, <2>1, <2>2 DEF HandsOn
<1> QED
  BY <1>2, <1>4, <1>5, SteadyStep

\* Where the completion of a task takes its handler.
LEMMA CompletedBranch ==
    ASSUME NEW m \in Singletons \cup PerRequest, NEW x
    PROVE  /\ m \in Singletons /\ x = "raw" => Branch(m, "completed", x) = RegistersAt(m)
           /\ m \in Singletons => Branch(m, "completed", x) \in {RegistersAt(m), "listProgress"}
           /\ m = "resolve_keys" => Branch(m, "completed", x) \in {"upsertKeys", "failRequest"}
           /\ m = "extract" => Branch(m, "completed", x) \in {"persist", "failRequest"}
<1>1. CASE m = "convert"
  BY <1>1 DEF Branch, Singletons, RegistersAt
<1>2. CASE m = "anonymize"
  BY <1>2 DEF Branch, Singletons, RegistersAt
<1>3. CASE m = "resolve_keys"
  BY <1>3 DEF Branch, Singletons, PerRequest
<1>4. CASE m = "extract"
  BY <1>4 DEF Branch, Singletons, PerRequest
<1> QED
  BY <1>1, <1>2, <1>3, <1>4 DEF Singletons, PerRequest

\* The requests that waited for a task go to the handler that completes it.
LEMMA WakeCompleted ==
    ASSUME IInv, Wakeful, TypeOK', NEW p \in Threads, NEW id \in TaskIds, Exists(id),
           \E m \in queue \cup answered : id = m.task,
           NEW new \in Results(id),
           HandleStatusUpdate(p, id, "completed", new)
    PROVE  Wakeful'
<1>0. /\ thread \in [Threads -> Thread] /\ thread[p] \in Thread /\ task \in [TaskIds -> Task]
      /\ thread[p].pc = "idle" /\ UNCHANGED <<request, artifact>>
  BY DEF HandleStatusUpdate, IInv, TypeOK
<1>1. PICK x \in Payloads :
         /\ x = Coalesce(new, task[id].payload)
         /\ id[2] \in Singletons => x \in Useless \cup {"raw"} \/ x = task[id].payload
  <2>1. /\ Results(id) \subseteq Payloads \cup {"NULL"}
        /\ id[2] \in Singletons => Results(id) \subseteq Useless \cup {"raw", "NULL"}
    BY DEF Results, Payloads, Singletons, Useless
  <2> QED
    BY <1>0, <2>1 DEF Coalesce, Task
<1>2. /\ task'[id].status = "completed" /\ task'[id].payload = x
      /\ \A y \in TaskIds : y # id => task'[y] = task[y]
  <2>1. PICK s \in TaskStatuses : s = "completed"
    BY DEF TaskStatuses
  <2>2. task' = [task EXCEPT ![id].status = s, ![id].payload = x]
    BY <1>1, <2>1 DEF HandleStatusUpdate
  <2>3. /\ task'[id].status = s /\ task'[id].payload = x
        /\ \A y \in TaskIds : y # id => task'[y] = task[y]
    BY <1>0, <2>2 DEF Task
  <2> QED
    BY <2>1, <2>3
<1>3. /\ \A y \in TaskIds : Exists(y)' <=> Exists(y)
      /\ \A y \in TaskIds : y # id /\ Waits(y) => Waits(y)'
  BY <1>2 DEF Exists, Waits
<1>4. /\ id[2] \in Singletons => id \in Docs \X Singletons /\ DocOf(id) = id[1]
      /\ id[2] \in PerRequest => id \in Requests \X PerRequest
      /\ id[2] \in Singletons \cup PerRequest
      /\ DocOf(id) \in Docs
  <2>1. CASE id \in Docs \X Singletons
    BY <2>1 DEF DocOf, Singletons, PerRequest
  <2>2. CASE id \in Requests \X PerRequest
    BY <2>2, TaskRequest DEF DocOf, Singletons, PerRequest
  <2> QED
    BY <2>1, <2>2 DEF TaskIds
<1>5. PICK pc \in Pcs \ {"idle"} :
         /\ pc = Branch(id[2], "completed", x)
         /\ id[2] \in Singletons /\ x = "raw" => pc = RegistersAt(id[2])
         /\ id[2] \in Singletons => pc \in {RegistersAt(id[2]), "listProgress"}
         /\ id[2] = "resolve_keys" => pc \in {"upsertKeys", "failRequest"}
         /\ id[2] = "extract" => pc \in {"persist", "failRequest"}
  <2>1. PICK pc : pc = Branch(id[2], "completed", x)
    OBVIOUS
  <2>2. /\ id[2] \in Singletons /\ x = "raw" => pc = RegistersAt(id[2])
        /\ id[2] \in Singletons => pc \in {RegistersAt(id[2]), "listProgress"}
        /\ id[2] = "resolve_keys" => pc \in {"upsertKeys", "failRequest"}
        /\ id[2] = "extract" => pc \in {"persist", "failRequest"}
    BY <1>4, <2>1, CompletedBranch
  <2>3. pc \in Pcs \ {"idle"}
    BY <1>4, <2>2 DEF Singletons, PerRequest, RegistersAt, Pcs
  <2> QED
    BY <2>1, <2>2, <2>3
<1>6. PICK t \in Thread : /\ thread' = [thread EXCEPT ![p] = t]
                          /\ t.pc = pc /\ t.task = id /\ t.doc = DocOf(id)
  <2>1. PICK t : t = [IdleThread EXCEPT !.pc = pc, !.task = id, !.payload = x, !.doc = DocOf(id)]
    OBVIOUS
  <2>2. t \in Thread /\ t.pc = pc /\ t.task = id /\ t.doc = DocOf(id)
    BY <1>1, <1>4, <1>5, <2>1 DEF IdleThread, Thread
  <2>3. thread' = [thread EXCEPT ![p] = t]
    BY <1>1, <1>5, <2>1 DEF HandleStatusUpdate
  <2> QED
    BY <2>2, <2>3
<1>7. Fixed /\ Fresh
  BY <1>0, <1>3 DEF Fixed, Fresh
<1>8. Texts(p, t)
  <2>1. \A m \in Singletons : thread[p].pc # RegistersAt(m)
    BY <1>0 DEF RegistersAt
  <2>2. ASSUME NEW d \in Docs, NEW m \in Singletons
        PROVE  /\ \/ task'[<<d, m>>].payload = task[<<d, m>>].payload
                  \/ task'[<<d, m>>].payload \in Useless \cup {"raw"}
               /\ task'[<<d, m>>].status = "completed" =>
                     \/ task[<<d, m>>].status = "completed" /\ task'[<<d, m>>].payload = task[<<d, m>>].payload
                     \/ task'[<<d, m>>].payload \in Useless
                     \/ TextFor(m) \in artifact'[d]
                     \/ t.pc = RegistersAt(m) /\ t.doc = d
    <3>1. CASE id = <<d, m>>
      <4>1. id[1] = d /\ id[2] = m
        BY <3>1
      <4>2. CASE x = "raw"
        BY <1>2, <1>4, <1>5, <1>6, <3>1, <4>1, <4>2
      <4>3. CASE x \in Useless
        BY <1>2, <3>1, <4>3
      <4>4. CASE x \notin Useless \cup {"raw"}
        <5>1. x = task[<<d, m>>].payload
          BY <1>1, <3>1, <4>1, <4>4
        <5>2. TextFor(m) \in artifact[d]
          BY <4>4, <5>1 DEF Wakeful, RowsTexted
        <5> QED
          BY <1>0, <1>2, <3>1, <5>1, <5>2
      <4> QED
        BY <4>2, <4>3, <4>4
    <3>2. CASE id # <<d, m>>
      <4>1. <<d, m>> \in TaskIds
        BY DEF TaskIds
      <4> QED
        BY <1>2, <3>2, <4>1
    <3> QED
      BY <3>1, <3>2
  <2> QED
    BY <2>1, <2>2 DEF Texts
<1>9. Handling(t)'
  <2>1. CASE id[2] \in Singletons
    <3>1. id = <<t.doc, id[2]>>
      BY <1>4, <1>6, <2>1
    <3> QED
      BY <1>5, <1>6, <2>1, <3>1 DEF Handling, Publishing, RegistersAt, Singletons
  <2>2. CASE id[2] \in PerRequest
    BY <1>5, <1>6, <2>2 DEF Handling, Publishing, PerRequest
  <2> QED
    BY <1>4, <2>1, <2>2
<1>10. \A q \in Threads : q # p /\ thread[q].pc \in Publishing =>
           \A y \in TaskIds : y = thread[q].made => Waits(y)'
  <2> SUFFICES ASSUME NEW q \in Threads, thread[q].pc \in Publishing, NEW y \in TaskIds, y = thread[q].made
               PROVE  Waits(y)'
    OBVIOUS
  <2>1. Waits(y) /\ Secret(q, y)
    BY DEF Wakeful, Handling, IInv, Unpublished
  <2>2. y # id
    BY <2>1 DEF Secret
  <2> QED
    BY <1>3, <2>1, <2>2
<1>11. ASSUME NEW r \in Requests, request[r].status \in InFlight, Tasked(r) \/ Barren(r) PROVE Cared(r)'
  <2>1. PICK d \in Docs : d = request[r].doc /\ d = request'[r].doc
    BY <1>0, <1>11 DEF IInv, TablesOK, RequestRows, InFlight
  <2>2. PICK e \in TaskIds, k \in TaskIds, c \in TaskIds, a \in TaskIds :
             /\ e = <<r, "extract">> /\ k = <<r, "resolve_keys">>
             /\ c = <<d, "convert">> /\ a = <<d, "anonymize">>
    BY RequestTaskIds, DocTaskIds
  <2>3. Tasked(r) => /\ Exists(e) => Waits(e)
                     /\ ~Exists(e) /\ Exists(k) => Waits(k)
                     /\ ~Exists(e) /\ ~Exists(k) => Waits(c) \/ (request[r].anonymize /\ Waits(a))
    BY <2>1, <2>2, TaskedAt
  <2>4. /\ Exists(e) /\ Waits(e)' => Tasked(r)'
        /\ ~Exists(e) /\ Exists(k) /\ Waits(k)' => Tasked(r)'
        /\ ~Exists(e) /\ ~Exists(k) /\ (Waits(c)' \/ (request[r].anonymize /\ Waits(a)')) => Tasked(r)'
    <3>1. (Exists(e)' <=> Exists(e)) /\ (Exists(k)' <=> Exists(k))
      BY <1>3
    <3>2. /\ Exists(e)' => (Tasked(r)' <=> Waits(e)')
          /\ ~Exists(e)' /\ Exists(k)' => (Tasked(r)' <=> Waits(k)')
          /\ ~Exists(e)' /\ ~Exists(k)' => (Tasked(r)' <=> Waits(c)' \/ (request'[r].anonymize /\ Waits(a)'))
      BY <2>1, <2>2, TaskedAtNext
    <3> QED
      BY <1>0, <3>1, <3>2
  <2>5. CASE Tasked(r)' \/ Barren(r)'
    BY <2>5 DEF Cared
  <2>6. CASE ~Tasked(r)' /\ ~Barren(r)'
    <3>0. ASSUME Barren(r) PROVE ~Exists(e) /\ ~Exists(k) /\ id \in {c, a}
      <4>1. PICK y \in Wakers(r) : Fruitless(y)
        BY <3>0 DEF Barren
      <4>2. ~Exists(e) /\ ~Exists(k) /\ y \in {c, a}
        BY <2>1, <2>2, <4>1 DEF Wakers, Prerequisites, Fruitless, Singletons
      <4>3. y \in Wakers(r)'
        BY <1>0, <1>3, <2>2, <4>1, <4>2 DEF Wakers
      <4>4. y # id => Fruitless(y)'
        BY <1>0, <1>2, <4>1, <4>2 DEF Fruitless, TextOf
      <4> QED
        BY <2>6, <4>2, <4>3, <4>4 DEF Barren
    <3>1. \/ Exists(e) /\ id = e
          \/ ~Exists(e) /\ Exists(k) /\ id = k
          \/ ~Exists(e) /\ ~Exists(k) /\ id \in {c, a}
      BY <1>3, <1>11, <2>3, <2>4, <2>6, <3>0
    <3>2. Carries(t, r)'
      <4>1. CASE Exists(e) /\ id = e
        <5>1. Exists(<<r, "extract">>)' /\ id[2] = "extract"
          BY <1>3, <2>2, <4>1
        <5> QED
          BY <1>5, <1>6, <2>2, <4>1, <5>1 DEF Carries, Extracting, OnExtracted
      <4>2. CASE ~Exists(e) /\ Exists(k) /\ id = k
        <5>1. ~Exists(<<r, "extract">>)' /\ Exists(<<r, "resolve_keys">>)' /\ id[2] = "resolve_keys"
          BY <1>3, <2>2, <4>2
        <5> QED
          BY <1>5, <1>6, <2>2, <4>2, <5>1 DEF Carries, Resolving, OnResolved
      <4>3. CASE ~Exists(e) /\ ~Exists(k) /\ id \in {c, a}
        <5>1. Unbegun(r)'
          BY <1>3, <2>2, <4>3 DEF Unbegun
        <5>2. id[2] \in Singletons /\ id[1] = d
          BY <2>2, <4>3 DEF Singletons
        <5>3. WillList(t, request[r].doc)'
          BY <1>4, <1>5, <1>6, <2>1, <5>2 DEF WillList, Listing, OnRegistered, RegistersAt
        <5> QED
          BY <5>1, <5>3, CarriesUnbegun
      <4> QED
        BY <3>1, <4>1, <4>2, <4>3
    <3> QED
      BY <1>0, <1>6, <3>2, CaredBy
  <2> QED
    BY <2>5, <2>6
<1>12. \A u \in Thread : u = thread[p] => \A r \in Requests : ~Carries(u, r)'
  BY <1>0, CarriesAt
<1> QED
  BY <1>0, <1>6, <1>7, <1>8, <1>9, <1>10, <1>11, <1>12, WakeStep


\* A callback that reports "processing" or "failed" leaves the task as a task to
\* wait for; the handler of a failure is on its way to fail the requests.
LEMMA WakeNotCompleted ==
    ASSUME IInv, Wakeful, TypeOK', NEW p \in Threads, NEW id \in TaskIds, Exists(id),
           NEW s \in {"processing", "failed"}, HandleStatusUpdate(p, id, s, "NULL")
    PROVE  Wakeful'
<1>0. /\ thread \in [Threads -> Thread] /\ thread[p] \in Thread /\ task \in [TaskIds -> Task]
      /\ thread[p].pc = "idle" /\ UNCHANGED <<request, artifact>>
  BY DEF HandleStatusUpdate, IInv, TypeOK
<1>1. PICK x \in Payloads : x = task[id].payload /\ x = Coalesce("NULL", task[id].payload)
  BY <1>0 DEF Coalesce, Task
<1>2. /\ task'[id].status = s /\ task'[id].payload = task[id].payload
      /\ \A y \in TaskIds : y # id => task'[y] = task[y]
  <2>1. task' = [task EXCEPT ![id].status = s, ![id].payload = x] /\ s \in TaskStatuses
    BY <1>1 DEF HandleStatusUpdate, TaskStatuses, Active
  <2>2. x \in Payloads
    BY <1>1
  <2>3. /\ task'[id].status = s /\ task'[id].payload = x
        /\ \A y \in TaskIds : y # id => task'[y] = task[y]
    BY <1>0, <2>1, <2>2 DEF Task
  <2> QED
    BY <1>1, <2>3
<1>3. Fixed /\ Steady
  <2>1. \A d \in Docs : \A m \in Singletons : <<d, m>> \in TaskIds
    BY DEF TaskIds
  <2>2. \A d \in Docs : \A m \in Singletons :
           Fruitless(<<d, m>>) /\ task'[<<d, m>>].status = "completed" => Fruitless(<<d, m>>)'
    BY <1>0, <1>2, <2>1 DEF Fruitless, TextOf
  <2> QED
    BY <1>0, <1>2, <2>2 DEF Fixed, Steady, Exists
<1>4. PayloadsTexted
  <2>1. \A d \in Docs : \A m \in Singletons : <<d, m>> \in TaskIds
    BY DEF TaskIds
  <2> QED
    BY <1>2, <2>1 DEF PayloadsTexted
<1>5. PICK pc \in {"idle", "listFail", "failRequest"} : pc = Branch(id[2], s, x)
  <2>1. id[2] \in Singletons \cup PerRequest
    BY DEF TaskIds
  <2>2. CASE s = "processing"
    BY <2>2 DEF Branch
  <2>3. CASE s = "failed" /\ id[2] \in Singletons
    BY <2>3 DEF Branch
  <2>4. CASE s = "failed" /\ id[2] \in PerRequest
    BY <2>4 DEF Branch, Singletons, PerRequest
  <2> QED
    BY <2>1, <2>2, <2>3, <2>4
<1>6. PICK t \in Thread : /\ thread' = [thread EXCEPT ![p] = t]
                          /\ t.pc \in {"idle", "listFail", "failRequest"}
  <2>1. CASE pc = "idle"
    BY <1>0, <1>1, <1>5, <2>1 DEF HandleStatusUpdate
  <2>2. CASE pc # "idle"
    <3>1. PICK t : t = [IdleThread EXCEPT !.pc = pc, !.task = id, !.payload = x, !.doc = DocOf(id)]
      OBVIOUS
    <3>2. DocOf(id) \in Docs
      <4>1. CASE id \in Docs \X Singletons
        BY <4>1 DEF DocOf, Singletons
      <4>2. CASE id \in Requests \X PerRequest
        BY <4>2, TaskRequest DEF DocOf, Singletons, PerRequest
      <4> QED
        BY <4>1, <4>2 DEF TaskIds
    <3>3. t \in Thread /\ t.pc = pc
      BY <1>1, <1>5, <3>1, <3>2 DEF IdleThread, Thread, Pcs
    <3>4. thread' = [thread EXCEPT ![p] = t]
      BY <1>1, <1>5, <2>2, <3>1 DEF HandleStatusUpdate
    <3> QED
      BY <1>5, <3>3, <3>4
  <2> QED
    BY <2>1, <2>2
<1>7. HandsOn(p, t)
  <2>1. Handling(t)' /\ \A m \in Singletons : thread[p].pc # RegistersAt(m)
    BY <1>0, <1>6 DEF Handling, Publishing, RegistersAt
  <2>2. \A u \in Thread : u = thread[p] => \A r \in Requests : ~Carries(u, r)'
    BY <1>0, CarriesAt
  <2> QED
    BY <1>0, <1>6, <2>1, <2>2 DEF HandsOn
<1> QED
  BY <1>3, <1>4, <1>7, SteadyStep

\* First and repeated answers.
LEMMA WakeWorker ==
    ASSUME IInv, Wakeful, TypeOK', NEW p \in Threads, NEW m \in queue \cup answered,
           (m \in queue /\ WorkerAnswer(p, m)) \/ WorkerRepeat(p, m)
    PROVE  Wakeful'
<1>1. m.task \in TaskIds /\ Exists(m.task)
  BY DEF IInv, TypeOK, Message, TablesOK, Messages
<1>2. ASSUME NEW x \in Results(m.task),
             HandleStatusUpdate(p, m.task, "completed", x)
      PROVE  Wakeful'
  BY <1>1, <1>2, WakeCompleted
<1>3. ASSUME NEW s \in {"processing", "failed"}, HandleStatusUpdate(p, m.task, s, "NULL")
      PROVE  Wakeful'
  BY <1>1, <1>3, WakeNotCompleted
<1> QED
  BY <1>2, <1>3 DEF WorkerAnswer, WorkerRepeat

\* A step of nobody's: the handlers and the requests are as before.
LEMMA WakeOutside ==
    ASSUME IInv, Wakeful, TypeOK', UNCHANGED <<thread, request, artifact>>, Fixed, Steady,
           \A d \in Docs : \A m \in Singletons : task'[<<d, m>>].payload = task[<<d, m>>].payload
    PROVE  Wakeful'
<1>0. /\ TypeOK
      /\ \A q \in Threads : thread[q] \in Thread /\ ThreadOK(thread[q]) /\ Handling(thread[q])
  BY DEF IInv, TypeOK, ThreadsOK, Wakeful
<1>1. Fresh
  BY <1>0, WaitsKept DEF Fresh
<1>2. Awake'
  <2> SUFFICES ASSUME NEW r \in Requests, request[r].status \in InFlight PROVE Cared(r)'
    BY DEF Awake
  <2>1. request[r].doc \in Docs
    BY DEF IInv, TablesOK, RequestRows, InFlight
  <2>2. CASE Tasked(r)
    BY <1>0, <2>1, <2>2, TaskedKept DEF Cared
  <2>3. CASE Barren(r) /\ ~\E q \in Threads : Carries(thread[q], r)
    BY <1>0, <2>1, <2>3, BarrenKept DEF Cared
  <2>4. ASSUME NEW q \in Threads, Carries(thread[q], r) PROVE Cared(r)'
    <3>1. PICK u \in Thread : u = thread[q] /\ u = thread'[q] /\ ThreadOK(u) /\ Carries(u, r)
      BY <1>0, <2>4
    <3>2. Carries(u, r)' \/ Tasked(r)'
      BY <1>1, <2>1, <3>1, CarriesKept
    <3>3. Carries(u, r)' => Carries(thread[q], r)'
      BY <3>1
    <3> QED
      BY <3>2, <3>3 DEF Cared
  <2> QED
    BY <2>2, <2>3, <2>4 DEF Wakeful, Awake, Cared
<1>3. RowsTexted'
  <2>1. \A d \in Docs : \A m \in Singletons : <<d, m>> \in TaskIds
    BY DEF TaskIds
  <2>2. ASSUME NEW d \in Docs, NEW m \in Singletons
        PROVE  /\ task'[<<d, m>>].payload \in Useless \cup {"raw", "final"}
               /\ task'[<<d, m>>].payload = "final" => TextFor(m) \in artifact'[d]
               /\ task'[<<d, m>>].status = "completed" /\ TextFor(m) \notin artifact'[d] =>
                     \/ task'[<<d, m>>].payload \in Useless
                     \/ \E p \in Threads : thread'[p].pc = RegistersAt(m) /\ thread'[p].doc = d
    BY <2>1 DEF Wakeful, RowsTexted, Steady
  <2> QED
    BY <2>2 DEF RowsTexted, TextFor, RegistersAt, Useless
<1>4. \A q \in Threads : Handling(thread[q])'
  <2> SUFFICES ASSUME NEW q \in Threads PROVE Handling(thread[q])'
    OBVIOUS
  <2>1. PICK u \in Thread : u = thread[q] /\ u = thread'[q] /\ ThreadOK(u) /\ Handling(u)
    BY <1>0
  <2>2. u.pc \in Publishing => u.made \in TaskIds /\ Waits(u.made)
    BY <2>1 DEF ThreadOK, Called, Publishing, OnMade, Handling
  <2>3. u.pc \in Publishing => Waits(u.made)'
    BY <1>0, <2>2, WaitsKept
  <2>4. Handling(u)'
    BY <2>1, <2>3, HandlingKept
  <2> QED
    BY <2>1, <2>4
<1> QED
  BY <1>2, <1>3, <1>4 DEF Wakeful

\* The watchdog leaves a task that is pending or failed.
LEMMA WakeWatchdog ==
    ASSUME IInv, Wakeful, TypeOK', NEW id \in TaskIds, WatchdogRequeue(id) \/ WatchdogFail(id)
    PROVE  Wakeful'
<1>0. UNCHANGED <<thread, request, artifact>> /\ task \in [TaskIds -> Task] /\ Exists(id)
  BY DEF WatchdogRequeue, WatchdogFail, CanBeStale, Exists, Active, IInv, TypeOK
<1>1. /\ task'[id].status \in {"pending", "failed"}
      /\ task'[id].payload = task[id].payload
      /\ \A y \in TaskIds : y # id => task'[y] = task[y]
  BY <1>0 DEF WatchdogRequeue, WatchdogFail, Task
<1>2. \A d \in Docs : \A m \in Singletons : task'[<<d, m>>].payload = task[<<d, m>>].payload
  <2>1. \A d \in Docs : \A m \in Singletons : <<d, m>> \in TaskIds
    BY DEF TaskIds
  <2> QED
    BY <1>1, <2>1
<1>3. Fixed /\ Steady
  <2>1. \A d \in Docs : \A m \in Singletons :
           Fruitless(<<d, m>>) /\ task'[<<d, m>>].status = "completed" => Fruitless(<<d, m>>)'
    BY <1>0, <1>2 DEF Fruitless, TextOf
  <2> QED
    BY <1>0, <1>1, <2>1 DEF Fixed, Steady, Exists
<1> QED
  BY <1>0, <1>2, <1>3, WakeOutside

-----------------------------------------------------------------------------
(* Who hears of a failure *)

\* No task fails.
NoFailure == \A id \in TaskIds : task'[id].status = "failed" => task[id].status = "failed"

\* A step of handler p that fails no task and leaves the other handlers alone.
Mute(p) ==
    /\ Fixed
    /\ NoFailure
    /\ stranded' = stranded
    /\ \A q \in Threads : q # p => thread'[q] = thread[q]
    /\ thread'[p].pc \in Publishing => task'[thread'[p].made].status # "failed"

\* A failed task that a request waits for is one it waited for before.
LEMMA FailedBefore ==
    ASSUME Fixed, NoFailure, NEW r \in Requests, request[r].doc \in Docs,
           NEW id, id \in Wakers(r)', task'[id].status = "failed"
    PROVE  id \in Wakers(r) /\ task[id].status = "failed"
<1>1. PICK d \in Docs : /\ d = request[r].doc /\ d = request'[r].doc
                        /\ request'[r].anonymize = request[r].anonymize
  BY DEF Fixed
<1>2. PICK e \in TaskIds, k \in TaskIds : e = <<r, "extract">> /\ k = <<r, "resolve_keys">>
  BY RequestTaskIds
<1>3. /\ Exists(e) => Exists(e)'
      /\ Exists(k) => Exists(k)'
  BY <1>2 DEF Fixed
<1>4. /\ Exists(e)' => id = e
      /\ ~Exists(e)' /\ Exists(k)' => id = k
      /\ ~Exists(e)' /\ ~Exists(k)' => id \in Prerequisites(d, request[r].anonymize)
  BY <1>1, <1>2 DEF Wakers, Prerequisites
<1>5. Prerequisites(d, request[r].anonymize) \subseteq TaskIds
  BY DocTaskIds DEF Prerequisites
<1>6. id \in TaskIds /\ task[id].status = "failed" /\ Exists(id)
  BY <1>2, <1>4, <1>5 DEF NoFailure, Exists
<1> QED
  BY <1>1, <1>2, <1>3, <1>4, <1>6 DEF Wakers

\* Told after such a step: the handler still tells whom it told.
LEMMA MuteStep ==
    ASSUME IInv, Told, Unfailed, NEW p \in Threads, Mute(p),
           \A r \in Requests : request'[r].status \in InFlight /\ request[r].status \notin InFlight =>
               \A id \in Wakers(r)' : task'[id].status # "failed",
           \A r \in Requests : /\ request'[r].status \in InFlight /\ request[r].status \in InFlight
                               /\ Tells(thread[p], r)
                               => Tells(thread[p], r)'
    PROVE  Told' /\ Unfailed'
<1>1. Told'
  <2> SUFFICES ASSUME NEW r \in Requests, request'[r].status \in InFlight,
                      NEW id, id \in Wakers(r)', task'[id].status = "failed"
               PROVE  <<r, id>> \in stranded' \/ \E q \in Threads : Tells(thread[q], r)'
    BY DEF Told
  <2>1. request[r].status \in InFlight
    OBVIOUS
  <2>2. request[r].doc \in Docs
    BY <2>1 DEF IInv, TablesOK, RequestRows, InFlight
  <2>3. id \in Wakers(r) /\ task[id].status = "failed"
    BY <2>2, FailedBefore DEF Mute
  <2>4. CASE <<r, id>> \in stranded
    BY <2>4 DEF Mute
  <2>5. ASSUME NEW q \in Threads, Tells(thread[q], r) PROVE Tells(thread[q], r)'
    <3>1. CASE q = p
      BY <2>1, <2>5, <3>1
    <3>2. CASE q # p
      <4>1. thread'[q] = thread[q] /\ request'[r].doc = request[r].doc
        BY <2>2, <3>2 DEF Mute, Fixed
      <4> QED
        BY <2>5, <4>1 DEF Tells
    <3> QED
      BY <3>1, <3>2
  <2> QED
    BY <2>1, <2>3, <2>4, <2>5 DEF Told
<1>2. Unfailed'
  <2> SUFFICES ASSUME NEW q \in Threads, thread'[q].pc \in Publishing, q # p
               PROVE  task'[thread'[q].made].status # "failed"
    BY DEF Unfailed, Mute
  <2>1. thread'[q] = thread[q]
    BY DEF Mute
  <2>2. thread[q].made \in TaskIds
    BY <2>1 DEF IInv, ThreadsOK, ThreadOK, Called, Publishing, OnMade
  <2> QED
    BY <2>1, <2>2 DEF Mute, NoFailure, Unfailed
<1> QED
  BY <1>1, <1>2

\* The handler that tells nobody.
LEMMA SilentTold ==
    ASSUME IInv, Told, Unfailed, NEW p \in Threads, Mute(p),
           thread[p].pc \notin {"listFail", "failLoop", "failRequest"},
           \A r \in Requests : request'[r].status \in InFlight => request[r].status \in InFlight
    PROVE  Told' /\ Unfailed'
<1>1. \A r \in Requests : ~Tells(thread[p], r)
  BY DEF Tells
<1> QED
  BY <1>1, MuteStep

\* The steps that write no row of document_tasks and insert none.
LEMMA MuteNoTask ==
    ASSUME IInv, NEW p \in Threads, UNCHANGED <<task, stranded>>,
           \A d \in Docs : artifact[d] \subseteq artifact'[d],
           \A r \in Requests : request[r].doc \in Docs =>
               request'[r].doc = request[r].doc /\ request'[r].anonymize = request[r].anonymize,
           NEW t, t.pc \notin Publishing, thread' = [thread EXCEPT ![p] = t]
    PROVE  Mute(p)
<1>1. thread \in [Threads -> Thread]
  BY DEF IInv, TypeOK
<1> QED
  BY <1>1 DEF Mute, Fixed, NoFailure, Exists

\* The steps of a handler that write neither a task nor the status of a request.
LEMMA ToldQuiet ==
    ASSUME IInv, Told, Unfailed, NEW p \in Threads,
           \/ RegisterConvert(p) \/ RegisterAnonymize(p) \/ RegisterEntities(p)
           \/ ListProgress(p) \/ Progress(p) \/ Publish(p)
           \/ UpsertKeys(p) \/ SaveSchema(p) \/ FindTarget(p) \/ Persist(p)
    PROVE  Told' /\ Unfailed'
<1>0. /\ thread \in [Threads -> Thread] /\ thread[p] \in Thread
      /\ request \in [Requests -> Request] /\ artifact \in [Docs -> SUBSET Kinds]
  BY DEF IInv, TypeOK
<1>1. /\ UNCHANGED <<task, stranded>>
      /\ \A d \in Docs : artifact[d] \subseteq artifact'[d]
      /\ \A r \in Requests : /\ request'[r].doc = request[r].doc
                             /\ request'[r].anonymize = request[r].anonymize
                             /\ request'[r].status = request[r].status
      /\ thread[p].pc \notin {"listFail", "failLoop", "failRequest"}
  <2>1. CASE RegisterConvert(p) \/ RegisterAnonymize(p) \/ RegisterEntities(p)
    BY <1>0, <2>1 DEF RegisterConvert, RegisterAnonymize, RegisterEntities, auxiliary
  <2>2. CASE ListProgress(p) \/ Progress(p) \/ Publish(p)
    BY <2>2 DEF ListProgress, Progress, Publish, auxiliary, tables
  <2>3. CASE UpsertKeys(p) \/ FindTarget(p) \/ Persist(p)
    BY <2>3 DEF UpsertKeys, FindTarget, Persist, auxiliary, tables
  <2>4. CASE SaveSchema(p)
    BY <1>0, <2>4 DEF SaveSchema, auxiliary, Request
  <2> QED
    BY <2>1, <2>2, <2>3, <2>4
<1>2. PICK t : t.pc \notin Publishing /\ thread' = [thread EXCEPT ![p] = t]
  <2>1. ASSUME NEW x \in Pcs \ Publishing, Goto(p, x)
        PROVE  \E t : t.pc \notin Publishing /\ thread' = [thread EXCEPT ![p] = t]
    <3>1. [thread[p] EXCEPT !.pc = x].pc = x
      BY <1>0 DEF Thread
    <3>2. thread' = [thread EXCEPT ![p] = [thread[p] EXCEPT !.pc = x]]
      BY <1>0, <2>1 DEF Goto
    <3> QED
      BY <3>1, <3>2
  <2>2. CASE RegisterConvert(p) \/ RegisterAnonymize(p) \/ RegisterEntities(p)
    BY <2>1, <2>2 DEF RegisterConvert, RegisterAnonymize, RegisterEntities, Pcs, Publishing
  <2>3. CASE UpsertKeys(p) \/ SaveSchema(p) \/ FindTarget(p) \/ Persist(p)
    BY <2>1, <2>3 DEF UpsertKeys, SaveSchema, FindTarget, Persist, Pcs, Publishing
  <2>4. CASE ListProgress(p)
    <3>1. CASE PendingRequests(thread[p].doc) = {}
      BY <2>4, <3>1 DEF ListProgress, IdleThread, Publishing
    <3>2. CASE PendingRequests(thread[p].doc) # {}
      <4>1. PICK x : x = [thread[p] EXCEPT !.pc = "loop", !.todo = PendingRequests(thread[p].doc),
                                           !.made = None, !.after = "loop"]
        OBVIOUS
      <4>2. x.pc = "loop"
        BY <1>0, <4>1 DEF Thread
      <4> QED
        BY <2>4, <3>2, <4>1, <4>2 DEF ListProgress, Publishing
    <3> QED
      BY <3>1, <3>2
  <2>5. CASE Progress(p)
    <3>1. PICK q \in thread[p].todo, x \in {"createResolveKeys", "ensureAnonymize", "ensureConvert"} :
             thread' = [thread EXCEPT ![p] = [thread[p] EXCEPT
                    !.pc = x, !.req = q, !.todo = thread[p].todo \ {q}]]
      BY <2>5 DEF Progress
    <3>2. [thread[p] EXCEPT !.pc = x, !.req = q, !.todo = thread[p].todo \ {q}].pc = x
      BY <1>0 DEF Thread
    <3> QED
      BY <3>1, <3>2 DEF Publishing
  <2>6. CASE Publish(p)
    <3>1. CASE thread[p].after = "listProgress"
      BY <2>1, <2>6, <3>1 DEF Publish, AfterPublish, Pcs, Publishing
    <3>2. CASE thread[p].after # "listProgress"
      BY <1>0, <2>6, <3>2, LoopListed DEF Publish, AfterPublish, Publishing
    <3> QED
      BY <3>1, <3>2
  <2> QED
    BY <2>2, <2>3, <2>4, <2>5, <2>6
<1>3. Mute(p)
  BY <1>1, <1>2, MuteNoTask
<1> QED
  BY <1>1, <1>3, SilentTold

\* The steps that write the payload of a task.
LEMMA ToldPayload ==
    ASSUME IInv, Told, Unfailed, NEW p \in Threads, ConvertPayload(p) \/ AnonymizePayload(p)
    PROVE  Told' /\ Unfailed'
<1>0. thread \in [Threads -> Thread] /\ thread[p] \in Thread /\ task \in [TaskIds -> Task]
  BY DEF IInv, TypeOK
<1>1. /\ UpdateTaskResultPayload(thread[p].task, "final")
      /\ \E x \in {"triggerAnonymize", "listProgress"} : Goto(p, x)
      /\ UNCHANGED <<request, artifact, stranded>>
      /\ thread[p].pc \in {"convertPayload", "anonymizePayload"}
  BY DEF ConvertPayload, AnonymizePayload, auxiliary
<1>2. PICK id \in TaskIds : id = thread[p].task
  <2>1. thread[p].task \in Docs \X Singletons
    BY <1>1 DEF IInv, ThreadsOK, ThreadOK, Called, OnRegistered
  <2> QED
    BY <2>1 DEF TaskIds
<1>3. \A y \in TaskIds : task'[y].status = task[y].status
  BY <1>0, <1>1, <1>2, PayloadRow DEF Payloads
<1>4. /\ thread'[p].pc \notin Publishing
      /\ \A q \in Threads : q # p => thread'[q] = thread[q]
  BY <1>0, <1>1 DEF Goto, Thread, Publishing
<1>5. Mute(p)
  BY <1>1, <1>3, <1>4 DEF Mute, Fixed, NoFailure, Exists
<1> QED
  BY <1>1, <1>5, SilentTold

\* The steps that insert a task.
LEMMA ToldInsert ==
    ASSUME IInv, Told, Unfailed, NEW p \in Threads,
           \/ TriggerAnonymize(p) \/ EnsureConvert(p) \/ EnsureAnonymize(p)
           \/ CreateResolveKeys(p) \/ CreateExtract(p)
    PROVE  Told' /\ Unfailed'
<1>0. thread \in [Threads -> Thread] /\ thread[p] \in Thread /\ task \in [TaskIds -> Task] /\ TypeOK
  BY DEF IInv, TypeOK
<1>1. /\ UNCHANGED <<request, artifact, stranded>>
      /\ thread[p].pc \notin {"listFail", "failLoop", "failRequest"}
      /\ thread[p].pc \in {"triggerAnonymize", "ensureConvert", "ensureAnonymize",
                           "createResolveKeys", "createExtract"}
  BY DEF TriggerAnonymize, EnsureConvert, EnsureAnonymize, Ensure, CreateResolveKeys, CreateExtract, auxiliary
<1>2. ASSUME NEW id \in TaskIds, ~Exists(id), NEW in \in Kinds \cup {"original"}, InsertTask(id, in),
             NEW t, t.made = id, thread' = [thread EXCEPT ![p] = t]
      PROVE  Mute(p)
  <2>1. Fixed
    BY <1>0, <1>1, <1>2, TaskInserted
  <2>2. /\ task'[id] = [status |-> "pending", payload |-> "empty", input |-> in, retry_count |-> 0]
        /\ \A x \in TaskIds : x # id => task'[x] = task[x]
    BY <1>0, <1>2, InsertTaskRow
  <2>3. task'[id].status = "pending" /\ \A x \in TaskIds : x # id => task'[x] = task[x]
    BY <2>2
  <2>4. NoFailure
    BY <2>3 DEF NoFailure
  <2> QED
    BY <1>0, <1>1, <1>2, <2>1, <2>3, <2>4 DEF Mute
<1>3. ASSUME UNCHANGED task, NEW t, t.pc \notin Publishing, thread' = [thread EXCEPT ![p] = t]
      PROVE  Mute(p)
  BY <1>1, <1>3, MuteNoTask
<1>4. ASSUME UNCHANGED task, Loop(p) PROVE Mute(p)
  BY <1>0, <1>3, <1>4, LoopListed DEF Publishing
<1>5. ASSUME NEW id \in TaskIds, ~Exists(id), NEW in \in Kinds \cup {"original"}, InsertTask(id, in),
             NEW x \in Pcs, PublishNext(p, id, x)
      PROVE  Mute(p)
  BY <1>0, <1>2, <1>5, PublishNextThread
<1>6. ASSUME TriggerAnonymize(p) PROVE Mute(p)
  <2>1. thread[p].doc \in Docs
    BY <1>6, HasDoc DEF TriggerAnonymize
  <2>2. PICK id \in TaskIds : id = <<thread[p].doc, "anonymize">>
    BY <2>1, DocTaskIds
  <2>3. CASE Exists(id)
    <3>1. PICK t : t = [thread[p] EXCEPT !.pc = "listProgress"]
      OBVIOUS
    <3>2. t.pc = "listProgress"
      BY <1>0, <3>1 DEF Thread
    <3>3. thread' = [thread EXCEPT ![p] = t] /\ UNCHANGED task
      BY <1>0, <1>6, <2>2, <2>3, <3>1 DEF TriggerAnonymize, Goto
    <3> QED
      BY <1>3, <3>2, <3>3 DEF Publishing
  <2>4. CASE ~Exists(id)
    <3>1. PICK t : t = [thread[p] EXCEPT !.pc = "publish", !.made = id, !.after = "listProgress"]
      OBVIOUS
    <3>2. t.made = id
      BY <1>0, <3>1 DEF Thread
    <3>3. thread' = [thread EXCEPT ![p] = t] /\ InsertTask(id, "convert_md")
      BY <1>6, <2>2, <2>4, <3>1 DEF TriggerAnonymize
    <3> QED
      BY <1>2, <2>4, <3>2, <3>3 DEF Kinds
  <2> QED
    BY <2>3, <2>4
<1>7. ASSUME EnsureConvert(p) \/ EnsureAnonymize(p) PROVE Mute(p)
  <2>1. PICK m \in Singletons, in \in Kinds \cup {"original"} :
           IF Exists(<<thread[p].doc, m>>) THEN Loop(p) /\ UNCHANGED task
           ELSE InsertTask(<<thread[p].doc, m>>, in) /\ PublishNext(p, <<thread[p].doc, m>>, "publish")
    BY <1>7 DEF EnsureConvert, EnsureAnonymize, Ensure, Singletons, Kinds
  <2>2. thread[p].doc \in Docs
    BY <1>1, HasDoc
  <2>3. PICK id \in TaskIds : id = <<thread[p].doc, m>>
    BY <2>2 DEF TaskIds
  <2> QED
    BY <1>4, <1>5, <2>1, <2>3 DEF Pcs
<1>8. ASSUME CreateResolveKeys(p) PROVE Mute(p)
  <2>1. PICK q \in Requests : q = thread[p].req.id
    BY <1>0, <1>8 DEF CreateResolveKeys, IInv, ThreadsOK, ThreadOK, Called, OnRequest, Thread, Snapshot
  <2>2. PICK id \in TaskIds : id = <<q, "resolve_keys">>
    BY RequestTaskIds
  <2>3. Target(q) \in Kinds
    BY DEF Target, Kinds
  <2>4. CASE Exists(id)
    BY <1>4, <1>8, <2>1, <2>2, <2>4 DEF CreateResolveKeys
  <2>5. CASE ~Exists(id)
    <3>1. PICK x \in Pcs : PublishNext(p, id, x)
      BY <1>8, <2>1, <2>2, <2>5 DEF CreateResolveKeys, Pcs
    <3>2. InsertTask(id, Target(q))
      BY <1>8, <2>1, <2>2, <2>5 DEF CreateResolveKeys
    <3> QED
      BY <1>5, <2>3, <2>5, <3>1, <3>2
  <2> QED
    BY <2>4, <2>5
<1>9. ASSUME CreateExtract(p) PROVE Mute(p)
  <2>1. PICK q \in Requests : q = RequestOf(p)
    BY <1>0, <1>9 DEF CreateExtract, IInv, ThreadsOK, ThreadOK, Called, ResolvedKnown, OnResolved, RequestOf
  <2>2. PICK id \in TaskIds : id = <<q, "extract">>
    BY RequestTaskIds
  <2>3. Target(q) \in Kinds
    BY DEF Target, Kinds
  <2>4. CASE Exists(id)
    BY <1>0, <1>3, <1>9, <2>1, <2>2, <2>4, IdleOK DEF CreateExtract, Return, Publishing
  <2>5. CASE ~Exists(id)
    <3>1. InsertTask(id, Target(q)) /\ PublishNext(p, id, "publish")
      BY <1>9, <2>1, <2>2, <2>5 DEF CreateExtract
    <3> QED
      BY <1>5, <2>3, <2>5, <3>1 DEF Pcs
  <2> QED
    BY <2>4, <2>5
<1>10. Mute(p)
  BY <1>6, <1>7, <1>8, <1>9
<1> QED
  BY <1>1, <1>10, SilentTold

\* The requests of the document are listed to be failed, one after the other.
LEMMA ToldFailing ==
    ASSUME IInv, Told, Unfailed, NEW p \in Threads, ListFail(p) \/ FailLoop(p)
    PROVE  Told' /\ Unfailed'
<1>0. /\ thread \in [Threads -> Thread] /\ thread[p] \in Thread /\ ThreadOK(thread[p])
      /\ request \in [Requests -> Request]
  BY DEF IInv, TypeOK, ThreadsOK
<1>1. ASSUME ListFail(p) PROVE Told' /\ Unfailed'
  <2>0. thread[p].pc = "listFail" /\ UNCHANGED <<task, request, artifact, stranded>>
    BY <1>1 DEF ListFail, tables, auxiliary
  <2>1. PICK rows : rows = PendingRequests(thread[p].doc)
    OBVIOUS
  <2>2. ASSUME NEW r \in Requests, request[r].doc = thread[p].doc, request[r].status \in InFlight
        PROVE  \E q \in rows : q.id = r
    <3>1. [id |-> r, status |-> request[r].status] \in rows
      BY <2>1, <2>2 DEF PendingRequests
    <3> QED
      BY <3>1
  <2>3. PICK t : /\ thread' = [thread EXCEPT ![p] = t] /\ t.pc \notin Publishing
                 /\ rows # {} => t.pc = "failLoop" /\ t.todo = rows
    <3>1. CASE rows = {}
      BY <1>1, <2>1, <3>1 DEF ListFail, IdleThread, Publishing
    <3>2. CASE rows # {}
      <4>1. PICK x : x = [thread[p] EXCEPT !.pc = "failLoop", !.todo = rows]
        OBVIOUS
      <4>2. x.pc = "failLoop" /\ x.todo = rows
        BY <1>0, <4>1 DEF Thread
      <4>3. thread' = [thread EXCEPT ![p] = x]
        BY <1>1, <2>1, <3>2, <4>1 DEF ListFail
      <4> QED
        BY <4>2, <4>3 DEF Publishing
    <3> QED
      BY <3>1, <3>2
  <2>4. Mute(p)
    BY <2>0, <2>3, MuteNoTask
  <2>5. ASSUME NEW r \in Requests, request[r].status \in InFlight, Tells(thread[p], r)
        PROVE  Tells(thread[p], r)'
    <3>1. request[r].doc = thread[p].doc
      BY <2>0, <2>5 DEF Tells
    <3>2. thread'[p].pc = "failLoop" /\ thread'[p].todo = rows
      BY <1>0, <2>2, <2>3, <2>5, <3>1
    <3> QED
      BY <2>2, <2>5, <3>1, <3>2 DEF Tells
  <2> QED
    BY <2>0, <2>4, <2>5, MuteStep
<1>2. ASSUME FailLoop(p) PROVE Told' /\ Unfailed'
  <2>0. thread[p].pc = "failLoop" /\ UNCHANGED <<task, artifact, stranded>>
    BY <1>2 DEF FailLoop, auxiliary
  <2>1. PICK q \in thread[p].todo : SetExtractionRequestStatus(q.id, "failed") /\ DropRequest(p, q)
    BY <1>2 DEF FailLoop
  <2>2. q.id \in Requests
    BY <1>0, <2>1 DEF Thread, Snapshot
  <2>3. /\ request'[q.id].status = "failed"
        /\ \A r \in Requests : /\ request'[r].doc = request[r].doc
                               /\ request'[r].anonymize = request[r].anonymize
                               /\ r # q.id => request'[r] = request[r]
    BY <1>0, <2>1, <2>2, StatusRow DEF RequestStatuses
  <2>4. PICK t : /\ thread' = [thread EXCEPT ![p] = t] /\ t.pc \notin Publishing
                 /\ \A y \in thread[p].todo : y # q => t.pc = "failLoop" /\ y \in t.todo
    <3>1. CASE thread[p].todo = {q}
      BY <2>1, <3>1, IdleOK DEF DropRequest, Publishing
    <3>2. CASE thread[p].todo # {q}
      <4>1. PICK x : x = [thread[p] EXCEPT !.todo = thread[p].todo \ {q}]
        OBVIOUS
      <4>2. x.pc = "failLoop" /\ x.todo = thread[p].todo \ {q}
        BY <1>0, <2>0, <4>1 DEF Thread
      <4>3. thread' = [thread EXCEPT ![p] = x]
        BY <2>1, <3>2, <4>1 DEF DropRequest
      <4> QED
        BY <4>2, <4>3 DEF Publishing
    <3> QED
      BY <3>1, <3>2
  <2>5. Mute(p)
    BY <2>0, <2>3, <2>4, MuteNoTask
  <2>6. ASSUME NEW r \in Requests, request'[r].status \in InFlight, Tells(thread[p], r)
        PROVE  Tells(thread[p], r)'
    <3>1. PICK y \in thread[p].todo : y.id = r
      BY <2>0, <2>6 DEF Tells
    <3>2. y # q
      BY <2>3, <2>6, <3>1 DEF InFlight
    <3>3. thread'[p].pc = "failLoop" /\ y \in thread'[p].todo
      BY <1>0, <2>4, <3>2
    <3> QED
      BY <3>1, <3>3 DEF Tells
  <2>7. \A r \in Requests : request'[r].status \in InFlight => request[r].status \in InFlight
    BY <2>2, <2>3 DEF InFlight
  <2> QED
    BY <2>5, <2>6, <2>7, MuteStep
<1> QED
  BY <1>1, <1>2

\* A request that ends has been told.
LEMMA ToldEnd ==
    ASSUME IInv, Told, Unfailed, NEW p \in Threads, FailRequest(p) \/ Complete(p)
    PROVE  Told' /\ Unfailed'
<1>0. /\ thread \in [Threads -> Thread] /\ thread[p] \in Thread /\ ThreadOK(thread[p])
      /\ thread[p].pc \in {"failRequest", "complete"} /\ UNCHANGED <<task, artifact, stranded>> /\ Return(p)
  BY DEF FailRequest, Complete, IInv, TypeOK, ThreadsOK, auxiliary
<1>1. PICK q \in Requests, s \in {"failed", "completed"} :
         q = thread[p].task[1] /\ SetExtractionRequestStatus(q, s)
  BY <1>0 DEF FailRequest, Complete, RequestOf, ThreadOK, Called, OnExtracted
<1>2. /\ request'[q].status = s
      /\ \A r \in Requests : /\ request'[r].doc = request[r].doc
                             /\ request'[r].anonymize = request[r].anonymize
                             /\ r # q => request'[r] = request[r]
  BY <1>1, StatusRow DEF IInv, TypeOK, RequestStatuses
<1>3. Mute(p)
  BY <1>0, <1>2, IdleOK, MuteNoTask DEF Return, Publishing
<1>4. \A r \in Requests : request'[r].status \in InFlight => request[r].status \in InFlight /\ r # q
  BY <1>1, <1>2 DEF InFlight
<1>5. \A r \in Requests : Tells(thread[p], r) => r = q
  BY <1>0, <1>1 DEF Tells
<1> QED
  BY <1>3, <1>4, <1>5, MuteStep

\* A request is opened again with a task that nobody could fail yet.
LEMMA ToldSetRunning ==
    ASSUME IInv, Wakeful, Told, Unfailed, NEW p \in Threads, SetRunning(p)
    PROVE  Told' /\ Unfailed'
<1>0. /\ thread \in [Threads -> Thread] /\ thread[p] \in Thread /\ ThreadOK(thread[p])
      /\ thread[p].pc = "setRunning" /\ UNCHANGED <<task, artifact, stranded>>
  BY DEF SetRunning, IInv, TypeOK, ThreadsOK, auxiliary
<1>1. /\ thread[p].req # None
      /\ thread[p].made = <<thread[p].req.id, "resolve_keys">>
      /\ Waits(thread[p].made) /\ Secret(p, thread[p].made)
      /\ task[thread[p].made].status # "failed"
  BY <1>0 DEF ThreadOK, Called, OnRequest, Wakeful, Handling, Publishing, IInv, Unpublished, Unfailed
<1>2. PICK q \in Requests : q = thread[p].req.id
  BY <1>0, <1>1 DEF Thread, Snapshot
<1>3. \A r \in Requests : /\ request'[r].doc = request[r].doc
                          /\ request'[r].anonymize = request[r].anonymize
                          /\ r # q => request'[r] = request[r]
  BY <1>2, StatusRow DEF SetRunning, IInv, TypeOK, RequestStatuses, InFlight
<1>4. /\ thread'[p].made = thread[p].made
      /\ \A y \in Threads : y # p => thread'[y] = thread[y]
  BY <1>0 DEF SetRunning, Goto, Thread
<1>5. Mute(p)
  BY <1>0, <1>1, <1>3, <1>4 DEF Mute, Fixed, NoFailure, Exists
<1>6. \A id \in Wakers(q)' : task'[id].status # "failed"
  <2>1. ~Exists(<<q, "extract">>)' /\ Exists(<<q, "resolve_keys">>)'
    BY <1>0, <1>1, <1>2 DEF Waits, Secret, Exists
  <2>2. Wakers(q)' = {<<q, "resolve_keys">>}
    BY <2>1 DEF Wakers
  <2> QED
    BY <1>0, <1>1, <1>2, <2>2
<1>7. \A r \in Requests : ~Tells(thread[p], r)
  BY <1>0 DEF Tells
<1>8. \A r \in Requests : r # q => request'[r].status = request[r].status
  BY <1>3
<1> QED
  BY <1>5, <1>6, <1>7, <1>8, MuteStep

\* A request that is made on a task that has failed is noted.
LEMMA ToldInitiate ==
    ASSUME IInv, Told, Unfailed, NEW p \in Threads, NEW q \in Requests, NEW d \in Docs, NEW a \in BOOLEAN,
           Initiate(p, q, d, a)
    PROVE  Told' /\ Unfailed'
<1>0. /\ thread \in [Threads -> Thread] /\ request \in [Requests -> Request]
      /\ thread[p].pc = "idle" /\ request[q].status = "absent" /\ UNCHANGED <<task, artifact>>
      /\ request'[q].doc = d /\ request'[q].anonymize = a
      /\ \A r \in Requests : r # q => request'[r] = request[r]
      /\ stranded \subseteq stranded'
  BY DEF Initiate, IInv, TypeOK
<1>1. request[q].doc \notin Docs /\ Unbegun(q)
  <2>1. request[q].doc \notin Docs
    BY <1>0 DEF IInv, TablesOK, RequestRows
  <2> QED
    BY <2>1 DEF Unbegun, IInv, TablesOK, TaskRows, PerRequest
<1>2. /\ thread'[p].pc = "loop"
      /\ \A y \in Threads : y # p => thread'[y] = thread[y]
  BY <1>0 DEF Initiate, IdleThread
<1>3. Told'
  <2> SUFFICES ASSUME NEW r \in Requests, request'[r].status \in InFlight,
                      NEW id, id \in Wakers(r)', task'[id].status = "failed"
               PROVE  <<r, id>> \in stranded' \/ \E y \in Threads : Tells(thread[y], r)'
    BY DEF Told
  <2>1. CASE r = q
    <3>1. id \in Prerequisites(d, a)
      BY <1>0, <1>1, <2>1 DEF Wakers, Unbegun, Exists
    <3> QED
      BY <1>0, <2>1, <3>1 DEF Initiate
  <2>2. CASE r # q
    <3>1. request'[r] = request[r] /\ id \in Wakers(r) /\ task[id].status = "failed"
      BY <1>0, <2>2 DEF Wakers, Exists
    <3>2. CASE <<r, id>> \in stranded
      BY <1>0, <3>2
    <3>3. ASSUME NEW y \in Threads, Tells(thread[y], r) PROVE Tells(thread[y], r)'
      <4>1. y # p
        BY <1>0, <3>3 DEF Tells
      <4> QED
        BY <1>2, <3>1, <3>3, <4>1 DEF Tells
    <3> QED
      BY <3>1, <3>2, <3>3 DEF Told
  <2> QED
    BY <2>1, <2>2
<1>4. Unfailed'
  BY <1>0, <1>2 DEF Unfailed, Publishing
<1> QED
  BY <1>3, <1>4

\* POST /tasks inserts a pending task.
LEMMA ToldCreateConvert ==
    ASSUME IInv, Told, Unfailed, NEW p \in Threads, NEW d \in Docs, CreateConvert(p, d)
    PROVE  Told' /\ Unfailed'
<1>0. /\ thread \in [Threads -> Thread] /\ task \in [TaskIds -> Task] /\ TypeOK
      /\ thread[p].pc = "idle" /\ UNCHANGED <<request, artifact, stranded>>
  BY DEF CreateConvert, IInv, TypeOK, auxiliary
<1>1. PICK id \in TaskIds : id = <<d, "convert">> /\ ~Exists(id) /\ InsertTask(id, "original")
  BY DocTaskIds DEF CreateConvert
<1>2. Fixed
  BY <1>0, <1>1, TaskInserted
<1>3. /\ task'[id] = [status |-> "pending", payload |-> "empty", input |-> "original", retry_count |-> 0]
      /\ \A x \in TaskIds : x # id => task'[x] = task[x]
  BY <1>0, <1>1, InsertTaskRow
<1>4. task'[id].status = "pending"
  BY <1>3
<1>5. /\ thread'[p].made = id
      /\ \A y \in Threads : y # p => thread'[y] = thread[y]
  BY <1>0, <1>1 DEF CreateConvert, IdleThread
<1>6. Mute(p)
  BY <1>0, <1>2, <1>3, <1>4, <1>5 DEF Mute, NoFailure
<1> QED
  BY <1>0, <1>6, SilentTold

\* What a request waits for, when rows come and go nowhere.
LEMMA SameWakers ==
    ASSUME NEW r \in Requests, request' = request, \A id \in TaskIds : Exists(id)' <=> Exists(id)
    PROVE  Wakers(r)' = Wakers(r)
<1>1. /\ Exists(<<r, "extract">>)' <=> Exists(<<r, "extract">>)
      /\ Exists(<<r, "resolve_keys">>)' <=> Exists(<<r, "resolve_keys">>)
  BY RequestTaskIds
<1> QED
  BY <1>1 DEF Wakers

\* A reported failure has a handler that tells everybody who waits.
LEMMA ToldCallback ==
    ASSUME IInv, Told, Unfailed, NEW p \in Threads, NEW id \in TaskIds, Exists(id),
           \E m \in queue \cup answered : id = m.task,
           NEW s \in {"processing", "completed", "failed"}, NEW new \in Payloads \cup {"NULL"},
           HandleStatusUpdate(p, id, s, new), stranded' = stranded
    PROVE  Told' /\ Unfailed'
<1>0. /\ thread \in [Threads -> Thread] /\ task \in [TaskIds -> Task]
      /\ thread[p].pc = "idle" /\ UNCHANGED <<request, artifact>>
      /\ id[2] \in Singletons \cup PerRequest
  BY DEF HandleStatusUpdate, IInv, TypeOK, TaskIds
<1>1. PICK x \in Payloads : x = Coalesce(new, task[id].payload)
  BY <1>0 DEF Coalesce, Task
<1>2. /\ task'[id].status = s
      /\ \A y \in TaskIds : y # id => task'[y] = task[y]
  <2>1. s \in TaskStatuses
    BY DEF TaskStatuses, Active
  <2>2. task' = [task EXCEPT ![id].status = s, ![id].payload = x]
    BY <1>1 DEF HandleStatusUpdate
  <2> QED
    BY <1>0, <2>1, <2>2 DEF Task
<1>3. \A y \in TaskIds : Exists(y)' <=> Exists(y)
  BY <1>2 DEF Exists
<1>4. PICK pc : pc = Branch(id[2], s, x) /\ pc \notin Publishing
  <2>1. Branch(id[2], s, x) \notin Publishing
    BY <1>0, BranchValue DEF Publishing
  <2> QED
    BY <2>1
<1>5. /\ pc = "idle" => thread' = thread
      /\ pc # "idle" => /\ thread'[p].pc = pc /\ thread'[p].task = id /\ thread'[p].doc = DocOf(id)
                        /\ \A q \in Threads : q # p => thread'[q] = thread[q]
  <2>1. CASE pc = "idle"
    BY <1>1, <1>4, <2>1 DEF HandleStatusUpdate
  <2>2. CASE pc # "idle"
    <3>1. thread' = [thread EXCEPT ![p] = [IdleThread EXCEPT !.pc = pc, !.task = id, !.payload = x, !.doc = DocOf(id)]]
      BY <1>1, <1>4, <2>2 DEF HandleStatusUpdate
    <3> QED
      BY <1>0, <2>2, <3>1 DEF IdleThread
  <2> QED
    BY <2>1, <2>2
<1>6. thread'[p].pc \notin Publishing /\ \A q \in Threads : q # p => thread'[q] = thread[q]
  BY <1>0, <1>4, <1>5 DEF Publishing
<1>7. CASE s # "failed"
  <2>1. Mute(p)
    BY <1>0, <1>2, <1>3, <1>6, <1>7 DEF Mute, Fixed, NoFailure
  <2> QED
    BY <1>0, <2>1, SilentTold
<1>8. CASE s = "failed"
  <2>1. pc = IF id[2] \in Singletons THEN "listFail" ELSE "failRequest"
    BY <1>0, <1>4, <1>8 DEF Branch, Singletons, PerRequest
  <2>2. Told'
    <3> SUFFICES ASSUME NEW r \in Requests, request[r].status \in InFlight,
                        NEW y, y \in Wakers(r)', task'[y].status = "failed"
                 PROVE  <<r, y>> \in stranded \/ \E q \in Threads : Tells(thread[q], r)'
      BY <1>0 DEF Told
    <3>1. y \in Wakers(r) /\ request[r].doc \in Docs
      BY <1>0, <1>3, SameWakers DEF IInv, TablesOK, RequestRows, InFlight
    <3>2. y \in TaskIds
      BY <3>1, RequestTaskIds, DocTaskIds DEF Wakers, Prerequisites
    <3>3. CASE y = id
      <4>1. CASE id[2] \in Singletons
        <5>1. id[1] = request[r].doc
          BY <3>1, <3>3, <4>1 DEF Wakers, Prerequisites, Singletons
        <5>2. thread'[p].pc = "listFail" /\ thread'[p].doc = request'[r].doc
          BY <1>0, <1>5, <2>1, <4>1, <5>1 DEF DocOf
        <5> QED
          BY <5>2 DEF Tells
      <4>2. CASE id[2] \notin Singletons
        <5>1. id[1] = r
          BY <3>1, <3>3, <4>2 DEF Wakers, Prerequisites, Singletons
        <5>2. thread'[p].pc = "failRequest" /\ thread'[p].task[1] = r
          BY <1>5, <2>1, <4>2, <5>1
        <5> QED
          BY <5>2 DEF Tells
      <4> QED
        BY <4>1, <4>2
    <3>4. CASE y # id
      <4>1. task[y].status = "failed"
        BY <1>2, <3>2, <3>4
      <4>2. ASSUME NEW q \in Threads, Tells(thread[q], r) PROVE Tells(thread[q], r)'
        <5>1. q # p
          BY <1>0, <4>2 DEF Tells
        <5> QED
          BY <1>0, <1>6, <4>2, <5>1 DEF Tells
      <4> QED
        BY <3>1, <4>1, <4>2 DEF Told
    <3> QED
      BY <3>3, <3>4
  <2>3. Unfailed'
    <3> SUFFICES ASSUME NEW q \in Threads, thread'[q].pc \in Publishing
                 PROVE  task'[thread'[q].made].status # "failed"
      BY DEF Unfailed
    <3>1. q # p /\ thread'[q] = thread[q]
      BY <1>6
    <3>2. thread[q].made \in TaskIds /\ Secret(q, thread[q].made)
      BY <3>1 DEF IInv, ThreadsOK, ThreadOK, Called, Publishing, OnMade, Unpublished
    <3>3. thread[q].made # id
      BY <3>2 DEF Secret
    <3> QED
      BY <1>2, <3>1, <3>2, <3>3 DEF Unfailed
  <2> QED
    BY <2>2, <2>3
<1> QED
  BY <1>7, <1>8

\* First and repeated answers.
LEMMA ToldWorker ==
    ASSUME IInv, Told, Unfailed, NEW p \in Threads, NEW m \in queue \cup answered,
           (m \in queue /\ WorkerAnswer(p, m)) \/ WorkerRepeat(p, m)
    PROVE  Told' /\ Unfailed'
<1>1. m.task \in TaskIds /\ Exists(m.task) /\ stranded' = stranded
  BY DEF IInv, TypeOK, Message, TablesOK, Messages, WorkerAnswer, WorkerRepeat, auxiliary
<1>2. Results(m.task) \subseteq Payloads \cup {"NULL"}
  BY DEF Results, Payloads, Useless
<1>3. PICK s \in {"processing", "completed", "failed"}, x \in Payloads \cup {"NULL"} :
         HandleStatusUpdate(p, m.task, s, x)
  BY <1>2 DEF WorkerAnswer, WorkerRepeat
<1> QED
  BY <1>1, <1>3, ToldCallback

\* The watchdog tells nobody: those who waited for what it gives up are noted.
LEMMA ToldWatchdog ==
    ASSUME IInv, Told, Unfailed, NEW id \in TaskIds, WatchdogRequeue(id) \/ WatchdogFail(id)
    PROVE  Told' /\ Unfailed'
<1>0. /\ UNCHANGED <<thread, request, artifact>> /\ task \in [TaskIds -> Task] /\ Exists(id)
      /\ \A p \in Threads : thread[p].made # id
  BY DEF WatchdogRequeue, WatchdogFail, CanBeStale, Exists, Active, IInv, TypeOK
<1>1. /\ task'[id].status \in {"pending", "failed"}
      /\ \A y \in TaskIds : y # id => task'[y] = task[y]
      /\ stranded \subseteq stranded'
  BY <1>0 DEF WatchdogRequeue, WatchdogFail, Task
<1>2. \A y \in TaskIds : Exists(y)' <=> Exists(y)
  BY <1>0, <1>1 DEF Exists
<1>3. Told'
  <2> SUFFICES ASSUME NEW r \in Requests, request[r].status \in InFlight,
                      NEW y, y \in Wakers(r)', task'[y].status = "failed"
               PROVE  <<r, y>> \in stranded' \/ \E q \in Threads : Tells(thread[q], r)'
    BY <1>0 DEF Told
  <2>1. y \in Wakers(r) /\ request[r].doc \in Docs
    BY <1>0, <1>2, SameWakers DEF IInv, TablesOK, RequestRows, InFlight
  <2>2. y \in TaskIds
    BY <2>1, RequestTaskIds, DocTaskIds DEF Wakers, Prerequisites
  <2>3. CASE y = id
    <3>1. WatchdogFail(id)
      BY <1>0, <2>3 DEF WatchdogRequeue, Task
    <3> QED
      BY <2>1, <2>3, <3>1 DEF WatchdogFail
  <2>4. CASE y # id
    <3>1. <<r, y>> \in stranded \/ \E q \in Threads : Tells(thread[q], r)
      BY <1>1, <2>1, <2>2, <2>4 DEF Told
    <3> QED
      BY <1>0, <1>1, <3>1 DEF Tells
  <2> QED
    BY <2>3, <2>4
<1>4. Unfailed'
  <2>1. \A q \in Threads : thread[q].pc \in Publishing => thread[q].made \in TaskIds
    BY DEF IInv, ThreadsOK, ThreadOK, Called, Publishing, OnMade
  <2> QED
    BY <1>0, <1>1, <2>1 DEF Unfailed
<1> QED
  BY <1>3, <1>4

\* Every step of a handler that meets no failure.
LEMMA ToldHandler ==
    ASSUME IInv, Wakeful, Told, Unfailed, NEW p \in Threads, HandlerStep(p)
    PROVE  Told' /\ Unfailed'
<1>1. CASE \/ RegisterConvert(p) \/ RegisterAnonymize(p) \/ RegisterEntities(p)
           \/ ListProgress(p) \/ Progress(p) \/ Publish(p)
           \/ UpsertKeys(p) \/ SaveSchema(p) \/ FindTarget(p) \/ Persist(p)
  BY <1>1, ToldQuiet
<1>2. CASE ConvertPayload(p) \/ AnonymizePayload(p)
  BY <1>2, ToldPayload
<1>3. CASE \/ TriggerAnonymize(p) \/ EnsureConvert(p) \/ EnsureAnonymize(p)
           \/ CreateResolveKeys(p) \/ CreateExtract(p)
  BY <1>3, ToldInsert
<1>4. CASE ListFail(p) \/ FailLoop(p) \/ FailRequest(p) \/ Complete(p) \/ SetRunning(p)
  BY <1>4, ToldFailing, ToldEnd, ToldSetRunning
<1>5. CASE MarkTaskFailed(p) \/ MarkRequestFailed(p)
  BY <1>5 DEF MarkTaskFailed, MarkRequestFailed, Wakeful, Handling
<1> QED
  BY <1>1, <1>2, <1>3, <1>4, <1>5 DEF HandlerStep

-----------------------------------------------------------------------------
(* No lost wakeup *)

\* The initial state: no request.
LEMMA WakeInit == Init => Wakeful
<1> SUFFICES ASSUME Init PROVE Wakeful
  OBVIOUS
<1>1. Awake
  BY DEF Init, Awake, InFlight
<1>2. RowsTexted
  <2>1. \A d \in Docs : \A m \in Singletons : <<d, m>> \in TaskIds
    BY DEF TaskIds
  <2> QED
    BY <2>1 DEF Init, RowsTexted, Useless
<1>3. \A p \in Threads : thread[p].pc = "idle"
  BY IdleOK DEF Init
<1> QED
  BY <1>1, <1>2, <1>3 DEF Wakeful, Handling, Publishing

\* Every step of a handler that meets no failure.
LEMMA WakeHandler ==
    ASSUME IInv, Wakeful, TypeOK', NEW p \in Threads, HandlerStep(p)
    PROVE  Wakeful'
<1>1. CASE RegisterConvert(p) \/ RegisterAnonymize(p) \/ RegisterEntities(p)
  BY <1>1, WakeRegister
<1>2. CASE ConvertPayload(p) \/ AnonymizePayload(p) \/ TriggerAnonymize(p)
  BY <1>2, WakePayload, WakeTrigger
<1>3. CASE ListProgress(p) \/ ListFail(p) \/ Progress(p) \/ FailLoop(p) \/ FailRequest(p) \/ Complete(p)
  BY <1>3, WakeList, WakeProgress, WakeFailLoop, WakeEnd
<1>4. CASE EnsureConvert(p) \/ EnsureAnonymize(p) \/ CreateResolveKeys(p) \/ CreateExtract(p)
  BY <1>4, WakeEnsure, WakeCreateResolveKeys, WakeCreateExtract
<1>5. CASE SetRunning(p) \/ Publish(p)
  BY <1>5, WakeSetRunning, WakePublish
<1>6. CASE MarkTaskFailed(p) \/ MarkRequestFailed(p)
  BY <1>6 DEF MarkTaskFailed, MarkRequestFailed, Wakeful, Handling
<1>7. CASE UpsertKeys(p) \/ SaveSchema(p) \/ FindTarget(p) \/ Persist(p)
  BY <1>7, WakeAnswer
<1> QED
  BY <1>1, <1>2, <1>3, <1>4, <1>5, <1>6, <1>7 DEF HandlerStep

\* Every step, but for the faults, which end what is claimed.
LEMMA WakeNext == WInv /\ [Next]_vars => WInv'
<1> SUFFICES ASSUME WInv, [Next]_vars PROVE WInv'
  OBVIOUS
<1>1. IInv /\ IInv' /\ TypeOK'
  BY NextIInv DEF WInv, IInv
<1>2. faults \in Nat /\ faults <= MaxFaults /\ faults' \in Nat
  BY <1>1 DEF IInv, TypeOK
<1> SUFFICES ASSUME faults' = MaxFaults PROVE Wakeful' /\ Told' /\ Unfailed'
  BY <1>1 DEF WInv
<1>3. faults' # faults - 1
  BY <1>2
<1>4. faults = faults' => Wakeful /\ Told /\ Unfailed
  BY DEF WInv
<1>5. ASSUME NEW p \in Threads, NextOf(p) PROVE Wakeful' /\ Told' /\ Unfailed'
  <2>1. CASE HandlerStep(p)
    <3>1. faults' = faults
      BY <2>1 DEF HandlerStep, RegisterConvert, ConvertPayload, TriggerAnonymize, RegisterAnonymize,
             RegisterEntities, AnonymizePayload, ListProgress, ListFail, FailLoop, FailRequest, Progress,
             CreateResolveKeys, SetRunning, EnsureConvert, EnsureAnonymize, Ensure, Publish,
             MarkTaskFailed, MarkRequestFailed, UpsertKeys, SaveSchema, FindTarget, CreateExtract,
             Persist, Complete, auxiliary
    <3> QED
      BY <1>1, <1>4, <2>1, <3>1, WakeHandler, ToldHandler
  <2>2. ASSUME NEW r \in Requests, NEW d \in Docs, NEW a \in BOOLEAN, Initiate(p, r, d, a) PROVE Wakeful' /\ Told' /\ Unfailed'
    BY <1>1, <1>4, <2>2, WakeInitiate, ToldInitiate DEF Initiate, auxiliary
  <2>3. ASSUME NEW d \in Docs, CreateConvert(p, d) PROVE Wakeful' /\ Told' /\ Unfailed'
    BY <1>1, <1>4, <2>3, WakeCreateConvert, ToldCreateConvert DEF CreateConvert, auxiliary
  <2>4. ASSUME NEW m \in queue, WorkerAnswer(p, m) PROVE Wakeful' /\ Told' /\ Unfailed'
    <3>1. faults' = faults
      BY <2>4 DEF WorkerAnswer, auxiliary
    <3> QED
      BY <1>1, <1>4, <2>4, <3>1, WakeWorker, ToldWorker
  <2>5. ASSUME NEW m \in queue \cup answered, WorkerRepeat(p, m) PROVE Wakeful' /\ Told' /\ Unfailed'
    <3>1. faults' = faults
      BY <2>5 DEF WorkerRepeat
    <3> QED
      BY <1>1, <1>4, <2>5, <3>1, WakeWorker, ToldWorker
  <2>6. CASE PublishError(p) \/ StepError(p) \/ Abort(p)
    BY <1>3, <2>6 DEF PublishError, StepError, Abort
  <2> QED
    BY <1>5, <2>1, <2>2, <2>3, <2>4, <2>5, <2>6 DEF NextOf
<1>6. ASSUME NEW m \in queue, MessageLost(m) PROVE Wakeful' /\ Told' /\ Unfailed'
  BY <1>3, <1>6 DEF MessageLost
<1>7. ASSUME NEW id \in TaskIds, WatchdogRequeue(id) \/ WatchdogFail(id) PROVE Wakeful' /\ Told' /\ Unfailed'
  <2>1. faults' = faults
    BY <1>7 DEF WatchdogRequeue, WatchdogFail
  <2> QED
    BY <1>1, <1>4, <1>7, <2>1, WakeWatchdog, ToldWatchdog
<1>8. ASSUME UNCHANGED vars PROVE Wakeful' /\ Told' /\ Unfailed'
  <2>1. Fixed /\ Steady
    BY <1>8 DEF vars, Fixed, Steady, Exists, Fruitless, TextOf
  <2>2. Told /\ Unfailed => Told' /\ Unfailed'
    BY <1>8 DEF vars, Told, Unfailed, Tells, Wakers, Exists
  <2> QED
    BY <1>1, <1>4, <1>8, <2>1, <2>2, WakeOutside DEF vars
<1> QED
  BY <1>5, <1>6, <1>7, <1>8 DEF Next

\* WInv holds in every reachable state.
THEOREM WakeInductive == Spec => []WInv
<1>1. Init => Told /\ Unfailed
  BY IdleOK DEF Init, Told, Unfailed, InFlight, Publishing
<1>2. Init => WInv
  BY <1>1, InitIInv, WakeInit DEF WInv
<1> QED
  BY <1>2, WakeNext, PTL DEF Spec

\* No lost wakeup.  When no handler is at work nobody carries a request, so Awake
\* leaves it a task that waits or has brought no text; and if the task has failed,
\* Told leaves only the requests that no callback tells.
THEOREM NoWakeupLost == Spec => []NoLostWakeup
<1>1. WInv => NoLostWakeup
  <2> SUFFICES ASSUME WInv, Quiet, faults = MaxFaults, NEW r \in Requests, request[r].status \in InFlight
               PROVE  \E id \in Wakers(r) :
                          \/ task[id].status \in Active
                          \/ task[id].status = "failed" /\ <<r, id>> \in stranded
                          \/ Fruitless(id)
    BY DEF NoLostWakeup
  <2>1. Cared(r)
    BY DEF WInv, Wakeful, Awake
  <2>2. \A p \in Threads : ~Carries(thread[p], r)
    BY DEF Quiet, Carries, WillList, Listed, Decided, Resolving, Extracting, Listing, OnList,
           OnRegistered, OnRequest, OnResolved, OnExtracted
  <2>3. \A p \in Threads : ~Tells(thread[p], r)
    BY DEF Quiet, Tells
  <2>4. \A id \in Wakers(r) : task[id].status = "failed" => <<r, id>> \in stranded
    BY <2>3 DEF WInv, Told
  <2>5. CASE Barren(r)
    BY <2>5 DEF Barren
  <2>6. CASE Tasked(r)
    BY <2>4, <2>6 DEF Tasked, Waits, Active
  <2> QED
    BY <2>1, <2>2, <2>5, <2>6 DEF Cared
<1> QED
  BY <1>1, WakeInductive, PTL
=============================================================================
