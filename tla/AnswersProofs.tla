---------------------------- MODULE AnswersProofs ----------------------------
(***************************************************************************)
(* Proofs about Answers for any number of tenants, documents, keys,        *)
(* requests, handlers, repeated callbacks and faults.                      *)
(*                                                                         *)
(* The argument rests on what no statement takes back (Grows): keys are    *)
(* never deleted, a value is replaced and never removed, a message is      *)
(* written once.  So a name that had a key when extract was started has    *)
(* one when its values come back (Offers), the handler that looks it up    *)
(* holds a key for it (ThreadOK), and what completed a request has a       *)
(* value for good (Delivered).                                             *)
(***************************************************************************)
EXTENDS Answers, TLAPS

USE KeysAssumption, NoneAssumption, BoundsAssumption

OnResolved == {"upsertKeys", "enqueueExtract"}
OnExtracted == {"lookupKeys", "upsertData", "complete"}

\* The keys are keys the tenant of the request may see.
Seen(r, ks) == ks \subseteq key /\ \A k \in ks : k[1] \in {OrgOf(r), System}

\* The names are keys of the tenant of the request.
Owned(r, names) == \A n \in names : <<OrgOf(r), n>> \in key

HasValue(r, n) == \E k \in key : k[2] = n /\ data[<<request[r].doc, k>>] # None

\* A callback adds no shared key.
SharedKeys == \A n \in Names : <<System, n>> \in key => n \in SystemKeys

\* Only a row has a document and a schema.
RequestRows ==
    \A r \in Requests :
        /\ request[r].status = "absent" <=> request[r].doc = None
        /\ request[r].status = "absent" => request[r].resolved_schema = {}

\* Messages are about requests that exist and about keys that exist.
Offers ==
    \A r \in Requests :
        /\ offered[r] # None => request[r].doc \in Docs /\ Seen(r, offered[r])
        /\ asked[r] # None => offered[r] # None /\ Owned(r, named[r])
        /\ asked[r] = None => delivered[r] = {}

\* A value belongs to a request of its document and to a key its tenant sees.
Values ==
    \A d \in Docs, k \in KeyIds : data[<<d, k>>] # None =>
        /\ k \in key
        /\ k[1] \in {Owner[d], System}
        /\ request[data[<<d, k>>]].doc = d

\* What a handler holds.
ThreadOK(t) ==
    t.pc # "idle" =>
        /\ t.req \in Requests
        /\ request[t.req].doc \in Docs
        /\ t.pc = "enqueueResolveKeys" => Seen(t.req, t.keys)
        /\ t.pc \in OnResolved => offered[t.req] # None /\ Owned(t.req, t.named \ t.new)
        /\ t.pc = "enqueueExtract" => t.new = {}
        /\ t.pc \in OnExtracted => asked[t.req] # None
        /\ t.pc = "upsertData" =>
              /\ Seen(t.req, t.keys)
              /\ \A n \in t.names : n \in Placeable(t.req) => \E k \in t.keys : k[2] = n
        /\ t.pc = "complete" => \A n \in t.names : n \in Placeable(t.req) => HasValue(t.req, n)

ThreadsOK == \A p \in Threads : ThreadOK(thread[p])

\* One handler starts resolve_keys.
Single ==
    \A p \in Threads : thread[p].pc = "enqueueResolveKeys" =>
        /\ offered[thread[p].req] = None
        /\ \A q \in Threads : thread[q].pc = "enqueueResolveKeys" /\ thread[q].req = thread[p].req => q = p

\* What completed a request has a value.
Delivered ==
    \A r \in Requests : \A n \in delivered[r] : n \in Placeable(r) => HasValue(r, n)

IInv ==
    /\ TypeOK
    /\ SharedKeys
    /\ RequestRows
    /\ Offers
    /\ Values
    /\ ThreadsOK
    /\ Single
    /\ Delivered

-----------------------------------------------------------------------------
(* What no statement takes back *)

Grows ==
    /\ key \subseteq key'
    /\ \A k \in key' : k \notin key => k[1] # System
    /\ \A r \in Requests : request[r].doc \in Docs => request'[r].doc = request[r].doc
    /\ \A r \in Requests : offered[r] # None => offered'[r] = offered[r]
    /\ \A r \in Requests : asked[r] # None => asked'[r] = asked[r] /\ named'[r] = named[r]
    /\ \A x \in Docs \X KeyIds : data[x] # None => data'[x] # None

\* The shared keys are those of the installation.
LEMMA SharedKept == ASSUME IInv, Grows PROVE SharedKeys'
<1> SUFFICES ASSUME NEW n \in Names, <<System, n>> \in key' PROVE n \in SystemKeys
  BY DEF SharedKeys
<1>1. PICK k \in key' : k = <<System, n>> /\ k[1] = System
  OBVIOUS
<1>2. <<System, n>> \in key
  BY <1>1 DEF Grows
<1> QED
  BY <1>2 DEF IInv, SharedKeys

\* The tenant of a request that exists stays the same.
LEMMA OrgKept ==
    ASSUME Grows, NEW r \in Requests, request[r].doc \in Docs
    PROVE  OrgOf(r)' = OrgOf(r) /\ OrgOf(r) \in Orgs
BY DEF Grows, OrgOf

\* A key that was read stays in the dictionary.
LEMMA SeenKept ==
    ASSUME Grows, NEW r \in Requests, request[r].doc \in Docs, NEW ks, Seen(r, ks)
    PROVE  Seen(r, ks)'
BY OrgKept DEF Seen, Grows

\* A name the tenant has a key for keeps it.
LEMMA OwnedKept ==
    ASSUME Grows, NEW r \in Requests, request[r].doc \in Docs, NEW names, Owned(r, names)
    PROVE  Owned(r, names)'
BY OrgKept DEF Owned, Grows

\* A name with a value keeps one.
LEMMA HasValueKept ==
    ASSUME IInv, Grows, NEW r \in Requests, request[r].doc \in Docs, NEW n, HasValue(r, n)
    PROVE  HasValue(r, n)'
<1>1. PICK k \in key : k[2] = n /\ data[<<request[r].doc, k>>] # None
  BY DEF HasValue
<1>2. <<request[r].doc, k>> \in Docs \X KeyIds
  BY DEF IInv, TypeOK
<1>3. data'[<<request'[r].doc, k>>] # None /\ k \in key'
  BY <1>1, <1>2 DEF Grows
<1> QED
  BY <1>1, <1>3 DEF HasValue

\* Once extract was started, the names with a place are settled.
LEMMA PlaceableKept ==
    ASSUME IInv, Grows, NEW r \in Requests, asked[r] # None
    PROVE  Placeable(r)' = Placeable(r)
<1>1. offered'[r] = offered[r] /\ named'[r] = named[r]
  BY DEF IInv, Offers, Grows
<1> QED
  BY <1>1 DEF Placeable, NamesOf

\* What a handler knows stays true while others write.
LEMMA GrowsThread ==
    ASSUME IInv, Grows, NEW t \in Thread, ThreadOK(t)
    PROVE  ThreadOK(t)'
<1> SUFFICES ASSUME t.pc # "idle" PROVE ThreadOK(t)'
  BY DEF ThreadOK
<1>1. t.req \in Requests /\ request[t.req].doc \in Docs /\ request'[t.req].doc = request[t.req].doc
  BY DEF ThreadOK, Grows
<1>2. t.pc \in {"enqueueResolveKeys", "upsertData"} => Seen(t.req, t.keys)'
  BY <1>1, SeenKept DEF ThreadOK
<1>3. t.pc \in OnResolved => offered'[t.req] # None /\ Owned(t.req, t.named \ t.new)'
  BY <1>1, OwnedKept DEF ThreadOK, Grows
<1>4. t.pc \in OnExtracted => asked'[t.req] # None /\ Placeable(t.req)' = Placeable(t.req)
  BY <1>1, PlaceableKept DEF ThreadOK, Grows
<1>5. t.pc = "complete" => \A n \in t.names : n \in Placeable(t.req) => HasValue(t.req, n)'
  BY <1>1, HasValueKept DEF ThreadOK
<1> QED
  BY <1>1, <1>2, <1>3, <1>4, <1>5 DEF ThreadOK, OnExtracted

-----------------------------------------------------------------------------
(* The parts of the invariant *)

\* A handler goes on with local state t.
GoesOn(p, t) == thread' = [thread EXCEPT ![p] = t]

\* One handler moves on, the others know what they knew.
LEMMA ThreadsKept ==
    ASSUME IInv, Grows, NEW p \in Threads, NEW t \in Thread, GoesOn(p, t), ThreadOK(t)'
    PROVE  ThreadsOK'
<1> SUFFICES ASSUME NEW q \in Threads PROVE ThreadOK(thread[q])'
  BY DEF ThreadsOK
<1>1. CASE q = p
  <2>1. thread'[q] = t
    BY <1>1 DEF GoesOn, IInv, TypeOK
  <2> QED
    BY <2>1
<1>2. CASE q # p
  <2>1. PICK u \in Thread : u = thread[q] /\ thread'[q] = u
    BY <1>2 DEF GoesOn, IInv, TypeOK
  <2>2. ThreadOK(u)
    BY <2>1 DEF IInv, ThreadsOK
  <2>3. ThreadOK(u)'
    BY <2>2, GrowsThread
  <2> QED
    BY <2>1, <2>3
<1> QED
  BY <1>1, <1>2

\* No handler starts resolve_keys.
LEMMA SingleKept ==
    ASSUME IInv, NEW p \in Threads, NEW t \in Thread, GoesOn(p, t),
           t.pc # "enqueueResolveKeys", UNCHANGED offered
    PROVE  Single'
<1>1. /\ thread'[p] = t
      /\ \A q \in Threads : q # p => thread'[q] = thread[q]
  BY DEF GoesOn, IInv, TypeOK
<1> QED
  BY <1>1 DEF IInv, Single

\* No message is sent and no request completed.
LEMMA OffersKept ==
    ASSUME IInv, Grows, UNCHANGED <<offered, asked, named, delivered>>
    PROVE  Offers'
<1> SUFFICES ASSUME NEW r \in Requests
             PROVE  /\ offered[r] # None => request'[r].doc \in Docs /\ Seen(r, offered[r])'
                    /\ asked[r] # None => offered[r] # None /\ Owned(r, named[r])'
                    /\ asked[r] = None => delivered[r] = {}
  <2> USE DEF Offers
  <2> QED
    BY DEF Seen, Owned
<1>1. ASSUME offered[r] # None PROVE request'[r].doc \in Docs /\ Seen(r, offered[r])'
  <2>1. PICK ks : ks = offered[r] /\ ks = offered'[r]
    OBVIOUS
  <2>2. Seen(r, ks) /\ request[r].doc \in Docs
    BY <1>1, <2>1 DEF IInv, Offers
  <2>3. Seen(r, ks)'
    BY <2>2, SeenKept
  <2> QED
    BY <2>1, <2>2, <2>3 DEF Grows
<1>2. ASSUME asked[r] # None PROVE offered[r] # None /\ Owned(r, named[r])'
  <2>1. PICK ns : ns = named[r] /\ ns = named'[r]
    OBVIOUS
  <2>2. Owned(r, ns) /\ offered[r] # None /\ request[r].doc \in Docs
    BY <1>2, <2>1 DEF IInv, Offers
  <2>3. Owned(r, ns)'
    BY <2>2, OwnedKept
  <2> QED
    BY <2>1, <2>2, <2>3
<1> QED
  BY <1>1, <1>2 DEF IInv, Offers

\* No value is written.
LEMMA ValuesKept ==
    ASSUME IInv, Grows, UNCHANGED data
    PROVE  Values'
<1> SUFFICES ASSUME NEW d \in Docs, NEW k \in KeyIds, data[<<d, k>>] # None
             PROVE  /\ k \in key'
                    /\ k[1] \in {Owner[d], System}
                    /\ request'[data[<<d, k>>]].doc = d
  BY DEF Values
<1>1. k \in key /\ k[1] \in {Owner[d], System} /\ request[data[<<d, k>>]].doc = d
  BY DEF IInv, Values
<1>2. data[<<d, k>>] \in Requests
  BY DEF IInv, TypeOK
<1> QED
  BY <1>1, <1>2 DEF Grows

\* What was delivered stays stored.
LEMMA DeliveredKept ==
    ASSUME IInv, Grows, NEW r \in Requests, NEW n \in delivered[r]
    PROVE  n \in Placeable(r)' => HasValue(r, n)'
<1>1. asked[r] # None /\ request[r].doc \in Docs
  BY DEF IInv, Offers
<1>2. Placeable(r)' = Placeable(r)
  BY <1>1, PlaceableKept
<1>3. n \in Placeable(r) => HasValue(r, n)
  BY DEF IInv, Delivered
<1> QED
  BY <1>1, <1>2, <1>3, HasValueKept

\* The parts together, for a step that leaves messages and history alone: what
\* is left to see to is the handler and the values.
LEMMA QuietStep ==
    ASSUME IInv, Grows, TypeOK', RequestRows', Values',
           NEW p \in Threads, NEW t \in Thread, GoesOn(p, t), ThreadOK(t)',
           t.pc # "enqueueResolveKeys", UNCHANGED <<offered, asked, history>>
    PROVE  IInv' /\ Grows
<1>1. UNCHANGED <<offered, asked, named, delivered>>
  BY DEF history
<1>2. Offers' /\ ThreadsOK' /\ Single' /\ SharedKeys'
  BY <1>1, OffersKept, ThreadsKept, SingleKept, SharedKept
<1>3. Delivered'
  <2>1. \A r \in Requests : \A n \in delivered[r] : n \in Placeable(r)' => HasValue(r, n)'
    BY DeliveredKept
  <2> QED
    BY <1>1, <2>1 DEF Delivered
<1> QED
  BY <1>2, <1>3 DEF IInv

\* Nothing at all is known of an idle handler.
LEMMA IdleOK ==
    /\ IdleThread \in Thread /\ IdleThread.pc = "idle" /\ IdleThread.req = None
    /\ ThreadOK(IdleThread)'
BY DEF IdleThread, Thread, ThreadOK

\* Where a handler that is not idle stands.
LEMMA Busy ==
    ASSUME IInv, NEW p \in Threads, thread[p].pc # "idle"
    PROVE  /\ thread[p] \in Thread /\ ThreadOK(thread[p])
           /\ ReqOf(p) \in Requests /\ request[ReqOf(p)].doc \in Docs
BY DEF IInv, TypeOK, ThreadsOK, ThreadOK, ReqOf


-----------------------------------------------------------------------------
(* The steps *)

\* No table and no message is written: nothing to grow.
LEMMA NoWriteGrows ==
    ASSUME UNCHANGED <<tables, offered, asked, history>>
    PROVE  Grows
BY DEF Grows, tables, history

\* POST /documents/:id/extract inserts a request of the tenant of its document.
LEMMA InitiateStep ==
    ASSUME IInv, NEW p \in Threads, NEW r \in Requests, NEW d \in Docs, Initiate(p, r, d)
    PROVE  IInv' /\ Grows
<1>1. PICK t \in Thread : /\ GoesOn(p, t) /\ t.pc = "enqueueResolveKeys" /\ t.req = r
                          /\ t.keys = Visible(Owner[d])
  <2> DEFINE t == [IdleThread EXCEPT !.pc = "enqueueResolveKeys", !.req = r, !.keys = Visible(Owner[d])]
  <2>1. t \in Thread /\ t.pc = "enqueueResolveKeys" /\ t.req = r /\ t.keys = Visible(Owner[d])
    BY DEF IdleThread, Thread, Visible, IInv, TypeOK
  <2>2. GoesOn(p, t)
    BY DEF Initiate, GoesOn, ListExtractionKeysByOrg
  <2> QED
    BY <2>1, <2>2
<1>2. /\ request' \in [Requests -> Request]
      /\ request'[r].doc = d /\ request'[r].resolved_schema = {} /\ request'[r].status = "pending"
      /\ \A x \in Requests : x # r => request'[x] = request[x]
  BY DEF Initiate, IInv, TypeOK, Request
<1>3. request[r].doc = None /\ offered[r] = None
  BY DEF Initiate, IInv, RequestRows, Offers
<1>4. UNCHANGED <<key, data, offered, asked, answered, named, delivered, repeats, faults>>
  BY DEF Initiate, messages, history, bounds
<1>5. TypeOK'
  BY <1>1, <1>2, <1>4 DEF IInv, TypeOK, GoesOn
<1>6. Grows
  BY <1>2, <1>3, <1>4 DEF Grows
<1>7. RequestRows'
  BY <1>2 DEF IInv, RequestRows
<1>8. ThreadOK(t)'
  <2>1. OrgOf(r)' = Owner[d]
    BY <1>2 DEF OrgOf
  <2>2. Seen(t.req, t.keys)'
    BY <1>1, <1>4, <2>1 DEF Visible, Seen
  <2> QED
    BY <1>1, <1>2, <2>2 DEF ThreadOK, OnResolved, OnExtracted
<1>9. Single'
  <2>1. /\ thread'[p] = t
        /\ \A q \in Threads : q # p => thread'[q] = thread[q]
    BY <1>1 DEF GoesOn, IInv, TypeOK
  <2>2. \A q \in Threads : thread[q].pc # "idle" => thread[q].req # r
    <3>1. \A q \in Threads : thread[q].pc # "idle" => request[thread[q].req].doc \in Docs
      BY Busy DEF ReqOf
    <3> QED
      BY <1>3, <3>1
  <2> QED
    BY <1>1, <1>3, <1>4, <2>1, <2>2 DEF IInv, Single
<1>10. Offers' /\ Values' /\ ThreadsOK' /\ SharedKeys'
  BY <1>1, <1>4, <1>6, <1>8, OffersKept, ValuesKept, ThreadsKept, SharedKept
<1>11. Delivered'
  <2>1. \A x \in Requests : \A n \in delivered[x] : n \in Placeable(x)' => HasValue(x, n)'
    BY <1>6, DeliveredKept
  <2> QED
    BY <1>4, <2>1 DEF Delivered
<1> QED
  BY <1>5, <1>6, <1>7, <1>9, <1>10, <1>11 DEF IInv

\* A status is written to a request that exists.
LEMMA StatusRow ==
    ASSUME IInv, NEW r \in Requests, NEW s \in {"running", "completed", "failed"},
           request[r].doc \in Docs, SetExtractionRequestStatus(r, s)
    PROVE  /\ request' \in [Requests -> Request]
           /\ RequestRows'
           /\ \A x \in Requests : request'[x].doc = request[x].doc
<1>1. request \in [Requests -> Request] /\ request[r] \in Request
  BY DEF IInv, TypeOK
<1>2. /\ request' \in [Requests -> Request]
      /\ request'[r].status = s
      /\ request'[r].doc = request[r].doc
      /\ request'[r].resolved_schema = request[r].resolved_schema
      /\ \A x \in Requests : x # r => request'[x] = request[x]
  BY <1>1 DEF SetExtractionRequestStatus, Request
<1>3. RequestRows'
  BY <1>2 DEF IInv, RequestRows
<1> QED
  BY <1>2, <1>3

\* The insert of resolve_keys with the keys that were listed.
LEMMA EnqueueResolveKeysStep ==
    ASSUME IInv, NEW p \in Threads, EnqueueResolveKeys(p)
    PROVE  IInv' /\ Grows
<1>1. PICK r \in Requests : /\ r = ReqOf(p) /\ request[r].doc \in Docs /\ thread[p].pc = "enqueueResolveKeys"
                            /\ Seen(r, thread[p].keys) /\ offered[r] = None
                            /\ \A q \in Threads : q # p /\ thread[q].pc = "enqueueResolveKeys" =>
                                   thread[q].req # r
  <2>1. thread[p].pc = "enqueueResolveKeys"
    BY DEF EnqueueResolveKeys
  <2>2. PICK r \in Requests : r = ReqOf(p) /\ r = thread[p].req /\ request[r].doc \in Docs
    BY <2>1, Busy DEF ReqOf
  <2>3. Seen(r, thread[p].keys)
    BY <2>1, <2>2, Busy DEF ThreadOK
  <2>4. /\ offered[r] = None
        /\ \A q \in Threads : q # p /\ thread[q].pc = "enqueueResolveKeys" => thread[q].req # r
    BY <2>1, <2>2 DEF IInv, Single
  <2> QED
    BY <2>1, <2>2, <2>3, <2>4
<1>2. GoesOn(p, IdleThread)
  BY DEF EnqueueResolveKeys, Return, GoesOn
<1>3. UNCHANGED <<key, data, asked, answered, named, delivered, repeats, faults>>
  BY DEF EnqueueResolveKeys, history, bounds
<1>4. /\ request' \in [Requests -> Request] /\ RequestRows'
      /\ \A x \in Requests : request'[x].doc = request[x].doc
  BY <1>1, StatusRow DEF EnqueueResolveKeys
<1>5. PICK ks \in SUBSET KeyIds : ks = thread[p].keys
  BY DEF IInv, TypeOK, Thread
<1>6. offered' = [offered EXCEPT ![r] = ks]
  BY <1>1, <1>5 DEF EnqueueResolveKeys
<1>7. TypeOK'
  BY <1>2, <1>3, <1>4, <1>6, IdleOK DEF IInv, TypeOK, GoesOn
<1>8. Grows
  BY <1>1, <1>3, <1>4, <1>6 DEF Grows, IInv, TypeOK
<1>9. asked[r] = None
  BY <1>1 DEF IInv, Offers
<1>10. Offers'
  <2> SUFFICES ASSUME NEW x \in Requests
               PROVE  /\ offered'[x] # None => request'[x].doc \in Docs /\ Seen(x, offered[x])'
                      /\ asked[x] # None => offered'[x] # None /\ Owned(x, named[x])'
                      /\ asked[x] = None => delivered[x] = {}
    BY <1>3 DEF Offers
  <2>1. PICK ls : ls = offered'[x] /\ (x # r => ls = offered[x]) /\ (x = r => ls = thread[p].keys)
    BY <1>5, <1>6 DEF IInv, TypeOK
  <2>2. ls # None => request[x].doc \in Docs /\ Seen(x, ls)
    BY <1>1, <2>1 DEF IInv, Offers
  <2>3. ls # None => Seen(x, ls)'
    BY <1>8, <2>2, SeenKept
  <2>4. offered'[x] # None => Seen(x, offered[x])'
    BY <1>3, <1>4, <2>1, <2>3 DEF Seen, OrgOf
  <2>5. ASSUME asked[x] # None PROVE offered'[x] # None /\ Owned(x, named[x])'
    <3>1. PICK ns : ns = named[x] /\ ns = named'[x]
      BY <1>3
    <3>2. Owned(x, ns) /\ offered[x] # None /\ request[x].doc \in Docs
      BY <2>5, <3>1 DEF IInv, Offers
    <3>3. Owned(x, ns)'
      BY <1>8, <3>2, OwnedKept
    <3> QED
      BY <1>8, <3>1, <3>2, <3>3 DEF Grows
  <2> QED
    BY <1>4, <2>1, <2>2, <2>4, <2>5 DEF IInv, Offers
<1>11. Single'
  <2>1. /\ thread'[p] = IdleThread
        /\ \A q \in Threads : q # p => thread'[q] = thread[q]
    BY <1>2 DEF GoesOn, IInv, TypeOK
  <2>2. \A x \in Requests : x # r => offered'[x] = offered[x]
    BY <1>6 DEF IInv, TypeOK
  <2>3. \A q \in Threads : thread[q].pc # "idle" => thread[q].req \in Requests
    BY DEF IInv, ThreadsOK, ThreadOK
  <2> QED
    BY <1>1, <2>1, <2>2, <2>3, IdleOK DEF IInv, Single
<1>12. ThreadsOK' /\ Values' /\ SharedKeys'
  BY <1>2, <1>3, <1>8, IdleOK, ThreadsKept, ValuesKept, SharedKept
<1>13. Delivered'
  <2>1. \A x \in Requests : \A n \in delivered[x] : n \in Placeable(x)' => HasValue(x, n)'
    BY <1>8, DeliveredKept
  <2> QED
    BY <1>3, <2>1 DEF Delivered
<1> QED
  BY <1>4, <1>7, <1>8, <1>10, <1>11, <1>12, <1>13 DEF IInv

\* A worker answers, for the first time or once more: the handler holds the
\* result it was sent.
LEMMA WorkerAnswerStep ==
    ASSUME IInv, NEW p \in Threads, NEW r \in Requests, WorkerAnswer(p, r)
    PROVE  IInv' /\ Grows
<1>1. /\ thread[p].pc = "idle"
      /\ UNCHANGED <<tables, offered, asked, history, faults>>
  BY DEF WorkerAnswer, ResolveKeysCompleted, ExtractCompleted
<1>2. PICK m \in Messages : Answer(m)
  <2>1. \A s \in {"resolve_keys", "extract"} : <<r, s>> \in Messages
    BY DEF Messages
  <2> QED
    BY <2>1 DEF WorkerAnswer
<1>3. answered' \subseteq Messages /\ repeats' \in Nat
  BY <1>2 DEF Answer, IInv, TypeOK
<1>4. Grows
  BY <1>1, NoWriteGrows
<1>5. PICK t \in Thread :
        /\ GoesOn(p, t) /\ t.req = r
        /\ \/ t.pc = "fail" /\ offered[r] # None
           \/ t.pc = "upsertKeys" /\ offered[r] # None /\ t.named \ t.new = {}
           \/ t.pc = "lookupKeys" /\ asked[r] # None
  <2>1. ASSUME NEW schema \in SUBSET Names, NEW new \in SUBSET Names,
               ResolveKeysCompleted(p, r, schema, new)
        PROVE  \E t \in Thread :
                 /\ GoesOn(p, t) /\ t.req = r
                 /\ \/ t.pc = "fail" /\ offered[r] # None
                    \/ t.pc = "upsertKeys" /\ offered[r] # None /\ t.named \ t.new = {}
    <3>1. CASE schema = {}
      <4> DEFINE t == [IdleThread EXCEPT !.pc = "fail", !.req = r]
      <4>1. t \in Thread /\ t.pc = "fail" /\ t.req = r
        BY DEF IdleThread, Thread
      <4>2. GoesOn(p, t) /\ offered[r] # None
        BY <2>1, <3>1 DEF ResolveKeysCompleted, GoesOn
      <4> QED
        BY <4>1, <4>2
    <3>2. CASE schema # {}
      <4> DEFINE t == [IdleThread EXCEPT !.pc = "upsertKeys", !.req = r,
                           !.names = schema, !.new = new, !.named = new]
      <4>1. t \in Thread /\ t.pc = "upsertKeys" /\ t.req = r /\ t.named \ t.new = {}
        BY DEF IdleThread, Thread
      <4>2. GoesOn(p, t) /\ offered[r] # None
        BY <2>1, <3>2 DEF ResolveKeysCompleted, GoesOn
      <4> QED
        BY <4>1, <4>2
    <3> QED
      BY <3>1, <3>2
  <2>2. ASSUME NEW names \in SUBSET Names, ExtractCompleted(p, r, names)
        PROVE  \E t \in Thread : GoesOn(p, t) /\ t.req = r /\ t.pc = "lookupKeys" /\ asked[r] # None
    <3> DEFINE t == [IdleThread EXCEPT !.pc = "lookupKeys", !.req = r, !.names = names]
    <3>1. t \in Thread /\ t.pc = "lookupKeys" /\ t.req = r
      BY DEF IdleThread, Thread
    <3>2. GoesOn(p, t) /\ asked[r] # None
      BY <2>2 DEF ExtractCompleted, GoesOn
    <3> QED
      BY <3>1, <3>2
  <2> QED
    BY <2>1, <2>2 DEF WorkerAnswer
<1>6. TypeOK'
  BY <1>1, <1>3, <1>5 DEF IInv, TypeOK, tables, history, GoesOn
<1>7. RequestRows' /\ Values'
  BY <1>1, <1>4, ValuesKept DEF IInv, RequestRows, tables
<1>8. ThreadOK(t)'
  <2>1. request'[r].doc \in Docs /\ offered'[r] = offered[r] /\ asked'[r] = asked[r]
    BY <1>1, <1>5 DEF IInv, Offers, tables
  <2>2. t.named \ t.new = {} => Owned(r, t.named \ t.new)'
    BY DEF Owned
  <2> QED
    BY <1>5, <2>1, <2>2 DEF ThreadOK, OnExtracted, OnResolved
<1> QED
  BY <1>1, <1>4, <1>5, <1>6, <1>7, <1>8, QuietStep


\* One new name becomes a key of the tenant.
LEMMA UpsertExtractionKeyStep ==
    ASSUME IInv, NEW p \in Threads, UpsertExtractionKey(p)
    PROVE  IInv' /\ Grows
<1>1. PICK n \in thread[p].new : /\ key' = key \cup {<<OrgOf(ReqOf(p)), n>>}
                                 /\ thread' = [thread EXCEPT ![p].new = @ \ {n}]
  BY DEF UpsertExtractionKey
<1>2. /\ thread[p] \in Thread /\ ThreadOK(thread[p]) /\ thread[p].pc = "upsertKeys"
      /\ UNCHANGED <<data, request, offered, asked, answered, named, delivered, repeats, faults>>
  BY Busy DEF UpsertExtractionKey, messages, history, bounds
<1>3. PICK r \in Requests : r = ReqOf(p) /\ request[r].doc \in Docs
  BY <1>2, Busy
<1>4. PICK t \in Thread : /\ GoesOn(p, t) /\ t.pc = "upsertKeys" /\ t.req = r
                          /\ t.named = thread[p].named /\ t.new = thread[p].new \ {n}
  <2> DEFINE t == [thread[p] EXCEPT !.new = thread[p].new \ {n}]
  <2>1. t \in Thread /\ t.pc = "upsertKeys" /\ t.req = r
        /\ t.named = thread[p].named /\ t.new = thread[p].new \ {n}
    BY <1>2, <1>3 DEF Thread, ReqOf
  <2>2. GoesOn(p, t)
    BY <1>1 DEF GoesOn, IInv, TypeOK
  <2> QED
    BY <2>1, <2>2
<1>5. PICK org \in Orgs : org = OrgOf(r) /\ org = OrgOf(r)'
  BY <1>2, <1>3 DEF OrgOf
<1>6. PICK k \in KeyIds : k = <<org, n>> /\ k[1] = org /\ k[2] = n /\ key' = key \cup {k}
  <2>1. <<org, n>> \in KeyIds
    BY <1>2 DEF KeyIds, Thread
  <2> QED
    BY <1>1, <1>3, <1>5, <2>1
<1>7. TypeOK'
  BY <1>2, <1>4, <1>6 DEF IInv, TypeOK, GoesOn
<1>8. Grows
  BY <1>2, <1>6 DEF Grows
<1>9. RequestRows' /\ Values'
  BY <1>2, <1>8, ValuesKept DEF IInv, RequestRows
<1>10. ThreadOK(t)'
  <2>1. Owned(r, t.named \ t.new)'
    <3> SUFFICES ASSUME NEW m \in t.named \ t.new PROVE <<org, m>> \in key'
      BY <1>5 DEF Owned
    <3>1. CASE m = n
      BY <1>6, <3>1
    <3>2. CASE m # n
      <4>1. Owned(r, thread[p].named \ thread[p].new)
        BY <1>2, <1>3 DEF ThreadOK, OnResolved, ReqOf
      <4>2. <<org, m>> \in key
        BY <1>4, <1>5, <3>2, <4>1 DEF Owned
      <4> QED
        BY <1>6, <4>2
    <3> QED
      BY <3>1, <3>2
  <2>2. offered'[r] # None
    BY <1>2, <1>3 DEF ThreadOK, OnResolved, ReqOf
  <2> QED
    BY <1>2, <1>3, <1>4, <2>1, <2>2 DEF ThreadOK, OnExtracted, OnResolved
<1>11. UNCHANGED <<offered, asked, history>>
  BY <1>2 DEF history
<1> QED
  BY <1>4, <1>7, <1>8, <1>9, <1>10, <1>11, QuietStep

\* The schema is written over the one before.
LEMMA SetResolvedSchemaStep ==
    ASSUME IInv, NEW p \in Threads, SetResolvedSchema(p)
    PROVE  IInv' /\ Grows
<1>1. /\ thread[p] \in Thread /\ ThreadOK(thread[p]) /\ thread[p].pc = "upsertKeys"
      /\ thread[p].new = {}
      /\ UNCHANGED <<key, data, offered, asked, answered, named, delivered, repeats, faults>>
  BY Busy DEF SetResolvedSchema, KeysStored, messages, history, bounds
<1>2. PICK r \in Requests : r = ReqOf(p) /\ request[r].doc \in Docs
  BY <1>1, Busy
<1>3. PICK t \in Thread : /\ GoesOn(p, t) /\ t.pc = "enqueueExtract" /\ t.req = r
                          /\ t.names = thread[p].names /\ t.named = thread[p].named
                          /\ t.new = thread[p].new /\ t.new = {}
  <2> DEFINE t == [thread[p] EXCEPT !.pc = "enqueueExtract"]
  <2>1. t \in Thread /\ t.pc = "enqueueExtract" /\ t.req = r
        /\ t.names = thread[p].names /\ t.named = thread[p].named
        /\ t.new = thread[p].new /\ t.new = {}
    BY <1>1, <1>2 DEF Thread, ReqOf
  <2>2. GoesOn(p, t)
    BY DEF SetResolvedSchema, Goto, GoesOn, IInv, TypeOK
  <2> QED
    BY <2>1, <2>2
<1>4. /\ request' \in [Requests -> Request]
      /\ request'[r].doc = request[r].doc /\ request'[r].status = request[r].status
      /\ \A x \in Requests : x # r => request'[x] = request[x]
  <2>1. request \in [Requests -> Request] /\ request[r] \in Request /\ t.names \in SUBSET Names
    BY DEF IInv, TypeOK, Thread
  <2>2. request' = [request EXCEPT ![r].resolved_schema = t.names]
    BY <1>2, <1>3 DEF SetResolvedSchema
  <2> QED
    BY <2>1, <2>2 DEF Request
<1>5. TypeOK'
  BY <1>1, <1>3, <1>4 DEF IInv, TypeOK, GoesOn
<1>6. Grows
  BY <1>1, <1>4 DEF Grows
<1>7. RequestRows'
  <2>1. request[r].status # "absent"
    BY <1>2 DEF IInv, RequestRows
  <2> QED
    BY <1>4, <2>1 DEF IInv, RequestRows
<1>8. Values'
  BY <1>1, <1>6, ValuesKept
<1>9. ThreadOK(t)'
  <2>1. offered[r] # None /\ Owned(r, thread[p].named \ thread[p].new)
    BY <1>1, <1>2 DEF ThreadOK, OnResolved, ReqOf
  <2>2. Owned(r, t.named \ t.new)'
    BY <1>2, <1>3, <1>6, <2>1, OwnedKept
  <2> QED
    BY <1>1, <1>2, <1>3, <1>4, <2>1, <2>2 DEF ThreadOK, OnExtracted, OnResolved
<1>10. UNCHANGED <<offered, asked, history>>
  BY <1>1 DEF history
<1> QED
  BY <1>3, <1>5, <1>6, <1>7, <1>8, <1>9, <1>10, QuietStep

\* The insert of extract: the keys of its new names are there.
LEMMA EnqueueExtractStep ==
    ASSUME IInv, NEW p \in Threads, EnqueueExtract(p)
    PROVE  IInv' /\ Grows
<1>1. /\ thread[p] \in Thread /\ ThreadOK(thread[p]) /\ thread[p].pc = "enqueueExtract"
      /\ UNCHANGED <<key, data, request, offered, answered, delivered, repeats, faults>>
  BY Busy DEF EnqueueExtract, tables, bounds
<1>2. PICK r \in Requests : r = ReqOf(p) /\ request[r].doc \in Docs
  BY <1>1, Busy
<1>3. GoesOn(p, IdleThread)
  BY DEF EnqueueExtract, Return, GoesOn
<1>4. PICK names, ns \in SUBSET Names : names = thread[p].names /\ ns = thread[p].named
  BY <1>1 DEF Thread
<1>5. Owned(r, ns) /\ offered[r] # None
  <2>1. ns = thread[p].named \ thread[p].new
    BY <1>1, <1>4 DEF ThreadOK, OnResolved
  <2> QED
    BY <1>1, <1>2, <2>1 DEF ThreadOK, OnResolved, ReqOf
<1>6. /\ asked' \in [Requests -> (SUBSET Names) \cup {None}]
      /\ named' \in [Requests -> SUBSET Names]
      /\ \A x \in Requests : x # r => asked'[x] = asked[x] /\ named'[x] = named[x]
      /\ asked[r] # None => asked'[r] = asked[r] /\ named'[r] = named[r]
      /\ asked[r] = None => asked'[r] = names /\ named'[r] = ns
  BY <1>2, <1>4 DEF EnqueueExtract, IInv, TypeOK
<1>7. TypeOK'
  BY <1>1, <1>3, <1>6, IdleOK DEF IInv, TypeOK, GoesOn
<1>8. Grows
  BY <1>1, <1>6 DEF Grows
<1>9. RequestRows'
  BY <1>1 DEF IInv, RequestRows
<1>10. Offers'
  <2> SUFFICES ASSUME NEW x \in Requests
               PROVE  /\ offered[x] # None => request[x].doc \in Docs /\ Seen(x, offered[x])
                      /\ asked'[x] # None => offered[x] # None /\ Owned(x, named'[x])
                      /\ asked'[x] = None => delivered[x] = {}
    BY <1>1 DEF Offers, Seen, Owned, OrgOf
  <2>1. CASE x = r /\ asked[r] = None
    BY <1>5, <1>6, <2>1 DEF IInv, Offers
  <2>2. CASE ~(x = r /\ asked[r] = None)
    <3>1. asked'[x] = asked[x] /\ named'[x] = named[x]
      BY <1>6, <2>2
    <3> QED
      BY <3>1 DEF IInv, Offers
  <2> QED
    BY <2>1, <2>2
<1>11. ThreadsOK' /\ Values' /\ SharedKeys' /\ Single'
  BY <1>1, <1>3, <1>8, IdleOK, ThreadsKept, ValuesKept, SharedKept, SingleKept
<1>12. Delivered'
  <2>1. \A x \in Requests : \A n \in delivered[x] : n \in Placeable(x)' => HasValue(x, n)'
    BY <1>8, DeliveredKept
  <2> QED
    BY <1>1, <2>1 DEF Delivered
<1> QED
  BY <1>7, <1>8, <1>9, <1>10, <1>11, <1>12 DEF IInv


\* GetExtractionKeysByNames finds a key for a name the tenant has one for.
LEMMA LookupFinds ==
    ASSUME NEW org \in Orgs, NEW names \in SUBSET Names, NEW n \in names,
           NEW k \in key, k[1] \in {org, System}, k[2] = n
    PROVE  \E l \in GetExtractionKeysByNames(org, names) : l[2] = n
<1>1. CASE <<org, n>> \in key
  <2>1. PICK l \in key : l = <<org, n>> /\ l[1] = org /\ l[2] = n
    BY <1>1
  <2>2. l \in GetExtractionKeysByNames(org, names)
    BY <2>1 DEF GetExtractionKeysByNames, Visible
  <2> QED
    BY <2>1, <2>2
<1>2. CASE <<org, n>> \notin key
  BY <1>2 DEF GetExtractionKeysByNames, Visible
<1> QED
  BY <1>1, <1>2

\* A name with a place has a key its tenant sees.
LEMMA PlaceableKey ==
    ASSUME IInv, NEW r \in Requests, asked[r] # None, NEW n \in Placeable(r)
    PROVE  \E k \in key : k[1] \in {OrgOf(r), System} /\ k[2] = n
<1>1. /\ offered[r] # None /\ request[r].doc \in Docs
      /\ Seen(r, offered[r]) /\ Owned(r, named[r])
  BY DEF IInv, Offers
<1>2. CASE n \in named[r]
  <2>1. PICK k \in key : k = <<OrgOf(r), n>> /\ k[1] = OrgOf(r) /\ k[2] = n
    BY <1>1, <1>2 DEF Owned
  <2> QED
    BY <2>1
<1>3. CASE n \in NamesOf(offered[r])
  <2>1. PICK k \in offered[r] : k[2] = n
    BY <1>3 DEF NamesOf
  <2> QED
    BY <1>1, <2>1 DEF Seen
<1> QED
  BY <1>2, <1>3 DEF Placeable

\* The names of a result become keys of the tenant; unknown names are dropped.
LEMMA LookupKeysStep ==
    ASSUME IInv, NEW p \in Threads, LookupKeys(p)
    PROVE  IInv' /\ Grows
<1>1. /\ thread[p] \in Thread /\ ThreadOK(thread[p]) /\ thread[p].pc = "lookupKeys"
      /\ UNCHANGED <<tables, messages, history, bounds>>
  BY Busy DEF LookupKeys
<1>2. PICK r \in Requests : r = ReqOf(p) /\ request[r].doc \in Docs
  BY <1>1, Busy
<1>3. PICK org \in Orgs : org = OrgOf(r)
  BY <1>2 DEF OrgOf
<1>4. PICK names \in SUBSET Names : names = thread[p].names
  BY <1>1 DEF Thread
<1>5. PICK ks \in SUBSET KeyIds : ks = GetExtractionKeysByNames(org, names)
  BY DEF GetExtractionKeysByNames, Visible, IInv, TypeOK
<1>6. PICK t \in Thread : /\ GoesOn(p, t) /\ t.pc = "upsertData" /\ t.req = r
                          /\ t.keys = ks /\ t.names = names
  <2> DEFINE t == [thread[p] EXCEPT !.pc = "upsertData", !.keys = ks]
  <2>1. t \in Thread /\ t.pc = "upsertData" /\ t.req = r /\ t.keys = ks /\ t.names = names
    BY <1>1, <1>2, <1>4 DEF Thread, ReqOf
  <2>2. GoesOn(p, t)
    BY <1>2, <1>3, <1>4, <1>5 DEF LookupKeys, GoesOn, IInv, TypeOK
  <2> QED
    BY <2>1, <2>2
<1>7. TypeOK'
  BY <1>1, <1>6 DEF IInv, TypeOK, tables, messages, history, bounds, GoesOn
<1>8. UNCHANGED <<offered, asked, history>>
  BY <1>1 DEF messages
<1>9. Grows
  BY <1>1, <1>8, NoWriteGrows
<1>10. RequestRows' /\ Values'
  BY <1>1, <1>9, ValuesKept DEF IInv, RequestRows, tables
<1>11. ThreadOK(t)'
  <2>1. asked[r] # None
    BY <1>1, <1>2 DEF ThreadOK, OnExtracted, ReqOf
  <2>2. Seen(t.req, t.keys)'
    <3>1. Seen(r, ks)
      BY <1>3, <1>5 DEF Seen, GetExtractionKeysByNames, Visible
    <3> QED
      BY <1>2, <1>6, <1>9, <3>1, SeenKept
  <2>3. \A n \in names : n \in Placeable(r)' => \E k \in ks : k[2] = n
    <3> SUFFICES ASSUME NEW n \in names, n \in Placeable(r) PROVE \E k \in ks : k[2] = n
      BY <1>9, <2>1, PlaceableKept
    <3>1. PICK l \in key : l[1] \in {org, System} /\ l[2] = n
      BY <1>3, <2>1, PlaceableKey
    <3> QED
      BY <1>5, <3>1, LookupFinds
  <2>4. asked'[r] # None /\ request'[r].doc \in Docs
    BY <1>1, <1>2, <2>1 DEF tables, messages
  <2> QED
    BY <1>6, <2>2, <2>3, <2>4 DEF ThreadOK, OnExtracted, OnResolved
<1> QED
  BY <1>6, <1>7, <1>8, <1>9, <1>10, <1>11, QuietStep

\* The values of the known keys are stored for the document of the request.
LEMMA BatchUpsertExtractedDataStep ==
    ASSUME IInv, NEW p \in Threads, BatchUpsertExtractedData(p)
    PROVE  IInv' /\ Grows
<1>1. /\ thread[p] \in Thread /\ ThreadOK(thread[p]) /\ thread[p].pc = "upsertData"
      /\ UNCHANGED <<key, request, offered, asked, answered, named, delivered, repeats, faults>>
  BY Busy DEF BatchUpsertExtractedData, messages, history, bounds
<1>2. PICK r \in Requests : r = ReqOf(p) /\ request[r].doc \in Docs
  BY <1>1, Busy
<1>3. PICK ks \in SUBSET KeyIds : ks = thread[p].keys
  BY <1>1 DEF Thread
<1>4. /\ Seen(r, ks) /\ asked[r] # None
      /\ \A n \in thread[p].names : n \in Placeable(r) => \E k \in ks : k[2] = n
  BY <1>1, <1>2, <1>3 DEF ThreadOK, OnExtracted, ReqOf
<1>5. PICK t \in Thread : GoesOn(p, t) /\ t.pc = "complete" /\ t.req = r /\ t.names = thread[p].names
  <2> DEFINE t == [thread[p] EXCEPT !.pc = "complete", !.keys = {}]
  <2>1. t \in Thread /\ t.pc = "complete" /\ t.req = r /\ t.names = thread[p].names
    BY <1>1, <1>2 DEF Thread, ReqOf
  <2>2. GoesOn(p, t)
    BY DEF BatchUpsertExtractedData, GoesOn, IInv, TypeOK
  <2> QED
    BY <2>1, <2>2
<1>6. PICK d \in Docs : d = request[r].doc
  BY <1>2
<1>7. \A e \in Docs, k \in KeyIds :
          data'[<<e, k>>] = IF e = d /\ k \in ks THEN r ELSE data[<<e, k>>]
  <2> SUFFICES ASSUME NEW e \in Docs, NEW k \in KeyIds
               PROVE  data'[<<e, k>>] = IF e = d /\ k \in ks THEN r ELSE data[<<e, k>>]
    OBVIOUS
  <2>0. <<e, k>> \in Docs \X KeyIds
    OBVIOUS
  <2>1. PICK x \in Docs \X KeyIds : x = <<e, k>>
    BY <2>0
  <2>2. data'[x] = Written(p, x)
    BY DEF BatchUpsertExtractedData
  <2> QED
    BY <1>2, <1>3, <1>6, <2>1, <2>2 DEF Written
<1>8. data' \in [Docs \X KeyIds -> Requests \cup {None}]
  <2>1. data' = [x \in Docs \X KeyIds |-> Written(p, x)]
    BY DEF BatchUpsertExtractedData
  <2>2. \A x \in Docs \X KeyIds : Written(p, x) \in Requests \cup {None}
    BY <1>2 DEF Written, IInv, TypeOK
  <2> QED
    BY <2>1, <2>2
<1>9. TypeOK'
  BY <1>1, <1>5, <1>8 DEF IInv, TypeOK, GoesOn
<1>10. Grows
  <2>1. \A x \in Docs \X KeyIds : data[x] # None => data'[x] # None
    <3> SUFFICES ASSUME NEW e \in Docs, NEW k \in KeyIds, data[<<e, k>>] # None
                 PROVE  data'[<<e, k>>] # None
      OBVIOUS
    <3> QED
      BY <1>7
  <2> QED
    BY <1>1, <2>1 DEF Grows
<1>11. RequestRows'
  BY <1>1 DEF IInv, RequestRows
<1>12. Values'
  <2> SUFFICES ASSUME NEW e \in Docs, NEW k \in KeyIds, data'[<<e, k>>] # None
               PROVE  /\ k \in key
                      /\ k[1] \in {Owner[e], System}
                      /\ request[data'[<<e, k>>]].doc = e
    BY <1>1 DEF Values
  <2>1. CASE e = d /\ k \in ks
    BY <1>4, <1>6, <1>7, <2>1 DEF Seen, OrgOf
  <2>2. CASE ~(e = d /\ k \in ks)
    <3>1. data'[<<e, k>>] = data[<<e, k>>]
      BY <1>7, <2>2
    <3> QED
      BY <3>1 DEF IInv, Values
  <2> QED
    BY <2>1, <2>2
<1>13. ThreadOK(t)'
  <2>1. ASSUME NEW n \in t.names, n \in Placeable(r)' PROVE HasValue(r, n)'
    <3>1. n \in Placeable(r)
      BY <1>4, <1>10, <2>1, PlaceableKept
    <3>2. PICK k \in ks : k[2] = n
      BY <1>4, <1>5, <3>1
    <3>3. k \in key' /\ data'[<<request'[r].doc, k>>] # None
      BY <1>1, <1>4, <1>6, <1>7, <3>2 DEF Seen
    <3> QED
      BY <3>2, <3>3 DEF HasValue
  <2> QED
    BY <1>1, <1>2, <1>4, <1>5, <2>1 DEF ThreadOK, OnExtracted, OnResolved
<1>14. UNCHANGED <<offered, asked, history>>
  BY <1>1 DEF history
<1> QED
  BY <1>5, <1>9, <1>10, <1>11, <1>12, <1>13, <1>14, QuietStep

\* The status that ends a good callback of extract: what it holds is stored.
LEMMA CompleteStep ==
    ASSUME IInv, NEW p \in Threads, Complete(p)
    PROVE  IInv' /\ Grows
<1>1. /\ thread[p] \in Thread /\ ThreadOK(thread[p]) /\ thread[p].pc = "complete"
      /\ UNCHANGED <<key, data, offered, asked, answered, named, repeats, faults>>
  BY Busy DEF Complete, messages, bounds
<1>2. PICK r \in Requests : r = ReqOf(p) /\ request[r].doc \in Docs
  BY <1>1, Busy
<1>3. PICK names \in SUBSET Names : names = thread[p].names
  BY <1>1 DEF Thread
<1>4. GoesOn(p, IdleThread)
  BY DEF Complete, Return, GoesOn
<1>5. /\ request' \in [Requests -> Request] /\ RequestRows'
      /\ \A x \in Requests : request'[x].doc = request[x].doc
  BY <1>2, StatusRow DEF Complete
<1>6. /\ delivered' \in [Requests -> SUBSET Names]
      /\ delivered'[r] = delivered[r] \cup names
      /\ \A x \in Requests : x # r => delivered'[x] = delivered[x]
  BY <1>2, <1>3 DEF Complete, IInv, TypeOK
<1>7. TypeOK'
  BY <1>1, <1>4, <1>5, <1>6, IdleOK DEF IInv, TypeOK, GoesOn
<1>8. Grows
  BY <1>1, <1>5 DEF Grows
<1>9. asked[r] # None /\ \A n \in names : n \in Placeable(r) => HasValue(r, n)
  BY <1>1, <1>2, <1>3 DEF ThreadOK, OnExtracted, ReqOf
<1>10. Offers'
  <2> SUFFICES ASSUME NEW x \in Requests
               PROVE  /\ offered[x] # None => request'[x].doc \in Docs /\ Seen(x, offered[x])
                      /\ asked[x] # None => offered[x] # None /\ Owned(x, named[x])
                      /\ asked[x] = None => delivered'[x] = {}
    BY <1>1, <1>5 DEF Offers, Seen, Owned, OrgOf
  <2> QED
    BY <1>5, <1>6, <1>9 DEF IInv, Offers
<1>11. ThreadsOK' /\ Values' /\ SharedKeys' /\ Single'
  BY <1>1, <1>4, <1>8, IdleOK, ThreadsKept, ValuesKept, SharedKept, SingleKept
<1>12. Delivered'
  <2>1. \A x \in Requests : \A n \in delivered[x] : n \in Placeable(x)' => HasValue(x, n)'
    BY <1>8, DeliveredKept
  <2>2. \A n \in names : n \in Placeable(r)' => HasValue(r, n)'
    BY <1>2, <1>8, <1>9, PlaceableKept, HasValueKept
  <2> QED
    BY <1>6, <2>1, <2>2 DEF Delivered
<1> QED
  BY <1>5, <1>7, <1>8, <1>10, <1>11, <1>12 DEF IInv

\* MarkRequestFailed.
LEMMA FailStep ==
    ASSUME IInv, NEW p \in Threads, Fail(p)
    PROVE  IInv' /\ Grows
<1>1. /\ thread[p].pc = "fail"
      /\ UNCHANGED <<key, data, offered, asked, answered, named, delivered, repeats, faults>>
  BY DEF Fail, messages, history, bounds
<1>2. PICK r \in Requests : r = ReqOf(p) /\ request[r].doc \in Docs
  BY <1>1, Busy
<1>3. GoesOn(p, IdleThread)
  BY DEF Fail, Return, GoesOn
<1>4. /\ request' \in [Requests -> Request] /\ RequestRows'
      /\ \A x \in Requests : request'[x].doc = request[x].doc
  BY <1>2, StatusRow DEF Fail
<1>5. TypeOK'
  BY <1>1, <1>3, <1>4, IdleOK DEF IInv, TypeOK, GoesOn
<1>6. Grows
  BY <1>1, <1>4 DEF Grows
<1>7. Values' /\ UNCHANGED <<offered, asked, history>>
  BY <1>1, <1>6, ValuesKept DEF history
<1> QED
  BY <1>3, <1>4, <1>5, <1>6, <1>7, IdleOK, QuietStep

\* A statement that fails, and a process that dies.
LEMMA FaultStep ==
    ASSUME IInv, NEW p \in Threads, StepError(p) \/ Abort(p)
    PROVE  IInv' /\ Grows
<1>1. /\ faults > 0 /\ faults' = faults - 1
      /\ UNCHANGED <<tables, messages, history, repeats>>
      /\ thread[p].pc # "idle"
  BY DEF StepError, Abort
<1>2. thread[p] \in Thread /\ ThreadOK(thread[p])
  BY <1>1, Busy
<1>3. PICK r \in Requests : r = ReqOf(p) /\ request[r].doc \in Docs
  BY <1>1, Busy
<1>4. PICK t \in Thread :
        /\ GoesOn(p, t)
        /\ \/ t.pc = "idle"
           \/ t.pc = "fail" /\ t.req = r
           \/ /\ t.pc = "upsertKeys" /\ thread[p].pc = "upsertKeys" /\ t.req = r
              /\ t.named \ t.new \subseteq thread[p].named \ thread[p].new
  <2>1. CASE Return(p)
    BY <2>1, IdleOK DEF Return, GoesOn
  <2>2. CASE thread' = [thread EXCEPT ![p] = [IdleThread EXCEPT !.pc = "fail", !.req = ReqOf(p)]]
    <3> DEFINE t == [IdleThread EXCEPT !.pc = "fail", !.req = r]
    <3>1. t \in Thread /\ t.pc = "fail" /\ t.req = r
      BY DEF Thread, IdleThread
    <3>2. GoesOn(p, t)
      BY <1>3, <2>2 DEF GoesOn
    <3> QED
      BY <3>1, <3>2
  <2>3. ASSUME thread[p].pc = "upsertKeys", NEW n \in thread[p].new,
               thread' = [thread EXCEPT ![p].new = @ \ {n}, ![p].named = @ \ {n}]
        PROVE  \E t \in Thread :
                 /\ GoesOn(p, t) /\ t.pc = "upsertKeys" /\ t.req = r
                 /\ t.named \ t.new \subseteq thread[p].named \ thread[p].new
    <3> DEFINE t == [thread[p] EXCEPT !.new = thread[p].new \ {n}, !.named = thread[p].named \ {n}]
    <3>1. t \in Thread /\ t.pc = "upsertKeys" /\ t.req = r
          /\ t.named \ t.new \subseteq thread[p].named \ thread[p].new
      BY <1>2, <1>3, <2>3 DEF Thread, ReqOf
    <3>2. GoesOn(p, t)
      BY <2>3 DEF GoesOn, IInv, TypeOK
    <3> QED
      BY <3>1, <3>2
  <2> QED
    BY <2>1, <2>2, <2>3 DEF StepError, Abort
<1>5. TypeOK'
  <2>1. faults' \in Nat
    BY <1>1 DEF IInv, TypeOK
  <2> QED
    BY <1>1, <1>4, <2>1 DEF IInv, TypeOK, tables, messages, history, GoesOn
<1>6. UNCHANGED <<offered, asked, history>>
  BY <1>1 DEF messages
<1>7. Grows
  BY <1>1, <1>6, NoWriteGrows
<1>8. RequestRows' /\ Values'
  BY <1>1, <1>7, ValuesKept DEF IInv, RequestRows, tables
<1>9. ThreadOK(t)'
  <2>1. request'[r].doc \in Docs /\ offered'[r] = offered[r]
    BY <1>1, <1>3 DEF tables, messages
  <2>2. ASSUME t.pc = "upsertKeys" PROVE offered[r] # None /\ Owned(r, t.named \ t.new)'
    <3>1. offered[r] # None /\ Owned(r, thread[p].named \ thread[p].new)
      BY <1>2, <1>3, <1>4, <2>2 DEF ThreadOK, OnResolved, ReqOf
    <3>2. Owned(r, t.named \ t.new)
      BY <1>4, <2>2, <3>1 DEF Owned
    <3> QED
      BY <1>3, <1>7, <3>1, <3>2, OwnedKept
  <2> QED
    BY <1>4, <2>1, <2>2 DEF ThreadOK, OnExtracted, OnResolved
<1>10. t.pc # "enqueueResolveKeys"
  BY <1>4
<1> QED
  BY <1>4, <1>5, <1>6, <1>7, <1>8, <1>9, <1>10, QuietStep


-----------------------------------------------------------------------------
(* The invariants *)

\* The initial state: the shared keys, nothing else.
LEMMA InitIInv == Init => IInv
<1> SUFFICES ASSUME Init PROVE IInv
  OBVIOUS
<1>1. TypeOK
  <2>1. key \subseteq KeyIds
    BY DEF Init, KeyIds
  <2>2. request \in [Requests -> Request]
    BY DEF Init, Request
  <2> QED
    BY <2>1, <2>2, IdleOK DEF Init, TypeOK
<1>2. SharedKeys /\ RequestRows /\ Offers /\ Values /\ Delivered
  BY DEF Init, SharedKeys, RequestRows, Offers, Values, Delivered
<1>3. \A p \in Threads : thread[p] = IdleThread
  BY DEF Init
<1>4. ThreadsOK /\ Single
  BY <1>3, IdleOK DEF ThreadsOK, ThreadOK, Single
<1> QED
  BY <1>1, <1>2, <1>4 DEF IInv

\* Nothing happens.
LEMMA StutterStep == ASSUME IInv, UNCHANGED vars PROVE IInv' /\ Grows
<1>1. Grows
  BY NoWriteGrows DEF vars, tables, history
<1>2. TypeOK' /\ RequestRows' /\ Offers' /\ Values' /\ SharedKeys'
  BY <1>1, OffersKept, ValuesKept, SharedKept DEF vars, IInv, TypeOK, RequestRows
<1>3. ThreadsOK'
  <2> SUFFICES ASSUME NEW q \in Threads PROVE ThreadOK(thread[q])'
    BY DEF ThreadsOK
  <2>1. PICK u \in Thread : u = thread[q] /\ u = thread'[q]
    BY DEF vars, IInv, TypeOK
  <2>2. ThreadOK(u)
    BY <2>1 DEF IInv, ThreadsOK
  <2>3. ThreadOK(u)'
    BY <1>1, <2>2, GrowsThread
  <2> QED
    BY <2>1, <2>3
<1>4. Single'
  BY DEF vars, IInv, Single
<1>5. Delivered'
  <2>1. \A x \in Requests : \A n \in delivered[x] : n \in Placeable(x)' => HasValue(x, n)'
    BY <1>1, DeliveredKept
  <2>2. delivered' = delivered
    BY DEF vars
  <2> QED
    BY <2>1, <2>2 DEF Delivered
<1> QED
  BY <1>1, <1>2, <1>3, <1>4, <1>5 DEF IInv

\* Every step keeps the invariant, and takes nothing back.
LEMMA NextStep == IInv /\ [Next]_vars => IInv' /\ Grows
BY StutterStep, InitiateStep, WorkerAnswerStep, EnqueueResolveKeysStep, UpsertExtractionKeyStep,
   SetResolvedSchemaStep, EnqueueExtractStep, LookupKeysStep, BatchUpsertExtractedDataStep,
   CompleteStep, FailStep, FaultStep DEF Next

\* Every step keeps the invariant.
LEMMA NextIInv == IInv /\ [Next]_vars => IInv'
BY NextStep

\* IInv holds in every reachable state.
THEOREM Inductive == Spec => []IInv
BY InitIInv, NextIInv, PTL DEF Spec

\* The tables, the messages and the handlers keep their types.
THEOREM TypeCorrect == Spec => []TypeOK
<1>1. IInv => TypeOK
  BY DEF IInv
<1> QED
  BY <1>1, Inductive, PTL

\* No tenant is offered another's keys or shown another's values.
THEOREM TenantsApart == Spec => []TenantIsolation
<1>1. IInv => TenantIsolation
  BY DEF IInv, TenantIsolation, Offers, Seen, Values, SharedKeys
<1> QED
  BY <1>1, Inductive, PTL

\* A name whose value completed a request shows a value, if it had a key when
\* extract was started, whatever was repeated, failed or aborted meanwhile.
THEOREM Answered == Spec => []CompletedIsAnswered
<1>1. IInv => CompletedIsAnswered
  <2> SUFFICES ASSUME IInv, NEW r \in Requests, NEW n \in delivered[r],
                      n \in request[r].resolved_schema, n \in Placeable(r)
               PROVE  n \in NamesOf(GetAnswers(r))
    BY DEF CompletedIsAnswered
  <2>1. PICK k \in key : k[2] = n /\ data[<<request[r].doc, k>>] # None
    BY DEF IInv, Delivered, HasValue
  <2>2. k \in GetAnswers(r)
    BY <2>1 DEF GetAnswers, ListExtractedDataForKeys
  <2> QED
    BY <2>1, <2>2 DEF NamesOf
<1> QED
  BY <1>1, Inductive, PTL

\* No step of anybody takes an answer back that is still asked for.
THEOREM AnswersKept == Spec => AnswersStay
<1> DEFINE Stays == \A r \in Requests : \A k \in GetAnswers(r) :
                        k[2] \in request'[r].resolved_schema => k \in GetAnswers(r)'
<1>1. IInv /\ [Next]_vars => Stays
  <2> SUFFICES ASSUME IInv, [Next]_vars, NEW r \in Requests, NEW k \in GetAnswers(r),
                      k[2] \in request'[r].resolved_schema
               PROVE  k \in GetAnswers(r)'
    OBVIOUS
  <2>1. PICK d \in Docs : d = request[r].doc
    <3>1. request[r].resolved_schema # {}
      BY DEF GetAnswers
    <3>2. request[r] \in Request
      BY DEF IInv, TypeOK
    <3> QED
      BY <3>1, <3>2 DEF IInv, RequestRows, Request
  <2>2. k \in key /\ data[<<d, k>>] # None /\ <<d, k>> \in Docs \X KeyIds
    BY <2>1 DEF GetAnswers, ListExtractedDataForKeys, IInv, TypeOK
  <2>3. request'[r].doc = d /\ k \in key' /\ data'[<<d, k>>] # None
    BY <2>1, <2>2, NextStep DEF Grows
  <2> QED
    BY <2>3 DEF GetAnswers, ListExtractedDataForKeys
<1> QED
  BY <1>1, Inductive, PTL DEF Spec, AnswersStay
=============================================================================
