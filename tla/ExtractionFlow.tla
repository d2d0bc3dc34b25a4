---------------------------- MODULE ExtractionFlow ----------------------------
(***************************************************************************)
(* What the pipeline promises about an extraction request, without tasks,  *)
(* messages, handlers and faults.  A request is submitted for one text of  *)
(* one document, waits until that text is there, has its questions turned  *)
(* into a schema, has the values extracted, and ends.                      *)
(*                                                                         *)
(* Stages are passed one at a time and never backwards.  An end is not     *)
(* final: extraction_requests.status is written without a condition, so a  *)
(* late handler may replace one end by the other, or open a failed request *)
(* again.  The specification says how far that can go: only extraction     *)
(* completes a request, and a request is opened again only before its      *)
(* extraction has begun, so never after it was completed.                  *)
(***************************************************************************)
CONSTANTS Docs, Requests, Schemas, None

VARIABLES
    text,      \* the texts each document has: the original's and derived ones
    stage,     \* how far a request has come
    wanted,    \* the document and the text a request reads
    schema,    \* the schema its questions were resolved to
    outcome    \* "open", or how it ended

vars == <<text, stage, wanted, schema, outcome>>

Texts == {"convert_md", "anonymize_doc"}
Ends == {"completed", "failed"}

Init ==
    /\ text = [d \in Docs |-> {}]
    /\ stage = [r \in Requests |-> "none"]
    /\ wanted = [r \in Requests |-> None]
    /\ schema = [r \in Requests |-> None]
    /\ outcome = [r \in Requests |-> "open"]

\* The conversion or the anonymization of a document has produced its text.
AddText(d, k) ==
    /\ text' = [text EXCEPT ![d] = @ \cup {k}]
    /\ UNCHANGED <<stage, wanted, schema, outcome>>

Submit(r, d, k) ==
    /\ stage[r] = "none"
    /\ stage' = [stage EXCEPT ![r] = "submitted"]
    /\ wanted' = [wanted EXCEPT ![r] = <<d, k>>]
    /\ UNCHANGED <<text, schema, outcome>>

StartResolving(r) ==
    /\ stage[r] = "submitted"
    /\ wanted[r][2] \in text[wanted[r][1]]
    /\ stage' = [stage EXCEPT ![r] = "resolving"]
    /\ UNCHANGED <<text, wanted, schema, outcome>>

\* resolve_keys may come back more than once.
Resolve(r, s) ==
    /\ stage[r] \in {"resolving", "extracting"}
    /\ schema' = [schema EXCEPT ![r] = s]
    /\ UNCHANGED <<text, stage, wanted, outcome>>

StartExtracting(r) ==
    /\ stage[r] = "resolving"
    /\ schema[r] # None
    /\ stage' = [stage EXCEPT ![r] = "extracting"]
    /\ UNCHANGED <<text, wanted, schema, outcome>>

Complete(r) ==
    /\ stage[r] = "extracting"
    /\ outcome' = [outcome EXCEPT ![r] = "completed"]
    /\ UNCHANGED <<text, stage, wanted, schema>>

Fail(r) ==
    /\ stage[r] # "none"
    /\ outcome' = [outcome EXCEPT ![r] = "failed"]
    /\ UNCHANGED <<text, stage, wanted, schema>>

\* A handler that read the request before it failed sets it to running.
Reopen(r) ==
    /\ stage[r] = "resolving"
    /\ outcome' = [outcome EXCEPT ![r] = "open"]
    /\ UNCHANGED <<text, stage, wanted, schema>>

Next ==
    \/ \E d \in Docs, k \in Texts : AddText(d, k)
    \/ \E r \in Requests :
         \/ \E d \in Docs, k \in Texts : Submit(r, d, k)
         \/ StartResolving(r)
         \/ \E s \in Schemas : Resolve(r, s)
         \/ StartExtracting(r)
         \/ Complete(r)
         \/ Fail(r)
         \/ Reopen(r)

Spec == Init /\ [][Next]_vars
=============================================================================
