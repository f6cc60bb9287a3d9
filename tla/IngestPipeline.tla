--------------------------- MODULE IngestPipeline ---------------------------
(***************************************************************************)
(* Telemetry ingestion: requests of the HTTPS ingress, the ingress queue,  *)
(* ingest workers and operators, and what they keep between them.          *)
(***************************************************************************)
EXTENDS IngestWorker

vars == <<storeVars, ingressVars, workerVars>>

Init == StoreInit /\ IngressInit /\ WorkerInit

IngressStep == IngressNext /\ UNCHANGED workerVars

HandlerStep == HandlerNext /\ UNCHANGED ingressVars

OperatorStep == OperatorNext /\ UNCHANGED ingressVars

LifecycleStep ==
    /\ \E l \in Links, target \in LinkStatuses : Transition(l, target)
    /\ UNCHANGED <<ingressVars, workerVars>>

Next == IngressStep \/ HandlerStep \/ OperatorStep \/ LifecycleStep

Spec == Init /\ [][Next]_vars
-----------------------------------------------------------------------------
Receipts == [id : Nat \ {0}, body : Bodies, at : Nat, enqueued : BOOLEAN]

TypeOK ==
    /\ now \in Nat
    /\ receipt \in [Keys -> Receipts \cup {NoReceipt}]
    /\ request \in [Requests -> {NotArrived, Ended} \cup
                    [pc : {"lookup", "admission", "claim", "send", "mark"}, key : Keys,
                     body : Bodies, at : Nat, receipt : Receipts \cup {NoReceipt}]]
    /\ issued \in Seq([key : Keys, body : Bodies, at : Nat])
    /\ answers \subseteq [id : Nat, key : Keys, body : Bodies]

(* Which batch was sent under which id. *)
SentBatches == {<<m.envelope.id, m.envelope.obs>> : m \in sent}

EnvelopeSent(id, body) == <<[n |-> id, via |-> {}], body>> \in SentBatches

(* Retries agree: a 202 answers with an ingress id that was claimed for      *)
(* that very key and batch and whose envelope is in the queue, and one key   *)
(* gets a second id only when the first one's receipt has run out, up to the *)
(* time a request is in flight.  Lookup, claim, lost claim, resume and       *)
(* expiry each see the receipt at a different time, against a clock that     *)
(* IngressService.admit reads once.                                          *)
RetriesAgree ==
    /\ \A a \in answers :
         /\ a.id \in DOMAIN issued
         /\ issued[a.id].key = a.key /\ issued[a.id].body = a.body
         /\ EnvelopeSent(a.id, a.body)
    /\ \A i, j \in DOMAIN issued :
         i < j /\ issued[i].key = issued[j].key
           => issued[i].at + TTL <= issued[j].at + RequestTimeout

Envelopes == {m.envelope : m \in sent}

Held(e) == \E m \in DOMAIN queue \cup dlq : m.envelope = e

Stored(e) ==
    \A o \in e.obs :
      \/ RowKey(e, o) \in DOMAIN rows
      \/ /\ <<"observation_numeric", o>> \in points
         /\ o \in LegacyEligible => <<"water_quality", o>> \in points

(* Nothing sent is lost: each envelope the queue took is in the queue, in    *)
(* the dead-letter queue, or stored, every observation as points or as a     *)
(* quarantine row; and a row marked as replayed has its replay among them.   *)
(* Whatever fails between the writes, the rows, the delete and the redrive.  *)
NothingLost ==
    /\ \A e \in Envelopes : Held(e) \/ Stored(e)
    /\ \A key \in DOMAIN rows :
         rows[key].status = "replayed" =>
           \E e \in Envelopes : e.id = [key[1] EXCEPT !.via = rows[key].by] /\ key[2] \in e.obs

(* Marks do not depend on the order in which handlers, redeliveries and     *)
(* retries apply them: each is the highest value it was ever given, with    *)
(* the tie-breaker that came with it (_advance).                            *)
MarksHighest ==
    \A name \in MarkNames :
      marks[name] = Highest({NoMark} \cup {x[2] : x \in {y \in offered : y[1] = name}})

(* An operator's decision about a quarantined observation stands: no        *)
(* redelivery, redrive or concurrent command reopens or changes it.         *)
DecisionsStand ==
    [][\A key \in DOMAIN rows :
         key \in DOMAIN rows' /\ (rows[key].status # "open" => rows'[key] = rows[key])]_vars
=============================================================================
