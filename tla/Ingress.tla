------------------------------ MODULE Ingress ------------------------------
(***************************************************************************)
(* HTTPS ingress (services/ingestion.py, IngressService.admit): a request  *)
(* looks its receipt up, is admitted, claims the receipt, sends one        *)
(* envelope and marks the receipt, with an await between any two of them.  *)
(* Authentication, rate limits and validation only refuse, and come first. *)
(***************************************************************************)
EXTENDS IngestStore

CONSTANTS
    Requests,        \* requests, a client's retries among them
    Keys,            \* idempotency keys of one account
    Bodies,          \* batches a client may send: sets of observations
    TTL,             \* _RECEIPT_TTL_US
    RequestTimeout,  \* the longest a request is in flight
    MaxTime,         \* bound: clock
    MaxIds           \* bound: ingress ids claimed

ASSUME IngressAssumption ==
    /\ TTL \in Nat /\ RequestTimeout \in Nat /\ RequestTimeout < TTL
    /\ MaxTime \in Nat /\ MaxIds \in Nat

(* Times and sequence numbers (SequenceNumber) are not negative. *)
ASSUME BodiesAssumption == \A body \in Bodies : IsFiniteSet(body) /\ body \subseteq Nat \X Nat

VARIABLES
    now,      \* the clock
    receipt,  \* INGRESS_RECEIPT# items, by key
    request,  \* what each request has read and decided
    issued,   \* history: the claims that were written, by ingress id
    answers   \* history: 202 responses

ingressVars == <<now, receipt, request, issued, answers>>

(* No receipt item: ingress ids start at 1. *)
NoReceipt == [id |-> 0, body |-> {}, at |-> 0, enqueued |-> FALSE]

NotArrived == [pc |-> "idle"]

Ended == [pc |-> "ended"]

IngressInit ==
    /\ now = 1
    /\ receipt = [k \in Keys |-> NoReceipt]
    /\ request = [q \in Requests |-> NotArrived]
    /\ issued = <<>>
    /\ answers = {}

Busy(q) == request[q].pc \notin {"idle", "ended"}

(* is_ingress_receipt_live; the claim's condition is its negation. *)
Live(r, at) == r # NoReceipt /\ at < r.at + TTL

(* decide_receipt_replay *)
ReceiptAction(r, body, at) ==
    CASE ~Live(r, at)                       -> "admit"
      [] Live(r, at) /\ r.body # body       -> "conflict"
      [] Live(r, at) /\ r.body = body /\ r.enqueued  -> "replay"
      [] Live(r, at) /\ r.body = body /\ ~r.enqueued -> "resume"

Accept(q, id) ==
    answers' = answers \cup {[id |-> id, key |-> request[q].key, body |-> request[q].body]}

Finish(q) == request' = [request EXCEPT ![q] = Ended]

Goto(q, pc, r) == request' = [request EXCEPT ![q].pc = pc, ![q].receipt = r]

(* The request arrives; its time is read once. *)
Arrive(q, key, body) ==
    /\ request[q].pc = "idle"
    /\ request' = [request EXCEPT ![q] = [pc |-> "lookup", key |-> key, body |-> body,
                                          at |-> now, receipt |-> NoReceipt]]
    /\ UNCHANGED <<storeVars, now, receipt, issued, answers>>

(* What a receipt found by the lookup, or by a lost claim, means. *)
Follow(q, r, otherwise) ==
    LET action == ReceiptAction(r, request[q].body, request[q].at)
    IN  \/ action = "conflict" /\ Finish(q) /\ UNCHANGED answers
        \/ action = "replay" /\ Accept(q, r.id) /\ Finish(q)
        \/ action = "resume" /\ Goto(q, otherwise.resume, r) /\ UNCHANGED answers
        \/ action = "admit" /\ Goto(q, otherwise.admit, NoReceipt) /\ UNCHANGED answers

(* get_ingress_receipt, consistent. *)
Lookup(q) ==
    /\ request[q].pc = "lookup"
    /\ Follow(q, receipt[request[q].key], [resume |-> "admission", admit |-> "admission"])
    /\ UNCHANGED <<storeVars, now, receipt, issued>>

(* The trusted mapping and the entitlement let the request through. *)
Admit(q) ==
    /\ request[q].pc = "admission"
    /\ Admitted
    /\ Goto(q, IF request[q].receipt = NoReceipt THEN "claim" ELSE "send", request[q].receipt)
    /\ UNCHANGED <<storeVars, now, receipt, issued, answers>>

(* Mutant: the put has no condition. *)
ClaimOverwrites(q) ==
    /\ request[q].pc = "claim"
    /\ Len(issued) < MaxIds
    /\ LET new == [id |-> Len(issued) + 1, body |-> request[q].body, at |-> request[q].at,
                   enqueued |-> FALSE]
       IN  /\ receipt' = [receipt EXCEPT ![request[q].key] = new]
           /\ Goto(q, "send", new)
    /\ issued' = Append(issued, [key |-> request[q].key, body |-> request[q].body,
                                 at |-> request[q].at])
    /\ UNCHANGED <<storeVars, now, answers>>

(* claim_ingress_receipt: a put on the condition that no live receipt is there. *)
Claim(q) ==
    /\ request[q].pc = "claim"
    /\ ~Live(receipt[request[q].key], request[q].at)
    /\ Len(issued) < MaxIds
    /\ LET new == [id |-> Len(issued) + 1, body |-> request[q].body, at |-> request[q].at,
                   enqueued |-> FALSE]
       IN  /\ receipt' = [receipt EXCEPT ![request[q].key] = new]
           /\ Goto(q, "send", new)
    /\ issued' = Append(issued, [key |-> request[q].key, body |-> request[q].body,
                                 at |-> request[q].at])
    /\ UNCHANGED <<storeVars, now, answers>>

(* The condition failed: the winner comes back with the failure. *)
LoseClaim(q) ==
    /\ request[q].pc = "claim"
    /\ Live(receipt[request[q].key], request[q].at)
    /\ Follow(q, receipt[request[q].key], [resume |-> "send", admit |-> "claim"])
    /\ UNCHANGED <<storeVars, now, receipt, issued>>

(* producer.send of the envelope with the receipt's id and first received_at; *)
(* it may answer with an error although the message is in the queue.          *)
Send(q) ==
    /\ request[q].pc = "send"
    /\ LET r == request[q].receipt
       IN  Transmit(Envelope(r.id, {}, r.at, request[q].body))
    /\ Goto(q, "mark", request[q].receipt) \/ Finish(q)
    /\ UNCHANGED <<status, changes, now, receipt, issued, answers>>

(* mark_ingress_receipt_enqueued, then the 202; the mark may fail or be refused. *)
Mark(q) ==
    /\ request[q].pc = "mark"
    /\ LET key == request[q].key
           id == request[q].receipt.id
       IN  /\ \/ /\ receipt[key] # NoReceipt /\ receipt[key].id = id
                 /\ receipt' = [receipt EXCEPT ![key].enqueued = TRUE]
              \/ UNCHANGED receipt
           /\ Accept(q, id)
    /\ Finish(q)
    /\ UNCHANGED <<storeVars, now, issued>>

(* Denied, failed with 503, cancelled, or the process died. *)
Abort(q) ==
    /\ Busy(q)
    /\ Finish(q)
    /\ UNCHANGED <<storeVars, now, receipt, issued, answers>>

(* expires_at has passed and DynamoDB removes the item. *)
ExpireReceipt(k) ==
    /\ receipt[k] # NoReceipt /\ receipt[k].at + TTL <= now
    /\ receipt' = [receipt EXCEPT ![k] = NoReceipt]
    /\ UNCHANGED <<storeVars, now, request, issued, answers>>

(* Time passes; no request outlives its timeout. *)
Tick ==
    /\ now < MaxTime
    /\ \A q \in Requests : Busy(q) => now < request[q].at + RequestTimeout
    /\ now' = now + 1
    /\ UNCHANGED <<storeVars, receipt, request, issued, answers>>

IngressNext ==
    \/ Tick
    \/ \E k \in Keys : ExpireReceipt(k)
    \/ \E q \in Requests :
         \/ \E key \in Keys, body \in Bodies : Arrive(q, key, body)
         \/ Lookup(q) \/ Admit(q) \/ Claim(q) \/ LoseClaim(q) \/ Send(q) \/ Mark(q) \/ Abort(q)
=============================================================================
