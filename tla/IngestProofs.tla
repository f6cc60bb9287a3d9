----------------------------- MODULE IngestProofs -----------------------------
(***************************************************************************)
(* Proofs about ingestion.  First about the pipeline: RetriesAgree for     *)
(* every number of requests, keys, batches and handlers, and every         *)
(* lifetime of a receipt longer than a request; decisions that stand;      *)
(* NothingLost and MarksHighest.  Then about the loop of the worker        *)
(* (IngestLoop), for every set of deliveries, every number of permits,     *)
(* every batch size and every stall threshold: the last word on a message  *)
(* stands, and a wedged worker does not go on unseen.                      *)
(*                                                                         *)
(* RetriesAgree is not inductive: it says nothing of receipts and requests *)
(* in flight, from which answers and new ids come.  Inv adds what a        *)
(* receipt and a request know about the claims that were made.             *)
(***************************************************************************)
EXTENDS IngestPipeline, IngestLoop, FiniteSetTheorems, WellFoundedInduction, TLAPS

(* r is, or was, the receipt of a claim that was made for key k. *)
Claimed(r, k) ==
    /\ r # NoReceipt
    /\ r.id \in DOMAIN issued
    /\ issued[r.id] = [key |-> k, body |-> r.body, at |-> r.at]
    /\ r.enqueued => EnvelopeSent(r.id, r.body)

(* Every other claim for the key is a lifetime older than the receipt, and *)
(* without a receipt all have run out.                                     *)
ReceiptInv ==
    \A k \in Keys :
      /\ receipt[k] # NoReceipt => Claimed(receipt[k], k)
      /\ \A i \in DOMAIN issued :
           issued[i].key = k =>
             IF receipt[k] = NoReceipt THEN issued[i].at + TTL <= now
             ELSE i # receipt[k].id => issued[i].at + TTL <= receipt[k].at + RequestTimeout

(* A request in flight is not older than its timeout; one that has a       *)
(* receipt has it from a claim for its own key and batch, and one that is  *)
(* about to mark it has sent the envelope.                                 *)
RequestInv ==
    \A q \in Requests :
      Busy(q) =>
        /\ request[q].at <= now /\ now <= request[q].at + RequestTimeout
        /\ request[q].pc \in {"send", "mark"} => request[q].receipt # NoReceipt
        /\ request[q].receipt # NoReceipt =>
             Claimed(request[q].receipt, request[q].key) /\ request[q].receipt.body = request[q].body
        /\ request[q].pc = "mark" => EnvelopeSent(request[q].receipt.id, request[q].body)

Inv == TypeOK /\ ReceiptInv /\ RequestInv /\ RetriesAgree
-----------------------------------------------------------------------------
(* What was sent stays sent: no handler of ingress, worker or operator takes *)
(* a message back.                                                           *)
LEMMA SentGrows == [Next]_vars => SentBatches \subseteq SentBatches'
<1> SUFFICES ASSUME [Next]_vars PROVE sent \subseteq sent'
    BY Zenon DEF SentBatches
<1>1. CASE IngressStep
    BY <1>1, Zenon DEF IngressStep, IngressNext, Tick, ExpireReceipt, Arrive, Lookup, Admit, Claim,
                LoseClaim, Send, Mark, Abort, Transmit, storeVars
<1>2. CASE HandlerStep
    BY <1>2, Zenon DEF HandlerStep, HandlerNext, Work, Retry, Receive, DeadLetter, Trust, Fence, Write,
                WriteLegacy, PutRow, Advance, Delete, storeVars
<1>3. CASE OperatorStep
    BY <1>3, Zenon DEF OperatorStep, OperatorNext, Redrive, FinishRedrive, SendReplay, StopRun,
                MarkReplayed, Dismiss, Replay, Transmit, storeVars
<1>4. CASE LifecycleStep
    BY <1>4, Zenon DEF LifecycleStep, Transition
<1>5. CASE UNCHANGED vars
    BY <1>5, Zenon DEF vars, storeVars
<1> QED
    BY <1>1, <1>2, <1>3, <1>4, <1>5, Zenon DEF Next

(* Steps that leave the ingress alone keep the invariant. *)
LEMMA FrameKeeps ==
    ASSUME Inv, UNCHANGED ingressVars, SentBatches \subseteq SentBatches'
    PROVE  Inv'
<1> USE DEF ingressVars
<1>1. TypeOK'
    BY Zenon DEF Inv, TypeOK
<1>2. ReceiptInv'
    BY Zenon DEF Inv, ReceiptInv, Claimed, EnvelopeSent
<1>3. RequestInv'
    BY Zenon DEF Inv, RequestInv, Claimed, EnvelopeSent, Busy
<1>4. RetriesAgree'
    BY Zenon DEF Inv, RetriesAgree, EnvelopeSent
<1> QED
    BY <1>1, <1>2, <1>3, <1>4, Zenon DEF Inv
-----------------------------------------------------------------------------
Records == [pc : {"lookup", "admission", "claim", "send", "mark"}, key : Keys, body : Bodies,
            at : Nat, receipt : Receipts \cup {NoReceipt}]

(* What the type invariant says of one request in flight. *)
LEMMA BusyRecord ==
    ASSUME TypeOK, NEW q \in Requests, Busy(q)
    PROVE  /\ request[q] \in Records
           /\ request[q].key \in Keys /\ request[q].body \in Bodies /\ request[q].at \in Nat
           /\ request[q].receipt \in Receipts \cup {NoReceipt}
<1>1. request[q] \in {NotArrived, Ended} \cup Records
    BY Zenon DEF TypeOK, Records
<1>2. request[q] # NotArrived /\ request[q] # Ended
    BY DEF Busy, NotArrived, Ended
<1> QED
    BY <1>1, <1>2, Zenon DEF Records

(* What it says of one claim that was made. *)
LEMMA IssuedAt ==
    ASSUME TypeOK, NEW i \in DOMAIN issued
    PROVE  issued[i].at \in Nat
<1> DEFINE T == [key : Keys, body : Bodies, at : Nat]
<1>1. issued \in Seq(T) /\ \A t \in T : t.at \in Nat
    BY Zenon DEF TypeOK
<1> HIDE DEF T
<1>2. issued[i] \in T
    BY <1>1
<1> QED
    BY <1>1, <1>2, Zenon

(* A request that goes on with a receipt keeps its time, key and batch. *)
LEMMA GotoKeeps ==
    ASSUME TypeOK, RequestInv, NEW q \in Requests, Busy(q),
           NEW pc \in {"lookup", "admission", "claim", "send", "mark"},
           NEW r \in Receipts \cup {NoReceipt},
           NEW k, k = request[q].key, NEW body, body = request[q].body,
           Goto(q, pc, r),
           now' = now,
           \A i \in DOMAIN issued : i \in DOMAIN issued' /\ issued'[i] = issued[i],
           SentBatches \subseteq SentBatches',
           pc \in {"send", "mark"} => r # NoReceipt,
           r # NoReceipt => Claimed(r, k)' /\ r.body = body,
           pc = "mark" => EnvelopeSent(r.id, body)'
    PROVE  /\ request' \in [Requests -> {NotArrived, Ended} \cup Records]
           /\ RequestInv'
<1>1. request[q] \in Records
    BY BusyRecord, Zenon
<1>2. request' = [request EXCEPT ![q] = [request[q] EXCEPT !.pc = pc, !.receipt = r]]
    BY <1>1, Zenon DEF Goto, Records, TypeOK
<1> DEFINE new == [request[q] EXCEPT !.pc = pc, !.receipt = r]
<1>3. /\ new \in Records
      /\ new.pc = pc /\ new.receipt = r
      /\ new.key = k /\ new.body = body /\ new.at = request[q].at
    BY <1>1, Zenon DEF Records
<1>4. request'[q] = new /\ \A p \in Requests : p # q => request'[p] = request[p]
    BY <1>2, Zenon DEF TypeOK
<1>5. request' \in [Requests -> {NotArrived, Ended} \cup Records]
    BY <1>2, <1>3, Zenon DEF TypeOK, Records
<1> HIDE DEF new
<1>6. ASSUME NEW p \in Requests, Busy(p)'
      PROVE  /\ request'[p].at <= now' /\ now' <= request'[p].at + RequestTimeout
             /\ request'[p].pc \in {"send", "mark"} => request'[p].receipt # NoReceipt
             /\ request'[p].receipt # NoReceipt =>
                  /\ Claimed(request[p].receipt, request[p].key)'
                  /\ request'[p].receipt.body = request'[p].body
             /\ request'[p].pc = "mark" =>
                  EnvelopeSent(request[p].receipt.id, request[p].body)'
  <2>1. CASE p = q
      BY <1>3, <1>4, <2>1, Zenon DEF RequestInv, Claimed, EnvelopeSent, NoReceipt
  <2>2. CASE p # q
    <3>1. request'[p] = request[p] /\ Busy(p)
        BY <1>4, <1>6, <2>2, Zenon DEF Busy
    <3> QED
        BY <3>1 DEF RequestInv, Claimed, EnvelopeSent, NoReceipt
  <2> QED
      BY <2>1, <2>2, Zenon
<1> QED
    BY <1>5, <1>6, Zenon DEF RequestInv

(* A request that ends leaves the others as they are. *)
LEMMA FinishKeeps ==
    ASSUME TypeOK, RequestInv, NEW q \in Requests, Finish(q),
           now' = now, issued' = issued, SentBatches \subseteq SentBatches'
    PROVE  /\ request' \in [Requests -> {NotArrived, Ended} \cup Records]
           /\ RequestInv'
<1>1. request' \in [Requests -> {NotArrived, Ended} \cup Records]
    BY Zenon DEF TypeOK, Finish, Records
<1>2. ASSUME NEW p \in Requests, Busy(p)'
      PROVE  p # q /\ Busy(p) /\ request'[p] = request[p]
    BY <1>2, Zenon DEF TypeOK, Finish, Busy, Ended
<1>3. RequestInv'
    BY <1>2, ZenonT(30) DEF RequestInv, Claimed, EnvelopeSent
<1> QED
    BY <1>1, <1>3, Zenon
-----------------------------------------------------------------------------
(* Ids, receipts and time stay; the request moves, and an answer may be given *)
(* that names a claim for its key and batch whose envelope was sent.          *)
LEMMA QuietKeeps ==
    ASSUME Inv, SentBatches \subseteq SentBatches', UNCHANGED <<now, receipt, issued>>,
           request' \in [Requests -> {NotArrived, Ended} \cup Records], RequestInv',
           NEW a \in [id : Nat, key : Keys, body : Bodies],
           \/ UNCHANGED answers
           \/ /\ answers' = answers \cup {a}
              /\ a.id \in DOMAIN issued
              /\ issued[a.id].key = a.key /\ issued[a.id].body = a.body
              /\ EnvelopeSent(a.id, a.body)
    PROVE  Inv'
<1>1. TypeOK'
    BY Zenon DEF Inv, TypeOK, Records
<1>2. ReceiptInv'
    BY Zenon DEF Inv, ReceiptInv, Claimed, EnvelopeSent
<1>3. RetriesAgree'
    BY Zenon DEF Inv, RetriesAgree, EnvelopeSent
<1> QED
    BY <1>1, <1>2, <1>3, Zenon DEF Inv

(* What is known of a claim stays known. *)
LEMMA ClaimedKeeps ==
    ASSUME NEW r, NEW k, Claimed(r, k), SentBatches \subseteq SentBatches',
           \A i \in DOMAIN issued : i \in DOMAIN issued' /\ issued'[i] = issued[i]
    PROVE  Claimed(r, k)'
    BY Zenon DEF Claimed, EnvelopeSent

(* Every meaning of a receipt that was found keeps the invariant. *)
LEMMA FollowKeeps ==
    ASSUME Inv, NEW q \in Requests, Busy(q), SentBatches \subseteq SentBatches',
           UNCHANGED <<now, receipt, issued>>,
           NEW o \in [resume : {"admission", "send"}, admit : {"admission", "claim"}],
           Follow(q, receipt[request[q].key], o)
    PROVE  Inv'
<1>1. PICK k, body, r : k = request[q].key /\ body = request[q].body /\ r = receipt[k]
    BY Zenon
<1> DEFINE a == [id |-> r.id, key |-> k, body |-> body]
<1>2. TypeOK /\ ReceiptInv /\ RequestInv
    BY Zenon DEF Inv
<1>3. k \in Keys /\ body \in Bodies
    BY <1>1, <1>2, BusyRecord, Zenon
<1>4. r \in Receipts \cup {NoReceipt}
    BY <1>1, <1>2, <1>3, Zenon DEF TypeOK
<1>5. r # NoReceipt => Claimed(r, k)
    BY <1>1, <1>2, <1>3, Zenon DEF ReceiptInv
<1>6. r # NoReceipt => Claimed(r, k)'
    BY <1>5, ClaimedKeeps, Zenon
<1>7. a \in [id : Nat, key : Keys, body : Bodies]
    BY <1>3, <1>4 DEF Receipts, NoReceipt
<1>8. CASE Finish(q) /\ UNCHANGED answers
    BY <1>2, <1>7, <1>8, FinishKeeps, QuietKeeps, Zenon
<1>9. CASE ReceiptAction(r, body, request[q].at) = "replay" /\ Accept(q, r.id) /\ Finish(q)
  <2>1. r # NoReceipt /\ r.body = body /\ r.enqueued
      BY <1>9, Zenon DEF ReceiptAction, Live
  <2>2. answers' = answers \cup {a}
      BY <1>1, <1>9, Zenon DEF Accept
  <2>3. /\ a.id \in DOMAIN issued
        /\ issued[a.id].key = a.key /\ issued[a.id].body = a.body
        /\ EnvelopeSent(a.id, a.body)
      BY <1>5, <2>1 DEF Claimed
  <2>4. request' \in [Requests -> {NotArrived, Ended} \cup Records] /\ RequestInv'
      BY <1>2, <1>9, FinishKeeps, Zenon
  <2> HIDE DEF a
  <2> QED
      BY <1>7, <2>2, <2>3, <2>4, QuietKeeps, Zenon
<1>10. CASE /\ ReceiptAction(r, body, request[q].at) = "resume"
            /\ Goto(q, o.resume, r) /\ UNCHANGED answers
  <2>1. r # NoReceipt /\ r.body = body
      BY <1>10, Zenon DEF ReceiptAction, Live
  <2>2. request' \in [Requests -> {NotArrived, Ended} \cup Records] /\ RequestInv'
      BY <1>1, <1>2, <1>4, <1>6, <1>10, <2>1, GotoKeeps, Zenon
  <2> QED
      BY <1>7, <1>10, <2>2, QuietKeeps, Zenon
<1>11. CASE Goto(q, o.admit, NoReceipt) /\ UNCHANGED answers
  <2>1. request' \in [Requests -> {NotArrived, Ended} \cup Records] /\ RequestInv'
      BY <1>1, <1>2, <1>11, GotoKeeps, Zenon
  <2> QED
      BY <1>7, <1>11, <2>1, QuietKeeps, Zenon
<1> QED
    BY <1>1, <1>8, <1>9, <1>10, <1>11, Zenon DEF Follow
-----------------------------------------------------------------------------
(* A request that arrives holds no receipt yet. *)
LEMMA ArriveKeeps ==
    ASSUME Inv, NEW q \in Requests, NEW key \in Keys, NEW body \in Bodies,
           Arrive(q, key, body), SentBatches \subseteq SentBatches'
    PROVE  Inv'
<1> DEFINE new == [pc |-> "lookup", key |-> key, body |-> body, at |-> now, receipt |-> NoReceipt]
<1> USE IngressAssumption DEF Inv
<1>1. new \in Records /\ request' = [request EXCEPT ![q] = new]
    BY Zenon DEF Arrive, TypeOK, Records
<1>2. request' \in [Requests -> {NotArrived, Ended} \cup Records]
    BY <1>1, Zenon DEF TypeOK, Records
<1>3. RequestInv'
  <2>1. request'[q] = new /\ \A p \in Requests : p # q => request'[p] = request[p]
      BY <1>1, Zenon DEF TypeOK
  <2>2. now' = now /\ issued' = issued /\ now \in Nat
      BY Zenon DEF Arrive, TypeOK
  <2>3. /\ new.pc = "lookup" /\ new.at = now /\ new.receipt = NoReceipt
      BY Zenon
  <2> HIDE DEF new
  <2> SUFFICES ASSUME NEW p \in Requests, Busy(p)'
               PROVE  /\ request'[p].at <= now' /\ now' <= request'[p].at + RequestTimeout
                      /\ request'[p].pc \in {"send", "mark"} => request'[p].receipt # NoReceipt
                      /\ request'[p].receipt # NoReceipt =>
                           /\ Claimed(request[p].receipt, request[p].key)'
                           /\ request'[p].receipt.body = request'[p].body
                      /\ request'[p].pc = "mark" =>
                           EnvelopeSent(request[p].receipt.id, request[p].body)'
      BY Zenon DEF RequestInv, NoReceipt
  <2>4. CASE p = q
      BY <2>1, <2>2, <2>3, <2>4
  <2>5. CASE p # q
    <3>1. request'[p] = request[p] /\ Busy(p)
        BY <2>1, <2>5, Zenon DEF Busy
    <3> QED
        BY <2>2, <3>1, Zenon DEF RequestInv, Claimed, EnvelopeSent, NoReceipt
  <2> QED
      BY <2>4, <2>5, Zenon
<1>4. TypeOK'
    BY <1>2, Zenon DEF TypeOK, Arrive, Records
<1>5. ReceiptInv' /\ RetriesAgree'
    BY ZenonT(30) DEF ReceiptInv, RetriesAgree, Claimed, EnvelopeSent, Arrive
<1> QED
    BY <1>3, <1>4, <1>5, Zenon

(* Admission leaves the receipt that the lookup found as it is. *)
LEMMA AdmitKeeps ==
    ASSUME Inv, NEW q \in Requests, Admit(q), SentBatches \subseteq SentBatches'
    PROVE  Inv'
<1>1. PICK k, body, r : k = request[q].key /\ body = request[q].body /\ r = request[q].receipt
    BY Zenon
<1>2. TypeOK /\ ReceiptInv /\ RequestInv /\ Busy(q)
    BY Zenon DEF Inv, Admit, Busy
<1>3. k \in Keys /\ body \in Bodies /\ r \in Receipts \cup {NoReceipt}
    BY <1>1, <1>2, BusyRecord, Zenon
<1>4. r # NoReceipt => Claimed(r, k) /\ r.body = body
    BY <1>1, <1>2, Zenon DEF RequestInv
<1>5. UNCHANGED <<now, receipt, issued, answers>>
    BY Zenon DEF Admit
<1>6. r # NoReceipt => Claimed(r, k)'
    BY <1>4, <1>5, ClaimedKeeps, Zenon
<1>7. Goto(q, IF r = NoReceipt THEN "claim" ELSE "send", r)
    BY <1>1, Zenon DEF Admit
<1>8. request' \in [Requests -> {NotArrived, Ended} \cup Records] /\ RequestInv'
  <2>1. CASE r = NoReceipt
    <3>1. Goto(q, "claim", r)
        BY <1>7, <2>1, Zenon
    <3> QED
        BY <1>1, <1>2, <1>3, <1>5, <2>1, <3>1, GotoKeeps, Zenon
  <2>2. CASE r # NoReceipt
    <3>1. Goto(q, "send", r)
        BY <1>7, <2>2, Zenon
    <3> QED
        BY <1>1, <1>2, <1>3, <1>4, <1>5, <1>6, <2>2, <3>1, GotoKeeps, ZenonT(30)
  <2> QED
      BY <2>1, <2>2, Zenon
<1>9. [id |-> 0, key |-> k, body |-> body] \in [id : Nat, key : Keys, body : Bodies]
    BY <1>3, Zenon
<1> QED
    BY <1>5, <1>8, <1>9, QuietKeeps, Zenon

(* producer.send: the batch the request holds is the one its id was claimed for. *)
LEMMA SendKeeps ==
    ASSUME Inv, NEW q \in Requests, Send(q), SentBatches \subseteq SentBatches'
    PROVE  Inv'
<1>1. PICK k, body, r : k = request[q].key /\ body = request[q].body /\ r = request[q].receipt
    BY Zenon
<1>2. TypeOK /\ ReceiptInv /\ RequestInv /\ Busy(q)
    BY Zenon DEF Inv, Send, Busy
<1>3. k \in Keys /\ body \in Bodies /\ r \in Receipts \cup {NoReceipt}
    BY <1>1, <1>2, BusyRecord, Zenon
<1>4. r # NoReceipt /\ Claimed(r, k) /\ r.body = body
    BY <1>1, <1>2, Zenon DEF RequestInv, Send
<1>5. UNCHANGED <<now, receipt, issued, answers>>
    BY Zenon DEF Send
<1>6. Claimed(r, k)'
    BY <1>4, <1>5, ClaimedKeeps, Zenon
<1>7. EnvelopeSent(r.id, body)'
  <2> DEFINE e == Envelope(r.id, {}, r.at, body)
             m == [envelope |-> e, copy |-> Cardinality(Copies(e)) + 1]
  <2>1. Transmit(e)
      BY <1>1, Zenon DEF Send
  <2>2. m \in sent' /\ m.envelope = e
      BY <2>1, Zenon DEF Transmit
  <2>3. e.id = [n |-> r.id, via |-> {}] /\ e.obs = body
      BY Zenon DEF Envelope
  <2> HIDE DEF m, e
  <2>4. <<m.envelope.id, m.envelope.obs>> \in SentBatches'
      BY <2>2, Zenon DEF SentBatches
  <2> QED
      BY <2>2, <2>3, <2>4, Zenon DEF EnvelopeSent
<1>8. request' \in [Requests -> {NotArrived, Ended} \cup Records] /\ RequestInv'
  <2>1. CASE Goto(q, "mark", r)
      BY <1>1, <1>2, <1>3, <1>4, <1>5, <1>6, <1>7, <2>1, GotoKeeps, Zenon
  <2>2. CASE Finish(q)
      BY <1>2, <1>5, <2>2, FinishKeeps, Zenon
  <2> QED
      BY <1>1, <2>1, <2>2, Zenon DEF Send
<1>9. [id |-> 0, key |-> k, body |-> body] \in [id : Nat, key : Keys, body : Bodies]
    BY <1>3, Zenon
<1> QED
    BY <1>5, <1>8, <1>9, QuietKeeps, Zenon

(* A claim succeeds where there is no receipt, and all claims for the key have *)
(* run out by now, or over a receipt that had run out when the request came.   *)
LEMMA ClaimKeeps ==
    ASSUME Inv, NEW q \in Requests, Claim(q), SentBatches \subseteq SentBatches'
    PROVE  Inv'
<1>1. PICK k, body, at, id : /\ k = request[q].key /\ body = request[q].body
                             /\ at = request[q].at /\ id = Len(issued) + 1
    BY Zenon
<1>2. PICK new, entry : /\ new = [id |-> id, body |-> body, at |-> at, enqueued |-> FALSE]
                        /\ entry = [key |-> k, body |-> body, at |-> at]
    BY Zenon
<1>3. TypeOK /\ ReceiptInv /\ RequestInv /\ RetriesAgree /\ Busy(q)
    BY Zenon DEF Inv, Claim, Busy
<1>4. k \in Keys /\ body \in Bodies /\ at \in Nat
    BY <1>1, <1>3, BusyRecord, Zenon
<1>5. issued \in Seq([key : Keys, body : Bodies, at : Nat]) /\ now \in Nat
    BY <1>3, Zenon DEF TypeOK
<1>6. id \in Nat \ {0} /\ new \in Receipts
    BY <1>1, <1>2, <1>4, <1>5 DEF Receipts
<1>7. /\ receipt' = [receipt EXCEPT ![k] = new] /\ Goto(q, "send", new)
      /\ issued' = Append(issued, entry) /\ UNCHANGED <<now, answers>>
    BY <1>1, <1>2, Zenon DEF Claim
<1>8. /\ issued' \in Seq([key : Keys, body : Bodies, at : Nat])
      /\ DOMAIN issued' = DOMAIN issued \cup {id} /\ issued'[id] = entry
      /\ id \notin DOMAIN issued
      /\ \A i \in DOMAIN issued : i \in Nat /\ i < id /\ issued'[i] = issued[i]
                                  /\ issued[i].at \in Nat
  <2> DEFINE T == [key : Keys, body : Bodies, at : Nat]
  <2>1. entry \in T /\ issued \in Seq(T) /\ \A t \in T : t.at \in Nat
      BY <1>2, <1>4, <1>5, Zenon
  <2> HIDE DEF T
  <2>2. Append(issued, entry) \in Seq(T)
      BY <2>1
  <2>3. /\ DOMAIN issued' = 1 .. id /\ issued'[id] = entry
        /\ DOMAIN issued = 1 .. id - 1 /\ id \in Nat \ {0}
        /\ \A i \in DOMAIN issued : issued'[i] = issued[i] /\ issued[i] \in T
      BY <1>1, <1>7, <2>1, SMTT(40)
  <2> QED
      BY <1>7, <2>1, <2>2, <2>3 DEF T
<1>9. /\ new # NoReceipt /\ new.id = id /\ new.body = body /\ new.at = at /\ ~new.enqueued
      /\ entry.key = k /\ entry.body = body /\ entry.at = at
    BY <1>2, <1>6, Zenon DEF NoReceipt
<1>10. Claimed(new, k)'
    BY <1>2, <1>8, <1>9, Zenon DEF Claimed
<1>11. request' \in [Requests -> {NotArrived, Ended} \cup Records] /\ RequestInv'
    BY <1>1, <1>3, <1>6, <1>7, <1>8, <1>9, <1>10, GotoKeeps, Zenon
<1>12. TypeOK'
    BY <1>3, <1>4, <1>6, <1>7, <1>8, <1>11, Zenon DEF TypeOK, Records
<1>13. \A i \in DOMAIN issued : issued[i].key = k => issued[i].at + TTL <= at + RequestTimeout
  <2> SUFFICES ASSUME NEW i \in DOMAIN issued, issued[i].key = k
               PROVE  issued[i].at + TTL <= at + RequestTimeout
      BY Zenon
  <2>1. CASE receipt[k] = NoReceipt
    <3>1. issued[i].at + TTL <= now
        BY <1>3, <1>4, <2>1, Zenon DEF ReceiptInv
    <3>2. now <= at + RequestTimeout
        BY <1>1, <1>3, Zenon DEF RequestInv
    <3> QED
        BY <1>4, <1>5, <1>8, <3>1, <3>2, IngressAssumption
  <2>2. CASE receipt[k] # NoReceipt
    <3>1. receipt[k].at \in Nat /\ receipt[k].at + TTL <= at
        BY <1>1, <1>3, <1>4, <2>2, IngressAssumption DEF Claim, Live, TypeOK, Receipts
    <3>2. i # receipt[k].id => issued[i].at + TTL <= receipt[k].at + RequestTimeout
        BY <1>3, <1>4, <2>2, Zenon DEF ReceiptInv
    <3>3. i = receipt[k].id => issued[i].at = receipt[k].at
      <4>1. Claimed(receipt[k], k)
          BY <1>3, <1>4, <2>2, Zenon DEF ReceiptInv
      <4> QED
          BY <4>1, SMTT(40) DEF Claimed
    <3> QED
        BY <1>4, <1>8, <3>1, <3>2, <3>3, IngressAssumption
  <2> QED
      BY <2>1, <2>2, Zenon
<1>14. ReceiptInv'
  <2>1. receipt'[k] = new /\ \A x \in Keys : x # k => receipt'[x] = receipt[x]
      BY <1>3, <1>4, <1>7, Zenon DEF TypeOK
  <2> SUFFICES ASSUME NEW x \in Keys
               PROVE  /\ receipt'[x] # NoReceipt => Claimed(receipt[x], x)'
                      /\ \A i \in DOMAIN issued' :
                           issued'[i].key = x =>
                             IF receipt'[x] = NoReceipt THEN issued'[i].at + TTL <= now'
                             ELSE i # receipt'[x].id =>
                                    issued'[i].at + TTL <= receipt'[x].at + RequestTimeout
      BY Zenon DEF ReceiptInv, NoReceipt
  <2>2. CASE x = k
      BY <1>8, <1>9, <1>10, <1>13, <2>1, <2>2 DEF Claimed, EnvelopeSent, NoReceipt
  <2>3. CASE x # k
    <3>1. PICK r : r = receipt[x]
        BY Zenon
    <3>2. receipt'[x] = r
        BY <2>1, <2>3, <3>1, Zenon
    <3>3. r # NoReceipt => Claimed(r, x)'
      <4>1. r # NoReceipt => Claimed(r, x)
          BY <1>3, <3>1, Zenon DEF ReceiptInv
      <4> QED
          BY <1>8, <4>1, ClaimedKeeps, Zenon
    <3>4. \A i \in DOMAIN issued :
            issued[i].key = x => IF r = NoReceipt THEN issued[i].at + TTL <= now
                                 ELSE i # r.id => issued[i].at + TTL <= r.at + RequestTimeout
        BY <1>3, <3>1, Zenon DEF ReceiptInv
    <3>5. r # NoReceipt => Claimed(receipt[x], x)'
        BY <3>2, <3>3, Zenon DEF Claimed, EnvelopeSent
    <3> QED
        BY <1>7, <1>8, <1>9, <2>3, <3>2, <3>4, <3>5, ZenonT(30)
  <2> QED
      BY <2>2, <2>3, Zenon
<1>15. RetriesAgree'
  <2>1. \A a \in answers' :
          /\ a.id \in DOMAIN issued'
          /\ issued'[a.id].key = a.key /\ issued'[a.id].body = a.body
          /\ EnvelopeSent(a.id, a.body)'
      BY <1>3, <1>7, <1>8, Zenon DEF RetriesAgree, EnvelopeSent
  <2>2. ASSUME NEW i \in DOMAIN issued', NEW j \in DOMAIN issued',
               i < j, issued'[i].key = issued'[j].key
        PROVE  issued'[i].at + TTL <= issued'[j].at + RequestTimeout
    <3>1. i \in DOMAIN issued
        BY <1>6, <1>8, <2>2
    <3>2. CASE j = id
        BY <1>8, <1>9, <1>13, <2>2, <3>1, <3>2, ZenonT(30)
    <3>3. CASE j \in DOMAIN issued
        BY <1>3, <1>8, <2>2, <3>1, <3>3, Zenon DEF RetriesAgree
    <3> QED
        BY <1>8, <3>2, <3>3, Zenon
  <2> QED
      BY <2>1, <2>2, Zenon DEF RetriesAgree
<1> QED
    BY <1>11, <1>12, <1>14, <1>15, Zenon DEF Inv

(* The mark is set on the receipt of the claim the request acts for, whose *)
(* envelope it has sent.                                                   *)
LEMMA MarkKeeps ==
    ASSUME Inv, NEW q \in Requests, Mark(q), SentBatches \subseteq SentBatches'
    PROVE  Inv'
<1>1. PICK k, body, r, old : /\ k = request[q].key /\ body = request[q].body
                             /\ r = request[q].receipt /\ old = receipt[k]
    BY Zenon
<1> DEFINE a == [id |-> r.id, key |-> k, body |-> body]
<1>2. TypeOK /\ ReceiptInv /\ RequestInv /\ RetriesAgree /\ Busy(q)
    BY Zenon DEF Inv, Mark, Busy
<1>3. k \in Keys /\ body \in Bodies /\ r \in Receipts \cup {NoReceipt}
    BY <1>1, <1>2, BusyRecord, Zenon
<1>4. Claimed(r, k) /\ r.body = body /\ EnvelopeSent(r.id, body)
    BY <1>1, <1>2, Zenon DEF RequestInv, Mark
<1>5. UNCHANGED <<now, issued>> /\ answers' = answers \cup {a} /\ Finish(q)
    BY <1>1, Zenon DEF Mark, Accept
<1>6. a \in [id : Nat, key : Keys, body : Bodies]
    BY <1>3 DEF Receipts, NoReceipt
<1>7. /\ a.id \in DOMAIN issued
      /\ issued[a.id].key = a.key /\ issued[a.id].body = a.body
      /\ EnvelopeSent(a.id, a.body)
    BY <1>4 DEF Claimed
<1>8. request' \in [Requests -> {NotArrived, Ended} \cup Records] /\ RequestInv'
    BY <1>2, <1>5, FinishKeeps, Zenon
<1>9. CASE UNCHANGED receipt
  <2> HIDE DEF a
  <2> QED
      BY <1>5, <1>6, <1>7, <1>8, <1>9, QuietKeeps, ZenonT(30)
<1>10. CASE /\ old # NoReceipt /\ old.id = r.id
            /\ receipt' = [receipt EXCEPT ![k].enqueued = TRUE]
  <2>1. PICK new : new = [old EXCEPT !.enqueued = TRUE]
      BY Zenon
  <2>2. old \in Receipts
      BY <1>1, <1>2, <1>3, <1>10, Zenon DEF TypeOK
  <2>3. /\ new \in Receipts /\ new.id = old.id /\ new.body = old.body /\ new.at = old.at
        /\ new # NoReceipt
      BY <2>1, <2>2, Zenon DEF Receipts, NoReceipt
  <2>4. receipt' = [receipt EXCEPT ![k] = new]
      BY <1>1, <1>10, <2>1, Zenon
  <2>5. receipt'[k] = new /\ \A x \in Keys : x # k => receipt'[x] = receipt[x]
      BY <1>2, <1>3, <2>4, Zenon DEF TypeOK
  <2>6. Claimed(old, k)
      BY <1>1, <1>2, <1>3, <1>10, Zenon DEF ReceiptInv
  <2>7. old.body = body
      BY <1>4, <1>10, <2>6 DEF Claimed
  <2>8. Claimed(new, k)'
      BY <1>4, <1>5, <1>10, <2>3, <2>6, <2>7, Zenon DEF Claimed, EnvelopeSent
  <2>9. TypeOK'
      BY <1>2, <1>3, <1>5, <1>6, <1>8, <2>3, <2>4, ZenonT(30) DEF TypeOK, Records
  <2>10. ReceiptInv'
    <3> SUFFICES ASSUME NEW x \in Keys
                 PROVE  /\ receipt'[x] # NoReceipt => Claimed(receipt[x], x)'
                        /\ \A i \in DOMAIN issued' :
                             issued'[i].key = x =>
                               IF receipt'[x] = NoReceipt THEN issued'[i].at + TTL <= now'
                               ELSE i # receipt'[x].id =>
                                      issued'[i].at + TTL <= receipt'[x].at + RequestTimeout
        BY Zenon DEF ReceiptInv, NoReceipt
    <3>1. CASE x = k
      <4>1. Claimed(receipt[x], x)'
          BY <2>5, <2>8, <3>1, Zenon DEF Claimed, EnvelopeSent, NoReceipt
      <4>2. \A i \in DOMAIN issued :
              issued[i].key = k /\ i # old.id => issued[i].at + TTL <= old.at + RequestTimeout
          BY <1>1, <1>2, <1>3, <1>10, Zenon DEF ReceiptInv
      <4> QED
          BY <1>5, <2>3, <2>5, <3>1, <4>1, <4>2, Zenon
    <3>2. CASE x # k
        BY <1>2, <1>5, <2>5, <3>2, ZenonT(30) DEF ReceiptInv, Claimed, EnvelopeSent, NoReceipt
    <3> QED
        BY <3>1, <3>2, Zenon
  <2>11. RetriesAgree'
    <3> HIDE DEF a
    <3> QED
        BY <1>2, <1>5, <1>7, Zenon DEF RetriesAgree, EnvelopeSent
  <2> QED
      BY <1>8, <2>9, <2>10, <2>11, Zenon DEF Inv
<1> QED
    BY <1>1, <1>9, <1>10, Zenon DEF Mark

(* An item that DynamoDB may remove has run out, and so have all older claims. *)
LEMMA ExpireReceiptKeeps ==
    ASSUME Inv, NEW k \in Keys, ExpireReceipt(k), SentBatches \subseteq SentBatches'
    PROVE  Inv'
<1>1. TypeOK /\ ReceiptInv /\ RequestInv /\ RetriesAgree
    BY Zenon DEF Inv
<1>2. UNCHANGED <<now, request, issued, answers>> /\ now \in Nat
    BY <1>1, Zenon DEF ExpireReceipt, TypeOK
<1>3. receipt'[k] = NoReceipt /\ \A x \in Keys : x # k => receipt'[x] = receipt[x]
    BY <1>1, Zenon DEF ExpireReceipt, TypeOK
<1>4. TypeOK'
    BY <1>1, <1>2, Zenon DEF TypeOK, ExpireReceipt
<1>5. RequestInv' /\ RetriesAgree'
    BY <1>1, <1>2, ZenonT(30) DEF RequestInv, RetriesAgree, Claimed, EnvelopeSent, Busy
<1>6. ASSUME NEW i \in DOMAIN issued, issued[i].key = k
      PROVE  issued[i].at + TTL <= now
  <2>1. receipt[k] # NoReceipt /\ receipt[k].at \in Nat /\ receipt[k].at + TTL <= now
      BY <1>1, Zenon DEF ExpireReceipt, TypeOK, Receipts
  <2>2. Claimed(receipt[k], k)
      BY <1>1, <2>1, Zenon DEF ReceiptInv
  <2>3. i = receipt[k].id => issued[i].at = receipt[k].at
      BY <2>2 DEF Claimed
  <2>4. i # receipt[k].id => issued[i].at + TTL <= receipt[k].at + RequestTimeout
      BY <1>1, <1>6, <2>1, Zenon DEF ReceiptInv
  <2>5. issued[i].at \in Nat
      BY <1>1, IssuedAt, Zenon
  <2> QED
      BY <1>2, <2>1, <2>3, <2>4, <2>5, IngressAssumption
<1>7. ReceiptInv'
  <2> SUFFICES ASSUME NEW x \in Keys
               PROVE  /\ receipt'[x] # NoReceipt => Claimed(receipt[x], x)'
                      /\ \A i \in DOMAIN issued' :
                           issued'[i].key = x =>
                             IF receipt'[x] = NoReceipt THEN issued'[i].at + TTL <= now'
                             ELSE i # receipt'[x].id =>
                                    issued'[i].at + TTL <= receipt'[x].at + RequestTimeout
      BY Zenon DEF ReceiptInv, NoReceipt
  <2>1. CASE x = k
      BY <1>2, <1>3, <1>6, <2>1, Zenon
  <2>2. CASE x # k
      BY <1>1, <1>2, <1>3, <2>2, ZenonT(30) DEF ReceiptInv, Claimed, EnvelopeSent, NoReceipt
  <2> QED
      BY <2>1, <2>2, Zenon
<1> QED
    BY <1>4, <1>5, <1>7, Zenon DEF Inv

(* Time passes: what has run out stays so, and no request outlives its timeout. *)
LEMMA TickKeeps ==
    ASSUME Inv, Tick, SentBatches \subseteq SentBatches'
    PROVE  Inv'
<1>1. TypeOK /\ ReceiptInv /\ RequestInv /\ RetriesAgree
    BY Zenon DEF Inv
<1>2. now \in Nat /\ now' = now + 1 /\ UNCHANGED <<receipt, request, issued, answers>>
    BY <1>1, Zenon DEF Tick, TypeOK
<1>3. TypeOK'
    BY <1>1, <1>2 DEF TypeOK
<1>4. RetriesAgree'
    BY <1>1, <1>2, Zenon DEF RetriesAgree, EnvelopeSent
<1>5. ReceiptInv'
  <2>1. \A i \in DOMAIN issued : issued[i].at \in Nat
      BY <1>1, IssuedAt, Zenon
  <2>2. \A i \in DOMAIN issued : issued[i].at + TTL <= now => issued[i].at + TTL <= now'
      BY <1>2, <2>1, IngressAssumption
  <2> QED
      BY <1>1, <1>2, <2>2, Zenon DEF ReceiptInv, Claimed, EnvelopeSent, NoReceipt
<1>6. RequestInv'
  <2>1. ASSUME NEW q \in Requests, Busy(q)
        PROVE  request[q].at <= now' /\ now' <= request[q].at + RequestTimeout
    <3>1. request[q].at \in Nat
        BY <1>1, <2>1, BusyRecord, Zenon
    <3>2. now < request[q].at + RequestTimeout /\ request[q].at <= now
        BY <1>1, <2>1, Zenon DEF Tick, RequestInv
    <3> QED
        BY <1>2, <3>1, <3>2, IngressAssumption
  <2> QED
      BY <1>1, <1>2, <2>1, Zenon DEF RequestInv, Claimed, EnvelopeSent, NoReceipt, Busy
<1> QED
    BY <1>3, <1>4, <1>5, <1>6, Zenon DEF Inv
-----------------------------------------------------------------------------
(* The invariant holds before the first request. *)
LEMMA InitInv == Init => Inv
<1> SUFFICES ASSUME Init PROVE Inv
    BY Zenon
<1> USE DEF Init, IngressInit
<1>1. TypeOK
    BY DEF TypeOK
<1>2. ReceiptInv /\ RetriesAgree
    BY DEF ReceiptInv, RetriesAgree
<1>3. RequestInv
    BY Zenon DEF RequestInv, Busy, NotArrived
<1> QED
    BY <1>1, <1>2, <1>3, Zenon DEF Inv

(* Every step of ingress, handlers, operators and lifecycle keeps it. *)
LEMMA NextInv == Inv /\ [Next]_vars => Inv'
<1> SUFFICES ASSUME Inv, [Next]_vars PROVE Inv'
    BY Zenon
<1>1. SentBatches \subseteq SentBatches'
    BY SentGrows, Zenon
<1>2. CASE UNCHANGED ingressVars
    BY <1>1, <1>2, FrameKeeps, Zenon
<1>3. CASE IngressNext
  <2>1. CASE Tick
      BY <1>1, <2>1, TickKeeps, Zenon
  <2>2. CASE \E k \in Keys : ExpireReceipt(k)
      BY <1>1, <2>2, ExpireReceiptKeeps, Zenon
  <2>3. ASSUME NEW q \in Requests, \E key \in Keys, body \in Bodies : Arrive(q, key, body)
        PROVE  Inv'
      BY <1>1, <2>3, ArriveKeeps, Zenon
  <2>4. ASSUME NEW q \in Requests, Lookup(q)
        PROVE  Inv'
    <3> DEFINE o == [resume |-> "admission", admit |-> "admission"]
    <3>1. /\ Busy(q) /\ UNCHANGED <<now, receipt, issued>>
          /\ Follow(q, receipt[request[q].key], o)
        BY <2>4, Zenon DEF Lookup, Busy
    <3>2. o \in [resume : {"admission", "send"}, admit : {"admission", "claim"}]
        BY Zenon
    <3> HIDE DEF o
    <3> QED
        BY <1>1, <3>1, <3>2, FollowKeeps, Zenon
  <2>5. ASSUME NEW q \in Requests, LoseClaim(q)
        PROVE  Inv'
    <3> DEFINE o == [resume |-> "send", admit |-> "claim"]
    <3>1. /\ Busy(q) /\ UNCHANGED <<now, receipt, issued>>
          /\ Follow(q, receipt[request[q].key], o)
        BY <2>5, Zenon DEF LoseClaim, Busy
    <3>2. o \in [resume : {"admission", "send"}, admit : {"admission", "claim"}]
        BY Zenon
    <3> HIDE DEF o
    <3> QED
        BY <1>1, <3>1, <3>2, FollowKeeps, Zenon
  <2>6. ASSUME NEW q \in Requests, Admit(q) \/ Claim(q) \/ Send(q) \/ Mark(q)
        PROVE  Inv'
      BY <1>1, <2>6, AdmitKeeps, ClaimKeeps, SendKeeps, MarkKeeps, Zenon
  <2>7. ASSUME NEW q \in Requests, Abort(q)
        PROVE  Inv'
    <3>1. Busy(q) /\ Finish(q) /\ UNCHANGED <<now, receipt, issued, answers>>
        BY <2>7, Zenon DEF Abort
    <3>2. request' \in [Requests -> {NotArrived, Ended} \cup Records] /\ RequestInv'
        BY <1>1, <3>1, FinishKeeps, Zenon DEF Inv
    <3>3. [id |-> 0, key |-> request[q].key, body |-> request[q].body]
            \in [id : Nat, key : Keys, body : Bodies]
        BY <3>1, BusyRecord, Zenon DEF Inv
    <3> QED
        BY <1>1, <3>1, <3>2, <3>3, QuietKeeps, Zenon
  <2> QED
      BY <1>3, <2>1, <2>2, <2>3, <2>4, <2>5, <2>6, <2>7, Zenon DEF IngressNext
<1>4. IngressNext \/ UNCHANGED ingressVars
    BY Zenon DEF Next, IngressStep, HandlerStep, OperatorStep, LifecycleStep, vars
<1> QED
    BY <1>2, <1>3, <1>4, Zenon

(* However many requests, keys, batches, handlers and operators: a 202 names *)
(* an id that was claimed for its key and batch and whose envelope was sent, *)
(* and one key gets ids a receipt's lifetime apart (IngressService.admit).   *)
THEOREM RetriesAlwaysAgree == Spec => []RetriesAgree
<1>1. Inv => RetriesAgree
    BY Zenon DEF Inv
<1> QED
    BY InitInv, NextInv, <1>1, PTL DEF Spec

(* Whoever acts, in whatever order: a row that an operator replayed or       *)
(* dismissed is never changed again, and no row disappears                   *)
(* (put_quarantine_entries, transition_quarantine_entry).                    *)
THEOREM DecisionsAlwaysStand == Spec => DecisionsStand
<1> DEFINE Stands == \A key \in DOMAIN rows :
                       key \in DOMAIN rows' /\ (rows[key].status # "open" => rows'[key] = rows[key])
<1>1. ASSUME [Next]_vars PROVE Stands
  <2>1. CASE UNCHANGED rows
      BY <2>1, Zenon
  <2>2. ASSUME NEW w \in Handlers, NEW o, PutRow(w, o) PROVE Stands
      BY <2>2, Zenon DEF PutRow, WithRow
  <2>3. ASSUME NEW o, MarkReplayed(o) PROVE Stands
      BY <2>3, Zenon DEF MarkReplayed, IsOpen
  <2>4. ASSUME NEW key, Dismiss(key) PROVE Stands
      BY <2>4, Zenon DEF Dismiss, IsOpen
  <2>5. CASE HandlerNext
      BY <2>1, <2>2, <2>5, Zenon DEF HandlerNext, Work, Retry, Receive, DeadLetter, Trust, Fence, Write,
                              WriteLegacy, Advance, Delete
  <2>6. CASE OperatorNext
      BY <2>1, <2>3, <2>4, <2>6, Zenon DEF OperatorNext, Redrive, FinishRedrive, SendReplay, StopRun, Replay
  <2> QED
      BY <1>1, <2>1, <2>5, <2>6, Zenon DEF Next, IngressStep, HandlerStep, OperatorStep, LifecycleStep,
                                    vars, workerVars
<1> QED
    BY <1>1, PTL DEF Spec, DecisionsStand
-----------------------------------------------------------------------------
(* Handlers and operators.  NothingLost and MarksHighest are not inductive:  *)
(* they say nothing of the messages and rows that handlers and operators are *)
(* busy with.  WorkInv adds what each of them has already done for its       *)
(* message, and what it still has in its hands.                              *)

Values == Nat \X Nat

(* What marks are made from: of an envelope that is not a replay, the time   *)
(* and the batch.                                                            *)
Marked(e) == e.id.via = {} => e.received \in Nat /\ IsFiniteSet(e.obs) /\ e.obs \subseteq Values

(* Copies of an envelope are numbered, and none has a number to come. *)
MessagesOK ==
    /\ IsFiniteSet(sent)
    /\ DOMAIN queue \subseteq sent /\ dlq \subseteq sent
    /\ \A m \in sent :
         m.copy \in Nat /\ m.copy <= Cardinality(Copies(m.envelope)) /\ Marked(m.envelope)

(* The observations of its message that a handler has not accepted have a    *)
(* row or are still to get one; those it accepted are points, from the step  *)
(* after the write on.                                                       *)
Done(h) ==
    /\ \A o \in h.m.envelope.obs :
         o \in h.accepted \/ o \in h.todo \/ RowKey(h.m.envelope, o) \in DOMAIN rows
    /\ h.pc # "write" => \A o \in h.accepted : <<"observation_numeric", o>> \in points
    /\ h.pc = "quarantine" =>
         \A o \in h.accepted : o \in LegacyEligible => <<"water_quality", o>> \in points

HandlerOK(h) ==
    \/ h = Waiting
    \/ h.pc = "fence" /\ DOMAIN h = {"pc", "m"} /\ h.m \in sent
    \/ /\ h.pc \in {"write", "legacy", "quarantine"}
       /\ DOMAIN h = {"pc", "m", "accepted", "todo", "marks"}
       /\ h.m \in sent
       /\ h.marks \in Seq(MarkNames \X Values)
       /\ Done(h)

HandlersOK == DOMAIN handler = Handlers /\ \A w \in Handlers : HandlerOK(handler[w])

(* The envelope of m is safe without m. *)
Spare(m) ==
    Stored(m.envelope) \/ \E x \in DOMAIN queue \cup dlq : x # m /\ x.envelope = m.envelope

OperatorOK ==
    \/ operator = Waiting
    \/ operator.pc = "redrive" /\ Spare(operator.m)
    \/ /\ operator.pc \in {"send", "replay"}
       /\ DOMAIN operator = {"pc", "e", "todo"}
       /\ operator.e.id = [n |-> operator.e.id.n, via |-> operator.e.id.via]
       /\ operator.e.id.via # {}
       /\ operator.todo \subseteq operator.e.obs
       /\ operator.pc = "replay" => operator.e \in Envelopes

Replayed(key, row) ==
    row.status = "replayed" =>
      \E e \in Envelopes : e.id = [key[1] EXCEPT !.via = row.by] /\ key[2] \in e.obs

RowsOK ==
    \A key \in DOMAIN rows :
      DOMAIN rows[key] = {"status", "received", "by"} /\ Replayed(key, rows[key])

EveryHeld == \A e \in Envelopes : Held(e) \/ Stored(e)

Offers(name) == {NoMark} \cup {x[2] : x \in {y \in offered : y[1] = name}}

(* A mark is one of the values it was given, and none of them is higher. *)
TopOf(a, S) == a \in S /\ \A b \in S : ~Less(a, b)

MarksOK ==
    /\ marks \in [MarkNames -> Values]
    /\ offered \subseteq MarkNames \X Values
    /\ \A name \in MarkNames : TopOf(marks[name], Offers(name))

WorkInv == MessagesOK /\ HandlersOK /\ OperatorOK /\ RowsOK /\ EveryHeld /\ MarksOK

(* Nothing sent, no row and no point is taken back. *)
Grows == sent \subseteq sent' /\ DOMAIN rows \subseteq DOMAIN rows' /\ points \subseteq points'
-----------------------------------------------------------------------------
(* A non-empty set of natural numbers has a least one. *)
LEMMA LeastNatural ==
    ASSUME NEW T \in SUBSET Nat, T # {} PROVE \E x \in T : \A y \in T : x <= y
<1> DEFINE R == {ss \in Nat \X Nat : ss[1] < ss[2]}
<1>1. IsWellFoundedOn(R, Nat)
    BY NatLessThanWellFounded, Zenon DEF OpToRel
<1>2. \A x, y \in Nat : <<y, x>> \notin R => x <= y
    BY SMT
<1> HIDE DEF R
<1>3. PICK x \in T : \A y \in T : <<y, x>> \notin R
    BY <1>1, WFMin, Zenon
<1> QED
    BY <1>2, <1>3, Zenon

(* Less orders values, and any two of them. *)
LEMMA LessOrders ==
    ASSUME NEW a \in Values, NEW b \in Values, NEW c \in Values
    PROVE  /\ ~Less(a, a)
           /\ ~Less(a, b) /\ ~Less(b, a) => a = b
           /\ Less(a, b) => ~Less(b, a)
           /\ ~Less(a, b) /\ ~Less(b, c) => ~Less(a, c)
<1>1. /\ a = <<a[1], a[2]>> /\ b = <<b[1], b[2]>>
      /\ a[1] \in Nat /\ a[2] \in Nat /\ b[1] \in Nat /\ b[2] \in Nat /\ c[1] \in Nat /\ c[2] \in Nat
    BY SMT DEF Values
<1>2. ~Less(a, b) /\ ~Less(b, a) => a[1] = b[1] /\ a[2] = b[2]
    BY <1>1, SMT DEF Less
<1>3. /\ ~Less(a, a)
      /\ Less(a, b) => ~Less(b, a)
      /\ ~Less(a, b) /\ ~Less(b, c) => ~Less(a, c)
    BY <1>1, SMT DEF Less
<1> QED
    BY <1>1, <1>2, <1>3, Zenon

(* A finite batch that is not empty has a highest observation. *)
LEMMA BatchHasTop ==
    ASSUME NEW S \in SUBSET Values, IsFiniteSet(S), S # {} PROVE \E a : TopOf(a, S)
<1> DEFINE n == Cardinality(S)
<1>1. n \in Nat /\ n # 0 /\ ExistsBijection(1 .. n, S)
    BY FS_CardinalityType, FS_EmptySet, Zenon
<1>2. PICK f \in [1 .. n -> S] : \A s \in S : \E i \in 1 .. n : f[i] = s
    BY <1>1, Zenon DEF ExistsBijection, Bijection, Injection, Surjection
<1> HIDE DEF n
<1> DEFINE Has(k) == \E i \in 1 .. k : \A j \in 1 .. k : ~Less(f[i], f[j])
           Bad == {k \in 1 .. n : ~Has(k)}
<1>3. Bad = {}
  <2>1. SUFFICES ASSUME Bad # {} PROVE FALSE
      BY Zenon
  <2>2. Bad \in SUBSET Nat
      BY <1>1, SMT
  <2>3. PICK k \in Bad : \A y \in Bad : k <= y
      BY <2>1, <2>2, LeastNatural, Zenon
  <2>4. k \in 1 .. n /\ ~Has(k)
      BY <2>3, Zenon
  <2>5. k # 1
    <3>1. f[1] \in Values
        BY <1>1, <1>2, SMT
    <3>2. ~Less(f[1], f[1])
        BY <3>1, LessOrders, Zenon
    <3>3. Has(1)
        BY <3>2, SMT
    <3> QED
        BY <2>4, <3>3, Zenon
  <2>6. k - 1 \in 1 .. n /\ ~(k <= k - 1) /\ k \in Nat
      BY <1>1, <2>4, <2>5, SMT
  <2>7. Has(k - 1)
      BY <2>3, <2>6, Zenon
  <2>8. PICK i \in 1 .. (k - 1) : \A j \in 1 .. (k - 1) : ~Less(f[i], f[j])
      BY <2>7, Zenon
  <2>9. /\ i \in 1 .. k /\ k \in 1 .. k /\ f[i] \in Values /\ f[k] \in Values
        /\ \A j \in 1 .. k : f[j] \in Values /\ (j = k \/ j \in 1 .. (k - 1))
      BY <1>1, <1>2, <2>4, <2>6, <2>8, SMT
  <2>10. CASE Less(f[i], f[k])
    <3>1. ASSUME NEW j \in 1 .. k PROVE ~Less(f[k], f[j])
      <4>1. CASE j = k
          BY <2>9, <4>1, LessOrders, Zenon
      <4>2. CASE j \in 1 .. (k - 1)
        <5>1. ~Less(f[i], f[j]) /\ ~Less(f[k], f[i])
            BY <2>8, <2>9, <2>10, <4>2, LessOrders, Zenon
        <5> QED
            BY <2>9, <3>1, <5>1, LessOrders, Zenon
      <4> QED
          BY <2>9, <4>1, <4>2, Zenon
    <3> QED
        BY <2>4, <2>9, <3>1, Zenon
  <2>11. CASE ~Less(f[i], f[k])
    <3>1. \A j \in 1 .. k : ~Less(f[i], f[j])
        BY <2>8, <2>9, <2>11, Zenon
    <3> QED
        BY <2>4, <2>9, <3>1, Zenon
  <2> QED
      BY <2>10, <2>11, Zenon
<1>4. n \in 1 .. n
    BY <1>1, SMT
<1>5. Has(n)
    BY <1>3, <1>4, Zenon
<1>6. PICK i \in 1 .. n : \A j \in 1 .. n : ~Less(f[i], f[j])
    BY <1>5, Zenon
<1>7. TopOf(f[i], S)
    BY <1>2, <1>6, Zenon DEF TopOf
<1> QED
    BY <1>7, Zenon

(* Highest finds it, and it is the only one. *)
LEMMA HighestIsTop ==
    ASSUME NEW S \in SUBSET Values, NEW a, TopOf(a, S) PROVE Highest(S) = a
<1>1. TopOf(Highest(S), S)
    BY Zenon DEF Highest, TopOf
<1> DEFINE h == Highest(S)
<1>2. h \in Values /\ a \in Values /\ ~Less(h, a) /\ ~Less(a, h)
    BY <1>1, Zenon DEF TopOf
<1> HIDE DEF h
<1>3. h = a
    BY <1>2, LessOrders, Zenon
<1> QED
    BY <1>3, Zenon DEF h
-----------------------------------------------------------------------------
(* What is stored stays stored. *)
LEMMA StoredStays ==
    ASSUME Grows, NEW e, Stored(e) PROVE Stored(e)'
    BY Zenon DEF Grows, Stored

LEMMA EnvelopesStay ==
    ASSUME Grows PROVE Envelopes \subseteq Envelopes'
    BY Zenon DEF Grows, Envelopes

(* What a handler knows stays true, whatever others do. *)
LEMMA HandlerStays ==
    ASSUME Grows, NEW h, HandlerOK(h) PROVE HandlerOK(h)'
<1>1. Done(h) => Done(h)'
    BY Zenon DEF Grows, Done
<1> QED
    BY <1>1, Zenon DEF HandlerOK, Grows

LEMMA HandlersStay ==
    ASSUME Grows, HandlersOK, UNCHANGED handler PROVE HandlersOK'
    BY HandlerStays, Zenon DEF HandlersOK

LEMMA HandlerMoves ==
    ASSUME Grows, HandlersOK, NEW w \in Handlers, NEW h, handler' = [handler EXCEPT ![w] = h],
           HandlerOK(h)'
    PROVE  HandlersOK'
<1>1. DOMAIN handler' = Handlers /\ \A v \in Handlers : handler'[v] = IF v = w THEN h ELSE handler[v]
    BY Zenon DEF HandlersOK
<1>2. ASSUME NEW v \in Handlers PROVE HandlerOK(handler[v])'
  <2>1. CASE v = w
      BY <1>1, <2>1, Zenon
  <2>2. CASE v # w
    <3>1. HandlerOK(handler[v]) /\ handler'[v] = handler[v]
        BY <1>1, <2>2, Zenon DEF HandlersOK
    <3> QED
        BY <3>1, HandlerStays, Zenon
  <2> QED
      BY <2>1, <2>2, Zenon
<1> QED
    BY <1>1, <1>2, Zenon DEF HandlersOK

(* A message leaves the queues only when its envelope is stored. *)
LEMMA MailStays ==
    ASSUME Grows, sent' = sent, EveryHeld,
           \A x \in (DOMAIN queue \cup dlq) \ (DOMAIN queue \cup dlq)' : Stored(x.envelope)'
    PROVE  EveryHeld' /\ \A m : Spare(m) => Spare(m)'
<1>1. Envelopes' = Envelopes
    BY Zenon DEF Envelopes
<1>2. ASSUME NEW e \in Envelopes PROVE Held(e)' \/ Stored(e)'
  <2>1. CASE Stored(e)
      BY <2>1, StoredStays, Zenon
  <2>2. CASE Held(e)
    <3>1. PICK x \in DOMAIN queue \cup dlq : x.envelope = e
        BY <2>2, Zenon DEF Held
    <3> QED
        BY <3>1, Zenon DEF Held
  <2> QED
      BY <2>1, <2>2, Zenon DEF EveryHeld
<1>3. ASSUME NEW m, Spare(m) PROVE Spare(m)'
  <2>1. CASE Stored(m.envelope)
    <3> DEFINE e == m.envelope
    <3>1. Stored(e)'
        BY <2>1, StoredStays, Zenon
    <3> QED
        BY <3>1, Zenon DEF Spare
  <2>2. ASSUME NEW x \in DOMAIN queue \cup dlq, x # m, x.envelope = m.envelope PROVE Spare(m)'
    <3>1. CASE x \in (DOMAIN queue \cup dlq)'
        BY <2>2, <3>1, Zenon DEF Spare
    <3>2. CASE x \notin (DOMAIN queue \cup dlq)'
      <4>1. Stored(x.envelope)'
          BY <2>2, <3>2, Zenon
      <4>2. Stored(m.envelope)'
          BY <2>2, <4>1, Zenon DEF Stored
      <4> QED
          BY <4>2, Zenon DEF Spare
    <3> QED
        BY <3>1, <3>2, Zenon
  <2> QED
      BY <1>3, <2>1, <2>2, Zenon DEF Spare
<1> QED
    BY <1>1, <1>2, <1>3, Zenon DEF EveryHeld

LEMMA MessagesStay ==
    ASSUME MessagesOK, sent' = sent, DOMAIN queue' \subseteq sent, dlq' \subseteq sent
    PROVE  MessagesOK'
<1>1. \A e : Copies(e)' = Copies(e)
    BY Zenon DEF Copies
<1>2. \A m \in sent : Cardinality(Copies(m.envelope))' = Cardinality(Copies(m.envelope))
    BY Zenon DEF Copies
<1> QED
    BY <1>2, Zenon DEF MessagesOK, Marked

(* An operator that does nothing keeps what it knows. *)
LEMMA OperatorStays ==
    ASSUME Grows, OperatorOK, UNCHANGED operator, \A m : Spare(m) => Spare(m)'
    PROVE  OperatorOK'
<1>1. Envelopes \subseteq Envelopes'
    BY EnvelopesStay, Zenon
<1>2. Spare(operator.m) => Spare(operator.m)'
    BY Zenon DEF Spare, Stored
<1> QED
    BY <1>1, <1>2, Zenon DEF OperatorOK

LEMMA RowsStay ==
    ASSUME Grows, RowsOK, UNCHANGED rows PROVE RowsOK'
<1>1. Envelopes \subseteq Envelopes'
    BY EnvelopesStay, Zenon
<1> QED
    BY <1>1, Zenon DEF RowsOK, Replayed

LEMMA MarksStay ==
    ASSUME MarksOK, UNCHANGED <<marks, offered>> PROVE MarksOK'
    BY Zenon DEF MarksOK, Offers, TopOf

(* A message that is taken by the queue is a new one. *)
LEMMA TransmitSends ==
    ASSUME MessagesOK, NEW e, Marked(e), Transmit(e), UNCHANGED dlq
    PROVE  /\ MessagesOK'
           /\ \E m : /\ m \notin sent /\ sent' = sent \cup {m} /\ m.envelope = e
                     /\ DOMAIN queue' = DOMAIN queue \cup {m}
<1> DEFINE n == Cardinality(Copies(e))
           m == [envelope |-> e, copy |-> n + 1]
<1>1. IsFiniteSet(sent) /\ Copies(e) \in SUBSET sent
    BY Zenon DEF MessagesOK, Copies
<1>2. IsFiniteSet(Copies(e)) /\ n \in Nat
    BY <1>1, FS_Subset, FS_CardinalityType, Zenon
<1>3. m.envelope = e /\ m.copy = n + 1
    BY Zenon
<1>4. sent' = sent \cup {m} /\ DOMAIN queue' = DOMAIN queue \cup {m}
    BY Zenon DEF Transmit
<1>5. \A x \in Copies(e) : x.copy \in Nat /\ x.copy <= n
    BY Zenon DEF MessagesOK, Copies
<1> HIDE DEF m, n
<1>6. m \notin Copies(e)
    BY <1>2, <1>3, <1>5, SMT
<1>7. m \notin sent
    BY <1>3, <1>6, Zenon DEF Copies
<1>8. Copies(e)' = Copies(e) \cup {m}
    BY <1>3, <1>4, Zenon DEF Copies
<1>9. Cardinality(Copies(e))' = n + 1
    BY <1>2, <1>6, <1>8, FS_AddElement, Zenon DEF n
<1>10. IsFiniteSet(sent')
    BY <1>1, <1>4, FS_AddElement, Zenon
<1>11. ASSUME NEW x \in sent'
       PROVE  x.copy \in Nat /\ x.copy <= Cardinality(Copies(x.envelope))' /\ Marked(x.envelope)'
  <2>1. CASE x = m
    <3>1. Cardinality(Copies(x.envelope))' = Cardinality(Copies(e))'
        BY <1>3, <2>1, Zenon DEF Copies
    <3>2. x.copy = n + 1 /\ x.envelope = e
        BY <1>3, <2>1, Zenon
    <3>3. x.copy \in Nat /\ x.copy <= Cardinality(Copies(x.envelope))'
        BY <1>2, <1>9, <3>1, <3>2, SMT
    <3> QED
        BY <3>2, <3>3, Zenon DEF Marked
  <2>2. CASE x \in sent /\ x.envelope = e
    <3>1. Cardinality(Copies(x.envelope))' = Cardinality(Copies(e))'
        BY <2>2, Zenon DEF Copies
    <3>2. x.copy \in Nat /\ x.copy <= n
        BY <1>5, <2>2, Zenon DEF Copies
    <3>3. x.copy <= Cardinality(Copies(x.envelope))'
        BY <1>2, <1>9, <3>1, <3>2, SMT
    <3> QED
        BY <2>2, <3>2, <3>3, Zenon DEF Marked
  <2>3. CASE x \in sent /\ x.envelope # e
    <3>1. Copies(x.envelope)' = Copies(x.envelope)
        BY <1>3, <1>4, <2>3, Zenon DEF Copies
    <3>2. Cardinality(Copies(x.envelope))' = Cardinality(Copies(x.envelope))
        BY <3>1, Zenon
    <3> QED
        BY <2>3, <3>2, Zenon DEF MessagesOK, Marked
  <2> QED
      BY <1>4, <2>1, <2>2, <2>3, Zenon
<1>12. DOMAIN queue' \subseteq sent' /\ dlq' \subseteq sent'
    BY <1>4, Zenon DEF MessagesOK
<1>13. MessagesOK'
    BY <1>10, <1>11, <1>12, Zenon DEF MessagesOK
<1> QED
    BY <1>3, <1>4, <1>7, <1>13, Zenon

(* It is held, and nothing else is let go. *)
LEMMA SendingHolds ==
    ASSUME EveryHeld, UNCHANGED <<rows, points, dlq>>, NEW m, sent' = sent \cup {m},
           DOMAIN queue' = DOMAIN queue \cup {m}
    PROVE  Grows /\ EveryHeld' /\ \A x : Spare(x) => Spare(x)'
<1>1. Grows
    BY Zenon DEF Grows
<1>2. \A e : (Stored(e) => Stored(e)') /\ (Held(e) => Held(e)')
    BY Zenon DEF Stored, Held
<1>3. \A x : Spare(x) => Spare(x)'
    BY Zenon DEF Spare, Stored
<1>4. ASSUME NEW e \in Envelopes' PROVE Held(e)' \/ Stored(e)'
  <2>1. PICK x \in sent' : x.envelope = e
      BY <1>4, Zenon DEF Envelopes
  <2>2. CASE x = m
      BY <2>1, <2>2, Zenon DEF Held
  <2>3. CASE x \in sent
      BY <1>2, <2>1, <2>3, Zenon DEF EveryHeld, Envelopes
  <2> QED
      BY <2>1, <2>2, <2>3, Zenon
<1> QED
    BY <1>1, <1>3, <1>4, Zenon DEF EveryHeld
-----------------------------------------------------------------------------
(* A handler's step that leaves the queues alone. *)
LEMMA HandlerWorks ==
    ASSUME WorkInv, NEW w \in Handlers, NEW h, handler' = [handler EXCEPT ![w] = h],
           Grows, UNCHANGED <<queue, sent, dlq, operator>>,
           HandlerOK(h)', RowsOK', MarksOK'
    PROVE  WorkInv'
<1>1. HandlersOK'
    BY HandlerMoves, Zenon DEF WorkInv
<1>2. EveryHeld' /\ \A m : Spare(m) => Spare(m)'
  <2>1. \A x \in (DOMAIN queue \cup dlq) \ (DOMAIN queue \cup dlq)' : Stored(x.envelope)'
      BY Zenon
  <2> QED
      BY <2>1, MailStays, Zenon DEF WorkInv
<1>3. MessagesOK'
  <2>1. DOMAIN queue' \subseteq sent /\ dlq' \subseteq sent
      BY Zenon DEF WorkInv, MessagesOK
  <2> QED
      BY <2>1, MessagesStay, Zenon DEF WorkInv
<1>4. OperatorOK'
    BY <1>2, OperatorStays, Zenon DEF WorkInv
<1> QED
    BY <1>1, <1>2, <1>3, <1>4, Zenon DEF WorkInv

(* The handler of a message that is not at rest. *)
LEMMA BusyHandler ==
    ASSUME WorkInv, NEW w \in Handlers, ~At(w, "idle")
    PROVE  /\ handler[w].m \in sent /\ Marked(EnvelopeOf(w))
           /\ At(w, "fence") => DOMAIN handler[w] = {"pc", "m"}
           /\ ~At(w, "fence") =>
                /\ handler[w].pc \in {"write", "legacy", "quarantine"}
                /\ DOMAIN handler[w] = {"pc", "m", "accepted", "todo", "marks"}
                /\ handler[w].marks \in Seq(MarkNames \X Values)
                /\ Done(handler[w])
<1>1. HandlerOK(handler[w])
    BY Zenon DEF WorkInv, HandlersOK
<1>2. handler[w] # Waiting
    BY SMT DEF At, Waiting
<1>3. handler[w].m \in sent
    BY <1>1, <1>2, Zenon DEF HandlerOK
<1>4. Marked(EnvelopeOf(w))
    BY <1>3, Zenon DEF WorkInv, MessagesOK, EnvelopeOf
<1>5. "fence" \notin {"write", "legacy", "quarantine"}
    BY Zenon
<1> QED
    BY <1>1, <1>2, <1>3, <1>4, <1>5, Zenon DEF HandlerOK, At

(* The marks that a trusted or a fenced envelope makes are values. *)
LEMMA FenceMarksTyped ==
    ASSUME NEW e, Marked(e) PROVE FenceMarks(e) \in Seq(MarkNames \X Values)
<1>1. CASE e.id.via # {}
    BY <1>1 DEF FenceMarks
<1>2. CASE e.id.via = {}
  <2>1. <<"fenced", <<e.received, 1>>>> \in MarkNames \X Values
      BY <1>2, Zenon DEF Marked, MarkNames, Values
  <2>2. << <<"fenced", <<e.received, 1>>>> >> \in Seq(MarkNames \X Values)
      BY <2>1
  <2> QED
      BY <1>2, <2>2, Zenon DEF FenceMarks
<1> QED
    BY <1>1, <1>2, Zenon

LEMMA OutcomeMarksTyped ==
    ASSUME NEW e, Marked(e), NEW accepted \in SUBSET e.obs
    PROVE  OutcomeMarks(e, accepted) \in Seq(MarkNames \X Values)
<1>1. CASE e.id.via # {}
    BY <1>1 DEF OutcomeMarks
<1>2. CASE e.id.via = {}
  <2> DEFINE T == MarkNames \X Values
             s1 == IF accepted = {} THEN <<>> ELSE << <<"observed", Highest(accepted)>> >>
             s2 == << <<"received", <<e.received, 0>>>> >>
             s3 == IF accepted = e.obs THEN <<>> ELSE << <<"quarantined", <<e.received, 1>>>> >>
  <2>1. /\ <<"received", <<e.received, 0>>>> \in T
        /\ <<"quarantined", <<e.received, 1>>>> \in T
      BY <1>2, Zenon DEF Marked, MarkNames, Values
  <2>2. ASSUME accepted # {} PROVE <<"observed", Highest(accepted)>> \in T
    <3>1. accepted \in SUBSET Values /\ IsFiniteSet(accepted)
        BY <1>2, FS_Subset, Zenon DEF Marked
    <3>2. PICK a : TopOf(a, accepted)
        BY <2>2, <3>1, BatchHasTop, Zenon
    <3>3. Highest(accepted) = a
        BY <3>1, <3>2, HighestIsTop, Zenon
    <3>4. Highest(accepted) \in Values
        BY <3>1, <3>2, <3>3, Zenon DEF TopOf
    <3>5. "observed" \in MarkNames
        BY Zenon DEF MarkNames
    <3> QED
        BY <3>4, <3>5, Zenon
  <2>3. OutcomeMarks(e, accepted) = s1 \o s2 \o s3
      BY <1>2, Zenon DEF OutcomeMarks
  <2> HIDE DEF T
  <2>4. s1 \in Seq(T) /\ s2 \in Seq(T) /\ s3 \in Seq(T)
      BY <2>1, <2>2
  <2> HIDE DEF s1, s2, s3
  <2>5. s1 \o s2 \o s3 \in Seq(T)
      BY <2>4
  <2> QED
      BY <2>3, <2>5, Zenon DEF T
<1> QED
    BY <1>1, <1>2, Zenon

LEMMA TrustWorks ==
    ASSUME WorkInv, NEW w \in Handlers, NEW accepted \in SUBSET EnvelopeOf(w).obs,
           Trust(w, accepted)
    PROVE  WorkInv'
<1> DEFINE m == handler[w].m
           todo == EnvelopeOf(w).obs \ accepted
           s == OutcomeMarks(EnvelopeOf(w), accepted)
<1>0. PICK h : h = [pc |-> "write", m |-> m, accepted |-> accepted, todo |-> todo, marks |-> s]
    BY Zenon
<1>1. handler[w].m \in sent /\ Marked(EnvelopeOf(w))
  <2>1. ~At(w, "idle")
      BY Zenon DEF Trust, At
  <2> QED
      BY <2>1, BusyHandler, Zenon
<1>2. s \in Seq(MarkNames \X Values)
    BY <1>1, OutcomeMarksTyped, Zenon
<1>3. m.envelope = EnvelopeOf(w)
    BY Zenon DEF EnvelopeOf
<1>4. handler' = [handler EXCEPT ![w] = h]
    BY <1>0, Zenon DEF Trust
<1>5. UNCHANGED <<queue, sent, points, rows, marks, offered, dlq, operator>>
    BY Zenon DEF Trust, storeVars
<1>6. \A o \in m.envelope.obs : o \in accepted \/ o \in todo
    BY <1>3, Zenon
<1> HIDE DEF s, todo, m
<1>7. /\ h.pc = "write" /\ h.m = m /\ h.accepted = accepted /\ h.todo = todo /\ h.marks = s
      /\ DOMAIN h = {"pc", "m", "accepted", "todo", "marks"}
    BY <1>0, Zenon
<1>8. "write" # "quarantine" /\ "write" \in {"write", "legacy", "quarantine"} /\ m \in sent
    BY <1>1, Zenon DEF m
<1>9. Done(h)'
    BY <1>6, <1>7, <1>8, Zenon DEF Done
<1>10. HandlerOK(h)'
    BY <1>2, <1>5, <1>7, <1>8, <1>9, Zenon DEF HandlerOK
<1>11. Grows
    BY <1>5, Zenon DEF Grows
<1>12. RowsOK' /\ MarksOK'
    BY <1>5, <1>11, RowsStay, MarksStay, Zenon DEF WorkInv
<1> QED
    BY <1>4, <1>5, <1>10, <1>11, <1>12, HandlerWorks, ZenonT(30)

LEMMA FenceWorks ==
    ASSUME WorkInv, NEW w \in Handlers, Fence(w) PROVE WorkInv'
<1> DEFINE m == handler[w].m
           s == FenceMarks(EnvelopeOf(w))
<1>0. PICK h : h = [pc |-> "quarantine", m |-> m, accepted |-> {}, todo |-> EnvelopeOf(w).obs,
                    marks |-> s]
    BY Zenon
<1>1. handler[w].m \in sent /\ Marked(EnvelopeOf(w))
  <2>1. ~At(w, "idle")
      BY Zenon DEF Fence, At
  <2> QED
      BY <2>1, BusyHandler, Zenon
<1>2. s \in Seq(MarkNames \X Values)
    BY <1>1, FenceMarksTyped, Zenon
<1>3. handler' = [handler EXCEPT ![w] = h]
    BY <1>0, Zenon DEF Fence
<1>4. UNCHANGED <<queue, sent, points, rows, marks, offered, dlq, operator>>
    BY Zenon DEF Fence, storeVars
<1> HIDE DEF s
<1>5. /\ h.pc = "quarantine" /\ h.m = m /\ h.accepted = {} /\ h.marks = s
      /\ h.todo = m.envelope.obs
      /\ DOMAIN h = {"pc", "m", "accepted", "todo", "marks"}
    BY <1>0, Zenon DEF EnvelopeOf
<1>6. "quarantine" \in {"write", "legacy", "quarantine"} /\ m \in sent
    BY <1>1, Zenon
<1> HIDE DEF m
<1>7. Done(h)'
    BY <1>5, Zenon DEF Done
<1>8. HandlerOK(h)'
    BY <1>2, <1>4, <1>5, <1>6, <1>7, Zenon DEF HandlerOK
<1>9. Grows
    BY <1>4, Zenon DEF Grows
<1>10. RowsOK' /\ MarksOK'
    BY <1>4, <1>9, RowsStay, MarksStay, Zenon DEF WorkInv
<1> QED
    BY <1>3, <1>4, <1>8, <1>9, <1>10, HandlerWorks, ZenonT(30)
(* A handler goes on with one field changed. *)
LEMMA FieldChanges ==
    ASSUME NEW h, NEW x, DOMAIN h = {"pc", "m", "accepted", "todo", "marks"}
    PROVE  /\ LET k == [h EXCEPT !.pc = x]
              IN  /\ k.pc = x /\ k.m = h.m /\ k.accepted = h.accepted /\ k.todo = h.todo
                  /\ k.marks = h.marks /\ DOMAIN k = DOMAIN h
           /\ LET k == [h EXCEPT !.todo = x]
              IN  /\ k.todo = x /\ k.m = h.m /\ k.accepted = h.accepted /\ k.pc = h.pc
                  /\ k.marks = h.marks /\ DOMAIN k = DOMAIN h
           /\ LET k == [h EXCEPT !.marks = x]
              IN  /\ k.marks = x /\ k.m = h.m /\ k.accepted = h.accepted /\ k.pc = h.pc
                  /\ k.todo = h.todo /\ DOMAIN k = DOMAIN h
    BY Zenon

LEMMA WriteWorks ==
    ASSUME WorkInv, NEW w \in Handlers, Write(w) \/ WriteLegacy(w) PROVE WorkInv'
<1> DEFINE old == handler[w]
           next == IF handler[w].pc = "write" THEN "legacy" ELSE "quarantine"
<1>0. PICK h : h = [old EXCEPT !.pc = next]
    BY Zenon
<1>1. \/ old.pc = "write" /\ next = "legacy" /\ Write(w)
      \/ old.pc = "legacy" /\ next = "quarantine" /\ WriteLegacy(w)
    BY Zenon DEF Write, WriteLegacy, At
<1>2. ~At(w, "idle") /\ ~At(w, "fence")
    BY <1>1, Zenon DEF At
<1>3. /\ old.m \in sent /\ old.pc \in {"write", "legacy", "quarantine"}
      /\ DOMAIN old = {"pc", "m", "accepted", "todo", "marks"}
      /\ old.marks \in Seq(MarkNames \X Values) /\ Done(old)
    BY <1>2, BusyHandler, Zenon
<1>4. handler' = [handler EXCEPT ![w] = h]
  <2>1. Proceed(w, next)
      BY <1>1, Zenon DEF Write, WriteLegacy
  <2> QED
      BY <1>0, <2>1, Zenon DEF Proceed
<1>5. UNCHANGED <<queue, sent, rows, marks, offered, dlq, operator>>
    BY <1>1, Zenon DEF Write, WriteLegacy, storeVars
<1>6. /\ points \subseteq points'
      /\ next = "legacy" => \A o \in old.accepted : <<"observation_numeric", o>> \in points'
      /\ next = "quarantine" =>
           \A o \in old.accepted : o \in LegacyEligible => <<"water_quality", o>> \in points'
  <2>1. CASE old.pc = "write" /\ next = "legacy" /\ Write(w)
    <3>1. points' = points \cup {<<"observation_numeric", o>> : o \in old.accepted}
        BY <2>1, Zenon DEF Write
    <3>2. next # "quarantine"
        BY <2>1, Zenon
    <3> QED
        BY <3>1, <3>2, Zenon
  <2>2. CASE old.pc = "legacy" /\ next = "quarantine" /\ WriteLegacy(w)
    <3>1. points' = points \cup {<<"water_quality", o>> : o \in old.accepted \cap LegacyEligible}
        BY <2>2, Zenon DEF WriteLegacy
    <3>2. next # "legacy"
        BY <2>2, Zenon
    <3> QED
        BY <3>1, <3>2, Zenon
  <2> QED
      BY <1>1, <2>1, <2>2, Zenon
<1>7. next \in {"legacy", "quarantine"} /\ (next = "quarantine" => old.pc # "write")
    BY <1>1, Zenon
<1>8. next \in {"write", "legacy", "quarantine"}
    BY <1>7, Zenon
<1> HIDE DEF next
<1>9. /\ h.pc = next /\ h.m = old.m /\ h.accepted = old.accepted /\ h.todo = old.todo
      /\ h.marks = old.marks /\ DOMAIN h = {"pc", "m", "accepted", "todo", "marks"}
    BY <1>0, <1>3, FieldChanges, Zenon
<1> HIDE DEF old
<1>10. Grows
    BY <1>5, <1>6, Zenon DEF Grows
<1>11. Done(h)'
  <2>1. \A o \in h.m.envelope.obs :
          o \in h.accepted \/ o \in h.todo \/ RowKey(h.m.envelope, o) \in DOMAIN rows'
      BY <1>3, <1>5, <1>9, Zenon DEF Done
  <2>2. \A o \in h.accepted : <<"observation_numeric", o>> \in points'
      BY <1>3, <1>6, <1>7, <1>9, Zenon DEF Done
  <2>3. h.pc = "quarantine" =>
          \A o \in h.accepted : o \in LegacyEligible => <<"water_quality", o>> \in points'
      BY <1>6, <1>9, Zenon
  <2> QED
      BY <2>1, <2>2, <2>3, Zenon DEF Done, RowKey
<1>12. HandlerOK(h)'
    BY <1>3, <1>5, <1>8, <1>9, <1>11, Zenon DEF HandlerOK
<1>13. RowsOK' /\ MarksOK'
    BY <1>5, <1>10, RowsStay, MarksStay, Zenon DEF WorkInv
<1> QED
    BY <1>4, <1>5, <1>10, <1>12, <1>13, HandlerWorks, Zenon

LEMMA PutRowWorks ==
    ASSUME WorkInv, NEW w \in Handlers, NEW o, PutRow(w, o) PROVE WorkInv'
<1> DEFINE old == handler[w]
           key == RowKey(EnvelopeOf(w), o)
           row == OpenRow(EnvelopeOf(w))
           left == old.todo \ {o}
<1>0. PICK h : h = [old EXCEPT !.todo = left]
    BY Zenon
<1>1. At(w, "quarantine") /\ ~At(w, "idle") /\ ~At(w, "fence")
    BY Zenon DEF PutRow, At
<1>2. /\ old.m \in sent /\ old.pc \in {"write", "legacy", "quarantine"}
      /\ DOMAIN old = {"pc", "m", "accepted", "todo", "marks"}
      /\ old.marks \in Seq(MarkNames \X Values) /\ Done(old)
    BY <1>1, BusyHandler, Zenon
<1>3. handler' = [handler EXCEPT ![w] = h]
    BY <1>0, Zenon DEF PutRow
<1>4. UNCHANGED <<queue, sent, points, marks, offered, dlq, operator>>
    BY Zenon DEF PutRow, storeVars
<1>5. rows' = IF key \in DOMAIN rows THEN rows ELSE WithRow(key, row)
    BY Zenon DEF PutRow
<1>6. /\ DOMAIN row = {"status", "received", "by"} /\ row.status # "replayed"
    BY Zenon DEF OpenRow
<1>7. key = RowKey(old.m.envelope, o)
    BY Zenon DEF EnvelopeOf
<1> HIDE DEF key, row
<1>8. /\ DOMAIN rows' = DOMAIN rows \cup {key}
      /\ \A x \in DOMAIN rows' : (x \in DOMAIN rows /\ rows'[x] = rows[x]) \/ rows'[x] = row
    BY <1>5, Zenon DEF WithRow
<1>9. Grows
    BY <1>4, <1>8, Zenon DEF Grows
<1>10. RowsOK'
  <2>1. Envelopes \subseteq Envelopes'
      BY <1>9, EnvelopesStay, Zenon
  <2>2. ASSUME NEW x \in DOMAIN rows'
        PROVE  DOMAIN rows'[x] = {"status", "received", "by"} /\ Replayed(x, rows[x])'
    <3>1. CASE x \in DOMAIN rows /\ rows'[x] = rows[x]
        BY <2>1, <3>1, Zenon DEF WorkInv, RowsOK, Replayed
    <3>2. CASE rows'[x] = row
        BY <1>6, <3>2, Zenon DEF Replayed
    <3> QED
        BY <1>8, <2>2, <3>1, <3>2, Zenon
  <2> QED
      BY <2>2, Zenon DEF RowsOK
<1>11. MarksOK'
    BY <1>4, MarksStay, Zenon DEF WorkInv
<1> HIDE DEF left
<1>12. /\ h.todo = left /\ h.m = old.m /\ h.accepted = old.accepted /\ h.pc = old.pc
       /\ h.marks = old.marks /\ DOMAIN h = {"pc", "m", "accepted", "todo", "marks"}
    BY <1>0, <1>2, FieldChanges, Zenon
<1>13. Done(h)'
  <2>1. ASSUME NEW x \in h.m.envelope.obs
        PROVE  x \in h.accepted \/ x \in h.todo \/ RowKey(h.m.envelope, x) \in DOMAIN rows'
    <3>1. CASE x = o
        BY <1>7, <1>8, <1>12, <3>1, Zenon
    <3>2. CASE x # o
        BY <1>2, <1>8, <1>12, <3>2, Zenon DEF Done, left
    <3> QED
        BY <3>1, <3>2, Zenon
  <2> QED
      BY <1>2, <1>4, <1>12, <2>1, Zenon DEF Done, RowKey
<1>14. HandlerOK(h)'
    BY <1>2, <1>4, <1>12, <1>13, Zenon DEF HandlerOK
<1> HIDE DEF old
<1> QED
    BY <1>3, <1>4, <1>9, <1>10, <1>11, <1>14, HandlerWorks, Zenon

(* A mark takes a value only if it is higher than all it was given. *)
LEMMA AdvancedIsTop ==
    ASSUME NEW S \in SUBSET Values, NEW a, TopOf(a, S), NEW v \in Values
    PROVE  Advanced(a, v) \in Values /\ TopOf(Advanced(a, v), S \cup {v})
<1>1. a \in S /\ a \in Values /\ \A b \in S : b \in Values /\ ~Less(a, b)
    BY Zenon DEF TopOf
<1>2. CASE Less(a, v)
  <2>1. Advanced(a, v) = v
      BY <1>2, Zenon DEF Advanced
  <2>2. ASSUME NEW b \in S PROVE ~Less(v, b)
    <3>1. ~Less(v, a) /\ ~Less(a, b) /\ b \in Values
        BY <1>1, <1>2, LessOrders, Zenon
    <3> QED
        BY <1>1, <3>1, LessOrders, Zenon
  <2>3. ~Less(v, v)
      BY LessOrders, Zenon
  <2> QED
      BY <2>1, <2>2, <2>3, Zenon DEF TopOf
<1>3. CASE ~Less(a, v)
  <2>1. Advanced(a, v) = a
      BY <1>3, Zenon DEF Advanced
  <2> QED
      BY <1>1, <1>3, <2>1, Zenon DEF TopOf
<1> QED
    BY <1>2, <1>3, Zenon

LEMMA AdvanceWorks ==
    ASSUME WorkInv, NEW w \in Handlers, Advance(w) PROVE WorkInv'
<1> DEFINE old == handler[w]
           s == old.marks
           rest == Tail(s)
<1>0. PICK h, name, value : h = [old EXCEPT !.marks = rest] /\ name = Head(s)[1] /\ value = Head(s)[2]
    BY Zenon
<1>1. At(w, "quarantine") /\ ~At(w, "idle") /\ ~At(w, "fence")
    BY Zenon DEF Advance, At
<1>2. /\ old.m \in sent /\ old.pc \in {"write", "legacy", "quarantine"}
      /\ DOMAIN old = {"pc", "m", "accepted", "todo", "marks"}
      /\ s \in Seq(MarkNames \X Values) /\ Done(old)
    BY <1>1, BusyHandler, Zenon
<1>3. handler' = [handler EXCEPT ![w] = h]
    BY <1>0, Zenon DEF Advance
<1>4. UNCHANGED <<queue, sent, points, rows, dlq, operator>>
    BY Zenon DEF Advance, storeVars
<1>5. /\ marks' = [marks EXCEPT ![name] = Advanced(marks[name], value)]
      /\ offered' = offered \cup {<<name, value>>}
    BY <1>0, Zenon DEF Advance
<1>6. rest \in Seq(MarkNames \X Values) /\ Head(s) \in MarkNames \X Values
  <2> DEFINE T == MarkNames \X Values
  <2>1. s \in Seq(T) /\ s # <<>>
      BY <1>2, Zenon DEF Advance
  <2> HIDE DEF T, s
  <2>2. Tail(s) \in Seq(T) /\ Head(s) \in T
      BY <2>1
  <2> QED
      BY <2>2, Zenon DEF T
<1>7. name \in MarkNames /\ value \in Values
    BY <1>0, <1>6, Zenon
<1> HIDE DEF rest
<1>8. /\ h.marks = rest /\ h.m = old.m /\ h.accepted = old.accepted /\ h.pc = old.pc
      /\ h.todo = old.todo /\ DOMAIN h = {"pc", "m", "accepted", "todo", "marks"}
    BY <1>0, <1>2, FieldChanges, Zenon
<1> HIDE DEF s
<1>9. Done(h)'
    BY <1>2, <1>4, <1>8, Zenon DEF Done, RowKey
<1>10. HandlerOK(h)'
    BY <1>2, <1>4, <1>6, <1>8, <1>9, Zenon DEF HandlerOK
<1>11. Grows
    BY <1>4, Zenon DEF Grows
<1>12. RowsOK'
    BY <1>4, <1>11, RowsStay, Zenon DEF WorkInv
<1>13. MarksOK'
  <2>1. /\ marks \in [MarkNames -> Values] /\ offered \subseteq MarkNames \X Values
        /\ \A n \in MarkNames : TopOf(marks[n], Offers(n))
      BY Zenon DEF WorkInv, MarksOK
  <2>2. Offers(name) \in SUBSET Values
    <3>1. NoMark \in Values
        BY Zenon DEF NoMark, Values
    <3>2. \A y \in MarkNames \X Values : y[2] \in Values
        BY Zenon
    <3> QED
        BY <2>1, <3>1, <3>2, Zenon DEF Offers
  <2>3. /\ Advanced(marks[name], value) \in Values
        /\ TopOf(Advanced(marks[name], value), Offers(name) \cup {value})
      BY <1>7, <2>1, <2>2, AdvancedIsTop, Zenon
  <2>4. <<name, value>>[1] = name /\ <<name, value>>[2] = value
      BY Zenon
  <2>5. Offers(name)' = Offers(name) \cup {value}
      BY <1>5, <2>4, Zenon DEF Offers
  <2>6. \A n \in MarkNames : n # name => Offers(n)' = Offers(n)
      BY <1>5, <2>4, Zenon DEF Offers
  <2>7. /\ marks' \in [MarkNames -> Values] /\ marks'[name] = Advanced(marks[name], value)
        /\ \A n \in MarkNames : n # name => marks'[n] = marks[n]
      BY <1>5, <1>7, <2>1, <2>3, Zenon
  <2>8. offered' \subseteq MarkNames \X Values
      BY <1>5, <1>7, <2>1, SMT
  <2>9. ASSUME NEW n \in MarkNames PROVE TopOf(marks[n], Offers(n))'
    <3>1. CASE n = name
        BY <2>3, <2>5, <2>7, <3>1, Zenon DEF TopOf
    <3>2. CASE n # name
        BY <2>1, <2>6, <2>7, <3>2, Zenon DEF TopOf
    <3> QED
        BY <3>1, <3>2, Zenon
  <2> QED
      BY <2>7, <2>8, <2>9, Zenon DEF MarksOK
<1> HIDE DEF old
<1> QED
    BY <1>3, <1>4, <1>10, <1>11, <1>12, <1>13, HandlerWorks, ZenonT(30)
-----------------------------------------------------------------------------
(* Whoever comes to rest leaves everything as it is but the queues, and      *)
(* these lose only what is stored.                                           *)
LEMMA RestWorks ==
    ASSUME WorkInv, NEW w \in Handlers, Rest(w),
           UNCHANGED <<sent, points, rows, marks, offered, dlq, operator>>,
           DOMAIN queue' \subseteq DOMAIN queue,
           \A x \in DOMAIN queue \ DOMAIN queue' : Stored(x.envelope)
    PROVE  WorkInv'
<1>1. Grows
    BY Zenon DEF Grows
<1>2. HandlersOK'
  <2>1. HandlerOK(Waiting)'
      BY Zenon DEF HandlerOK, Waiting
  <2>2. handler' = [handler EXCEPT ![w] = Waiting]
      BY Zenon DEF Rest
  <2> QED
      BY <1>1, <2>1, <2>2, HandlerMoves, Zenon DEF WorkInv
<1>3. EveryHeld' /\ \A m : Spare(m) => Spare(m)'
  <2>1. \A x \in (DOMAIN queue \cup dlq) \ (DOMAIN queue \cup dlq)' : Stored(x.envelope)'
      BY Zenon DEF Stored
  <2> QED
      BY <1>1, <2>1, MailStays, Zenon DEF WorkInv
<1>4. MessagesOK'
  <2>1. DOMAIN queue' \subseteq sent /\ dlq' \subseteq sent
      BY Zenon DEF WorkInv, MessagesOK
  <2> QED
      BY <2>1, MessagesStay, Zenon DEF WorkInv
<1>5. OperatorOK'
    BY <1>1, <1>3, OperatorStays, Zenon DEF WorkInv
<1>6. RowsOK' /\ MarksOK'
    BY <1>1, RowsStay, MarksStay, Zenon DEF WorkInv
<1> QED
    BY <1>2, <1>3, <1>4, <1>5, <1>6, Zenon DEF WorkInv

(* A message is deleted after its last row was put. *)
LEMMA DeleteWorks ==
    ASSUME WorkInv, NEW w \in Handlers, Delete(w) PROVE WorkInv'
<1>1. At(w, "quarantine") /\ ~At(w, "idle") /\ ~At(w, "fence") /\ handler[w].todo = {}
    BY Zenon DEF Delete, Complete, At
<1>2. Done(handler[w]) /\ handler[w].pc = "quarantine"
    BY <1>1, BusyHandler, Zenon DEF At
<1>3. "quarantine" # "write"
    BY Zenon
<1>4. Stored(handler[w].m.envelope)
    BY <1>1, <1>2, <1>3, Zenon DEF Done, Stored
<1>5. /\ DOMAIN queue' \subseteq DOMAIN queue
      /\ \A x \in DOMAIN queue \ DOMAIN queue' : x = handler[w].m
    BY Zenon DEF Delete, Without
<1>6. \A x \in DOMAIN queue \ DOMAIN queue' : Stored(x.envelope)
    BY <1>4, <1>5, Zenon
<1>7. Rest(w) /\ UNCHANGED <<sent, points, rows, marks, offered, dlq, operator>>
    BY Zenon DEF Delete
<1> QED
    BY <1>5, <1>6, <1>7, RestWorks, Zenon

LEMMA RetryWorks ==
    ASSUME WorkInv, NEW w \in Handlers, Retry(w) PROVE WorkInv'
<1>1. Rest(w) /\ UNCHANGED <<sent, points, rows, marks, offered, dlq, operator>> /\ queue' = queue
    BY Zenon DEF Retry, storeVars
<1>2. /\ DOMAIN queue' \subseteq DOMAIN queue
      /\ \A x \in DOMAIN queue \ DOMAIN queue' : Stored(x.envelope)
    BY <1>1, Zenon
<1> QED
    BY <1>1, <1>2, RestWorks, Zenon

(* Steps that only move messages within the queues. *)
LEMMA MovesWork ==
    ASSUME WorkInv, UNCHANGED <<sent, points, rows, marks, offered, operator>>, HandlersOK',
           DOMAIN queue' \subseteq sent, dlq' \subseteq sent,
           DOMAIN queue \cup dlq \subseteq DOMAIN queue' \cup dlq'
    PROVE  WorkInv'
<1>1. Grows
    BY Zenon DEF Grows
<1>2. EveryHeld' /\ \A m : Spare(m) => Spare(m)'
  <2>1. \A x \in (DOMAIN queue \cup dlq) \ (DOMAIN queue \cup dlq)' : Stored(x.envelope)'
      BY Zenon
  <2> QED
      BY <1>1, <2>1, MailStays, Zenon DEF WorkInv
<1>3. MessagesOK'
    BY MessagesStay, Zenon DEF WorkInv
<1>4. OperatorOK'
    BY <1>1, <1>2, OperatorStays, Zenon DEF WorkInv
<1>5. RowsOK' /\ MarksOK'
    BY <1>1, RowsStay, MarksStay, Zenon DEF WorkInv
<1> QED
    BY <1>2, <1>3, <1>4, <1>5, Zenon DEF WorkInv

LEMMA ReceiveWorks ==
    ASSUME WorkInv, NEW w \in Handlers, NEW m \in DOMAIN queue, Receive(w, m) PROVE WorkInv'
<1> DEFINE h == [pc |-> "fence", m |-> m]
<1>1. UNCHANGED <<sent, points, rows, marks, offered, dlq, operator>> /\ DOMAIN queue' = DOMAIN queue
    BY Zenon DEF Receive
<1>2. DOMAIN queue \subseteq sent /\ dlq \subseteq sent
    BY Zenon DEF WorkInv, MessagesOK
<1>3. handler' = [handler EXCEPT ![w] = h]
    BY Zenon DEF Receive
<1>4. h.pc = "fence" /\ h.m = m /\ DOMAIN h = {"pc", "m"}
    BY Zenon
<1> HIDE DEF h
<1>5. HandlerOK(h)'
    BY <1>1, <1>2, <1>4, Zenon DEF HandlerOK
<1>6. HandlersOK'
  <2>1. Grows
      BY <1>1, Zenon DEF Grows
  <2> QED
      BY <1>3, <1>5, <2>1, HandlerMoves, Zenon DEF WorkInv
<1>7. /\ DOMAIN queue' \subseteq sent /\ dlq' \subseteq sent
      /\ DOMAIN queue \cup dlq \subseteq DOMAIN queue' \cup dlq'
    BY <1>1, <1>2, Zenon
<1> QED
    BY <1>1, <1>6, <1>7, MovesWork, Zenon

LEMMA DeadLetterWorks ==
    ASSUME WorkInv, NEW m \in DOMAIN queue, DeadLetter(m) PROVE WorkInv'
<1>1. /\ UNCHANGED <<sent, points, rows, marks, offered, operator>> /\ handler' = handler
      /\ DOMAIN queue' = DOMAIN queue \ {m} /\ dlq' = dlq \cup {m}
    BY Zenon DEF DeadLetter, Without
<1>2. /\ DOMAIN queue' \subseteq sent /\ dlq' \subseteq sent
      /\ DOMAIN queue \cup dlq \subseteq DOMAIN queue' \cup dlq'
    BY <1>1, Zenon DEF WorkInv, MessagesOK
<1>3. HandlersOK'
  <2>1. Grows
      BY <1>1, Zenon DEF Grows
  <2> QED
      BY <1>1, <2>1, HandlersStay, Zenon DEF WorkInv
<1> QED
    BY <1>1, <1>2, <1>3, MovesWork, Zenon

LEMMA HandlerStepWorks ==
    ASSUME WorkInv, HandlerNext PROVE WorkInv'
<1>1. ASSUME NEW w \in Handlers, Work(w) PROVE WorkInv'
  <2>1. CASE \E accepted \in SUBSET EnvelopeOf(w).obs : Trust(w, accepted)
      BY <2>1, TrustWorks, Zenon
  <2>2. CASE Fence(w)
      BY <2>2, FenceWorks, Zenon
  <2>3. CASE Write(w) \/ WriteLegacy(w)
      BY <2>3, WriteWorks, Zenon
  <2>4. CASE \E o \in handler[w].todo : PutRow(w, o)
      BY <2>4, PutRowWorks, Zenon
  <2>5. CASE Advance(w)
      BY <2>5, AdvanceWorks, Zenon
  <2>6. CASE Delete(w)
      BY <2>6, DeleteWorks, Zenon
  <2> QED
      BY <1>1, <2>1, <2>2, <2>3, <2>4, <2>5, <2>6, Zenon DEF Work
<1> QED
    BY <1>1, RetryWorks, ReceiveWorks, DeadLetterWorks, Zenon DEF HandlerNext
-----------------------------------------------------------------------------
(* An envelope that is sent, by a request or by an operator. *)
LEMMA SendingWorks ==
    ASSUME WorkInv, NEW e, Marked(e), Transmit(e),
           UNCHANGED <<handler, points, rows, marks, offered, dlq>>
    PROVE  /\ MessagesOK' /\ HandlersOK' /\ RowsOK' /\ EveryHeld' /\ MarksOK' /\ Grows
           /\ \A x : Spare(x) => Spare(x)'
           /\ \E m : /\ m \notin sent /\ sent' = sent \cup {m} /\ m.envelope = e
                     /\ DOMAIN queue' = DOMAIN queue \cup {m}
<1>1. MessagesOK /\ HandlersOK /\ RowsOK /\ EveryHeld /\ MarksOK
    BY Zenon DEF WorkInv
<1>2. PICK m : /\ m \notin sent /\ sent' = sent \cup {m} /\ m.envelope = e
               /\ DOMAIN queue' = DOMAIN queue \cup {m}
    BY <1>1, TransmitSends, Zenon
<1>3. MessagesOK'
    BY <1>1, TransmitSends, Zenon
<1>4. Grows /\ EveryHeld' /\ \A x : Spare(x) => Spare(x)'
    BY <1>1, <1>2, SendingHolds, Zenon
<1>5. HandlersOK' /\ RowsOK' /\ MarksOK'
    BY <1>1, <1>4, HandlersStay, RowsStay, MarksStay, Zenon
<1> QED
    BY <1>2, <1>3, <1>4, <1>5, Zenon

LEMMA RedriveWorks ==
    ASSUME WorkInv, NEW m \in dlq, Redrive(m) PROVE WorkInv'
<1> DEFINE e == m.envelope
<1>1. m \in sent /\ Marked(e)
    BY Zenon DEF WorkInv, MessagesOK
<1>2. Transmit(e) /\ UNCHANGED <<handler, points, rows, marks, offered, dlq>>
    BY Zenon DEF Redrive
<1> HIDE DEF e
<1>3. PICK x : /\ x \notin sent /\ sent' = sent \cup {x} /\ x.envelope = e
               /\ DOMAIN queue' = DOMAIN queue \cup {x}
    BY <1>1, <1>2, SendingWorks, Zenon
<1>4. /\ MessagesOK' /\ HandlersOK' /\ RowsOK' /\ EveryHeld' /\ MarksOK'
    BY <1>1, <1>2, SendingWorks, Zenon
<1>5. operator' = [pc |-> "redrive", m |-> m]
    BY Zenon DEF Redrive
<1>6. operator'.pc = "redrive" /\ operator'.m = m
    BY <1>5, Zenon
<1>7. x # m /\ x \in DOMAIN queue' \cup dlq' /\ x.envelope = m.envelope
    BY <1>1, <1>3, Zenon DEF e
<1>8. Spare(operator.m)'
    BY <1>6, <1>7, Zenon DEF Spare
<1>9. OperatorOK'
    BY <1>6, <1>8, Zenon DEF OperatorOK
<1> QED
    BY <1>4, <1>9, Zenon DEF WorkInv

LEMMA SendReplayWorks ==
    ASSUME WorkInv, SendReplay PROVE WorkInv'
<1> DEFINE e == operator.e
<1>1. operator.pc = "send"
    BY Zenon DEF SendReplay
<1>2. operator # Waiting /\ operator.pc # "redrive"
    BY <1>1, SMT DEF Waiting
<1>3. /\ DOMAIN operator = {"pc", "e", "todo"}
      /\ e.id = [n |-> e.id.n, via |-> e.id.via] /\ e.id.via # {} /\ operator.todo \subseteq e.obs
    BY <1>2, Zenon DEF WorkInv, OperatorOK
<1>4. Marked(e)
    BY <1>3, Zenon DEF Marked
<1>5. Transmit(e) /\ UNCHANGED <<handler, points, rows, marks, offered, dlq>>
    BY Zenon DEF SendReplay
<1>6. operator' = [operator EXCEPT !.pc = "replay"]
    BY Zenon DEF SendReplay
<1>7. /\ operator'.pc = "replay" /\ operator'.e = e /\ operator'.todo = operator.todo
      /\ DOMAIN operator' = {"pc", "e", "todo"} /\ "replay" \in {"send", "replay"}
    BY <1>3, <1>6, Zenon
<1> HIDE DEF e
<1>8. PICK x : /\ x \notin sent /\ sent' = sent \cup {x} /\ x.envelope = e
               /\ DOMAIN queue' = DOMAIN queue \cup {x}
    BY <1>4, <1>5, SendingWorks, Zenon
<1>9. /\ MessagesOK' /\ HandlersOK' /\ RowsOK' /\ EveryHeld' /\ MarksOK'
    BY <1>4, <1>5, SendingWorks, Zenon
<1>10. e \in Envelopes'
    BY <1>8, Zenon DEF Envelopes
<1>11. OperatorOK'
    BY <1>3, <1>7, <1>10, Zenon DEF OperatorOK
<1> QED
    BY <1>9, <1>11, Zenon DEF WorkInv
(* Steps that change only what an operator does, and the rows. *)
LEMMA OperatorWorks ==
    ASSUME WorkInv, UNCHANGED <<queue, sent, handler, points, marks, offered, dlq>>, Grows,
           OperatorOK', RowsOK'
    PROVE  WorkInv'
<1>1. \A x \in (DOMAIN queue \cup dlq) \ (DOMAIN queue \cup dlq)' : Stored(x.envelope)'
    BY Zenon
<1>2. EveryHeld'
    BY <1>1, MailStays, Zenon DEF WorkInv
<1>3. DOMAIN queue' \subseteq sent /\ dlq' \subseteq sent
    BY Zenon DEF WorkInv, MessagesOK
<1>4. MessagesOK' /\ HandlersOK' /\ MarksOK'
    BY <1>3, MessagesStay, HandlersStay, MarksStay, Zenon DEF WorkInv
<1> QED
    BY <1>2, <1>4, Zenon DEF WorkInv

LEMMA FinishRedriveWorks ==
    ASSUME WorkInv, FinishRedrive PROVE WorkInv'
<1> DEFINE m == operator.m
<1>1. operator.pc = "redrive"
    BY Zenon DEF FinishRedrive
<1>2. operator # Waiting /\ operator.pc \notin {"send", "replay"}
    BY <1>1, SMT DEF Waiting
<1>3. Spare(m)
    BY <1>2, Zenon DEF WorkInv, OperatorOK
<1>4. /\ UNCHANGED <<queue, sent, handler, points, rows, marks, offered>> /\ operator' = Waiting
      /\ dlq' \in {dlq, dlq \ {m}}
    BY Zenon DEF FinishRedrive, storeVars
<1> HIDE DEF m
<1>5. Grows
    BY <1>4, Zenon DEF Grows
<1>6. Envelopes' = Envelopes /\ \A e : Stored(e)' = Stored(e)
    BY <1>4, Zenon DEF Envelopes, Stored
<1>7. ASSUME NEW e \in Envelopes PROVE Held(e)' \/ Stored(e)'
  <2>1. CASE Stored(e)
      BY <1>6, <2>1, Zenon
  <2>2. CASE Held(e)
    <3>1. PICK x \in DOMAIN queue \cup dlq : x.envelope = e
        BY <2>2, Zenon DEF Held
    <3>2. CASE x # m
        BY <1>4, <3>1, <3>2, Zenon DEF Held
    <3>3. CASE x = m
      <4>1. CASE Stored(m.envelope)
          BY <1>6, <3>1, <3>3, <4>1, Zenon
      <4>2. ASSUME NEW y \in DOMAIN queue \cup dlq, y # m, y.envelope = m.envelope
            PROVE  Held(e)'
          BY <1>4, <3>1, <3>3, <4>2, Zenon DEF Held
      <4> QED
          BY <1>3, <4>1, <4>2, Zenon DEF Spare
    <3> QED
        BY <3>2, <3>3, Zenon
  <2> QED
      BY <2>1, <2>2, Zenon DEF WorkInv, EveryHeld
<1>8. EveryHeld'
    BY <1>6, <1>7, Zenon DEF EveryHeld
<1>9. DOMAIN queue' \subseteq sent /\ dlq' \subseteq sent
    BY <1>4, Zenon DEF WorkInv, MessagesOK
<1>10. MessagesOK' /\ HandlersOK' /\ MarksOK' /\ RowsOK'
    BY <1>4, <1>5, <1>9, MessagesStay, HandlersStay, MarksStay, RowsStay, Zenon DEF WorkInv
<1>11. OperatorOK'
    BY <1>4, Zenon DEF OperatorOK, Waiting
<1> QED
    BY <1>8, <1>10, <1>11, Zenon DEF WorkInv

LEMMA ReplayWorks ==
    ASSUME WorkInv, NEW id, NEW obs, Replay(id, obs) PROVE WorkInv'
<1> DEFINE received == rows[<<id, CHOOSE o \in obs : TRUE>>].received
           e == Envelope(id.n, obs, received, obs)
<1>1. operator' = [pc |-> "send", e |-> e, todo |-> obs] /\ obs # {}
    BY Zenon DEF Replay
<1>2. UNCHANGED <<queue, sent, handler, points, rows, marks, offered, dlq>>
    BY Zenon DEF Replay, storeVars
<1>3. e.id = [n |-> id.n, via |-> obs] /\ e.obs = obs
    BY Zenon DEF Envelope
<1> HIDE DEF e
<1>4. /\ operator'.pc = "send" /\ operator'.e = e /\ operator'.todo = obs
      /\ DOMAIN operator' = {"pc", "e", "todo"} /\ "send" \in {"send", "replay"}
      /\ "send" # "replay"
    BY <1>1, Zenon
<1>5. e.id.n = id.n /\ e.id.via = obs
    BY <1>3
<1>6. OperatorOK'
    BY <1>1, <1>3, <1>4, <1>5, Zenon DEF OperatorOK
<1>7. Grows
    BY <1>2, Zenon DEF Grows
<1>8. RowsOK'
    BY <1>2, <1>7, RowsStay, Zenon DEF WorkInv
<1> QED
    BY <1>2, <1>6, <1>7, <1>8, OperatorWorks, Zenon

LEMMA StopRunWorks ==
    ASSUME WorkInv, StopRun PROVE WorkInv'
<1>1. UNCHANGED <<queue, sent, handler, points, rows, marks, offered, dlq>> /\ operator' = Waiting
    BY Zenon DEF StopRun, storeVars
<1>2. OperatorOK'
    BY <1>1, Zenon DEF OperatorOK, Waiting
<1>3. Grows
    BY <1>1, Zenon DEF Grows
<1>4. RowsOK'
    BY <1>1, <1>3, RowsStay, Zenon DEF WorkInv
<1> QED
    BY <1>1, <1>2, <1>3, <1>4, OperatorWorks, Zenon

(* A row that changes status keeps its fields. *)
LEMMA RowChanges ==
    ASSUME NEW row, NEW s, NEW by, DOMAIN row = {"status", "received", "by"}
    PROVE  /\ LET new == [row EXCEPT !.status = s]
              IN  DOMAIN new = {"status", "received", "by"} /\ new.status = s
           /\ LET new == [[row EXCEPT !.status = s] EXCEPT !.by = by]
              IN  DOMAIN new = {"status", "received", "by"} /\ new.status = s /\ new.by = by
    BY Zenon

LEMMA DismissWorks ==
    ASSUME WorkInv, NEW key \in DOMAIN rows, Dismiss(key) PROVE WorkInv'
<1> DEFINE old == rows[key]
           row == [old EXCEPT !.status = "dismissed"]
<1>1. DOMAIN old = {"status", "received", "by"}
    BY Zenon DEF WorkInv, RowsOK
<1>2. UNCHANGED <<queue, sent, handler, points, marks, offered, dlq, operator>>
    BY Zenon DEF Dismiss, storeVars
<1>3. rows' = [rows EXCEPT ![key] = row]
    BY Zenon DEF Dismiss
<1>4. DOMAIN row = {"status", "received", "by"} /\ row.status = "dismissed"
    BY <1>1, RowChanges, Zenon
<1>5. row.status # "replayed"
    BY <1>4, Zenon
<1> HIDE DEF row, old
<1>6. Grows
    BY <1>2, <1>3, Zenon DEF Grows
<1>7. ASSUME NEW x \in DOMAIN rows'
      PROVE  DOMAIN rows'[x] = {"status", "received", "by"} /\ Replayed(x, rows[x])'
  <2>1. Envelopes \subseteq Envelopes'
      BY <1>6, EnvelopesStay, Zenon
  <2>2. CASE x = key
    <3>1. rows'[x] = row
        BY <1>3, <2>2, Zenon
    <3> QED
        BY <1>4, <1>5, <3>1, Zenon DEF Replayed
  <2>3. CASE x # key
    <3>1. x \in DOMAIN rows /\ rows'[x] = rows[x]
        BY <1>3, <1>7, <2>3, Zenon
    <3> QED
        BY <2>1, <3>1, Zenon DEF WorkInv, RowsOK, Replayed
  <2> QED
      BY <2>2, <2>3, Zenon
<1>8. RowsOK'
    BY <1>7, Zenon DEF RowsOK
<1>9. OperatorOK'
  <2>1. \A x \in (DOMAIN queue \cup dlq) \ (DOMAIN queue \cup dlq)' : Stored(x.envelope)'
      BY <1>2, Zenon
  <2>2. \A m : Spare(m) => Spare(m)'
      BY <1>2, <1>6, <2>1, MailStays, Zenon DEF WorkInv
  <2> QED
      BY <1>2, <1>6, <2>2, OperatorStays, Zenon DEF WorkInv
<1> QED
    BY <1>2, <1>6, <1>8, <1>9, OperatorWorks, Zenon

(* The id of a replay, from that of the envelope it takes rows of. *)
LEMMA IdRestored ==
    ASSUME NEW id, NEW n, NEW via, id = [n |-> n, via |-> via]
    PROVE  [[id EXCEPT !.via = {}] EXCEPT !.via = via] = id
<1>1. id = [x \in {"n", "via"} |-> id[x]]
    BY Zenon
<1>2. DOMAIN id = {"n", "via"} /\ id.via = via
    BY Zenon
<1> QED
    BY <1>1, <1>2, Zenon

(* A row is marked as replayed by a run that has sent the envelope. *)
LEMMA MarkReplayedWorks ==
    ASSUME WorkInv, NEW o, MarkReplayed(o) PROVE WorkInv'
<1> DEFINE e == operator.e
           key == <<[e.id EXCEPT !.via = {}], o>>
           old == rows[key]
           row == [[old EXCEPT !.status = "replayed"] EXCEPT !.by = e.id.via]
           left == operator.todo \ {o}
<1>1. operator.pc = "replay" /\ o \in operator.todo
    BY Zenon DEF MarkReplayed
<1>2. operator # Waiting /\ operator.pc # "redrive"
    BY <1>1, SMT DEF Waiting
<1>3. /\ DOMAIN operator = {"pc", "e", "todo"}
      /\ e.id = [n |-> e.id.n, via |-> e.id.via] /\ e.id.via # {} /\ operator.todo \subseteq e.obs
      /\ e \in Envelopes
    BY <1>1, <1>2, Zenon DEF WorkInv, OperatorOK
<1>4. /\ UNCHANGED <<queue, sent, handler, points, marks, offered, dlq>>
      /\ operator' = [operator EXCEPT !.todo = left]
    BY Zenon DEF MarkReplayed, storeVars
<1>5. (IsOpen(key) /\ rows' = [rows EXCEPT ![key] = row]) \/ UNCHANGED rows
    BY Zenon DEF MarkReplayed
<1>6. [key[1] EXCEPT !.via = e.id.via] = e.id
  <2>1. e.id = [n |-> e.id.n, via |-> e.id.via] /\ key[1] = [e.id EXCEPT !.via = {}]
      BY <1>3, Zenon
  <2>2. PICK id, n, via : id = e.id /\ n = e.id.n /\ via = e.id.via
      BY Zenon
  <2>3. [[id EXCEPT !.via = {}] EXCEPT !.via = via] = id
      BY <2>1, <2>2, IdRestored, Zenon
  <2> QED
      BY <2>1, <2>2, <2>3, Zenon
<1>7. o \in e.obs /\ left \subseteq e.obs /\ key[2] = o
    BY <1>1, <1>3, Zenon
<1> HIDE DEF key, left
<1>8. /\ operator'.pc = "replay" /\ operator'.e = e /\ operator'.todo = left
      /\ DOMAIN operator' = {"pc", "e", "todo"} /\ "replay" \in {"send", "replay"}
    BY <1>1, <1>3, <1>4, Zenon
<1> HIDE DEF e
<1>9. Envelopes' = Envelopes
    BY <1>4, Zenon DEF Envelopes
<1>10. OperatorOK'
    BY <1>3, <1>7, <1>8, <1>9, Zenon DEF OperatorOK
<1>11. Grows
    BY <1>4, <1>5, Zenon DEF Grows
<1>12. RowsOK'
  <2>1. CASE UNCHANGED rows
      BY <1>11, <2>1, RowsStay, Zenon DEF WorkInv
  <2>2. CASE IsOpen(key) /\ rows' = [rows EXCEPT ![key] = row]
    <3>1. key \in DOMAIN rows /\ DOMAIN old = {"status", "received", "by"}
        BY <2>2, Zenon DEF IsOpen, WorkInv, RowsOK
    <3>2. DOMAIN row = {"status", "received", "by"} /\ row.by = e.id.via
        BY <3>1, RowChanges, Zenon
    <3> HIDE DEF row, old
    <3>3. ASSUME NEW x \in DOMAIN rows'
          PROVE  DOMAIN rows'[x] = {"status", "received", "by"} /\ Replayed(x, rows[x])'
      <4>1. CASE x = key
        <5>1. rows'[x] = row
            BY <2>2, <3>1, <4>1, Zenon
        <5>2. \E f \in Envelopes' : f.id = [x[1] EXCEPT !.via = rows'[x].by] /\ x[2] \in f.obs
            BY <1>3, <1>6, <1>7, <1>9, <3>2, <4>1, <5>1, Zenon
        <5> QED
            BY <3>2, <5>1, <5>2, Zenon DEF Replayed
      <4>2. CASE x # key
        <5>1. x \in DOMAIN rows /\ rows'[x] = rows[x]
            BY <2>2, <3>3, <4>2, Zenon
        <5> QED
            BY <1>9, <5>1, Zenon DEF WorkInv, RowsOK, Replayed
      <4> QED
          BY <4>1, <4>2, Zenon
    <3> QED
        BY <3>3, Zenon DEF RowsOK
  <2> QED
      BY <1>5, <2>1, <2>2, Zenon
<1> QED
    BY <1>4, <1>10, <1>11, <1>12, OperatorWorks, Zenon

LEMMA OperatorStepWorks ==
    ASSUME WorkInv, OperatorNext PROVE WorkInv'
    BY RedriveWorks, FinishRedriveWorks, SendReplayWorks, StopRunWorks, MarkReplayedWorks,
       DismissWorks, ReplayWorks, Zenon DEF OperatorNext
-----------------------------------------------------------------------------
(* Steps that have nothing to do with messages. *)
LEMMA OthersWork ==
    ASSUME WorkInv, UNCHANGED <<queue, sent, workerVars>> PROVE WorkInv'
<1>1. UNCHANGED <<queue, sent, handler, points, rows, marks, offered, dlq, operator>>
    BY Zenon DEF workerVars
<1>2. Grows
    BY <1>1, Zenon DEF Grows
<1>3. RowsOK'
    BY <1>1, <1>2, RowsStay, Zenon DEF WorkInv
<1>4. OperatorOK'
  <2>1. \A x \in (DOMAIN queue \cup dlq) \ (DOMAIN queue \cup dlq)' : Stored(x.envelope)'
      BY <1>1, Zenon
  <2>2. \A m : Spare(m) => Spare(m)'
      BY <1>1, <1>2, <2>1, MailStays, Zenon DEF WorkInv
  <2> QED
      BY <1>1, <1>2, <2>2, OperatorStays, Zenon DEF WorkInv
<1> QED
    BY <1>1, <1>2, <1>3, <1>4, OperatorWorks, Zenon

(* A request sends the batch it was given, with the time of its receipt. *)
LEMMA SendWorks ==
    ASSUME WorkInv, TypeOK, NEW q \in Requests, Send(q), UNCHANGED workerVars PROVE WorkInv'
<1> DEFINE r == request[q].receipt
           body == request[q].body
           e == Envelope(r.id, {}, r.at, body)
<1>1. Busy(q)
    BY Zenon DEF Send, Busy
<1>2. body \in Bodies /\ r \in Receipts \cup {NoReceipt}
    BY <1>1, BusyRecord, Zenon
<1>3. r.at \in Nat
    BY <1>2, SMT DEF Receipts, NoReceipt
<1>4. IsFiniteSet(body) /\ body \subseteq Values
    BY <1>2, BodiesAssumption, Zenon DEF Values
<1>5. Transmit(e)
    BY Zenon DEF Send
<1>6. e.received = r.at /\ e.obs = body
    BY Zenon DEF Envelope
<1>7. UNCHANGED <<handler, points, rows, marks, offered, dlq, operator>>
    BY Zenon DEF workerVars
<1> HIDE DEF e, r, body
<1>8. Marked(e)
    BY <1>3, <1>4, <1>6, Zenon DEF Marked
<1>9. /\ MessagesOK' /\ HandlersOK' /\ RowsOK' /\ EveryHeld' /\ MarksOK' /\ Grows
      /\ \A x : Spare(x) => Spare(x)'
    BY <1>5, <1>7, <1>8, SendingWorks, Zenon
<1>10. OperatorOK'
    BY <1>7, <1>9, OperatorStays, Zenon DEF WorkInv
<1> QED
    BY <1>9, <1>10, Zenon DEF WorkInv

LEMMA NextWorks ==
    ASSUME WorkInv, TypeOK, [Next]_vars PROVE WorkInv'
<1>1. CASE IngressStep
  <2>1. UNCHANGED workerVars /\ IngressNext
      BY <1>1, Zenon DEF IngressStep
  <2>2. CASE UNCHANGED storeVars
    <3>1. UNCHANGED <<queue, sent>>
        BY <2>2, Zenon DEF storeVars
    <3> QED
        BY <2>1, <3>1, OthersWork, Zenon
  <2>3. CASE \E q \in Requests : Send(q)
      BY <2>1, <2>3, SendWorks, Zenon
  <2>4. UNCHANGED storeVars \/ \E q \in Requests : Send(q)
      BY <2>1, Zenon DEF IngressNext, Tick, ExpireReceipt, Arrive, Lookup, Admit, Claim, LoseClaim,
                         Mark, Abort
  <2> QED
      BY <2>2, <2>3, <2>4, Zenon
<1>2. CASE HandlerStep
    BY <1>2, HandlerStepWorks, Zenon DEF HandlerStep
<1>3. CASE OperatorStep
    BY <1>3, OperatorStepWorks, ZenonT(30) DEF OperatorStep
<1>4. CASE LifecycleStep
  <2>1. UNCHANGED <<queue, sent, workerVars>>
      BY <1>4, Zenon DEF LifecycleStep, Transition
  <2> QED
      BY <2>1, OthersWork, Zenon
<1>5. CASE UNCHANGED vars
  <2>1. UNCHANGED <<queue, sent, workerVars>>
      BY <1>5, Zenon DEF vars, storeVars
  <2> QED
      BY <2>1, OthersWork, Zenon
<1> QED
    BY <1>1, <1>2, <1>3, <1>4, <1>5, Zenon DEF Next

LEMMA InitWorks == Init => WorkInv
<1> SUFFICES ASSUME Init PROVE WorkInv
    BY Zenon
<1> USE DEF Init, StoreInit, WorkerInit
<1>1. MessagesOK
  <2>1. sent = {} /\ DOMAIN queue = {} /\ dlq = {}
      BY Zenon
  <2> QED
      BY <2>1, FS_EmptySet, Zenon DEF MessagesOK
<1>2. HandlersOK
    BY Zenon DEF HandlersOK, HandlerOK
<1>3. OperatorOK
    BY Zenon DEF OperatorOK
<1>4. RowsOK
  <2>1. DOMAIN rows = {}
      BY Zenon
  <2> QED
      BY <2>1, Zenon DEF RowsOK
<1>5. EveryHeld
    BY Zenon DEF EveryHeld, Envelopes
<1>6. MarksOK
  <2>1. NoMark \in Values
      BY Zenon DEF NoMark, Values
  <2>2. ~Less(NoMark, NoMark)
      BY <2>1, LessOrders, Zenon
  <2>3. \A name \in MarkNames : Offers(name) = {NoMark} /\ marks[name] = NoMark
      BY Zenon DEF Offers
  <2>4. marks \in [MarkNames -> Values] /\ offered \subseteq MarkNames \X Values
      BY <2>1, Zenon
  <2>5. TopOf(NoMark, {NoMark})
      BY <2>2, Zenon DEF TopOf
  <2>6. \A name \in MarkNames : TopOf(marks[name], Offers(name))
      BY <2>3, <2>5, Zenon
  <2> QED
      BY <2>4, <2>6, Zenon DEF MarksOK
<1> QED
    BY <1>1, <1>2, <1>3, <1>4, <1>5, <1>6, ZenonT(30) DEF WorkInv

LEMMA WorkInvAlways == Spec => []WorkInv
<1>1. Inv => TypeOK
    BY Zenon DEF Inv
<1>2. WorkInv /\ Inv /\ [Next]_vars => WorkInv'
    BY <1>1, NextWorks, Zenon
<1> QED
    BY <1>2, InitInv, NextInv, InitWorks, PTL DEF Spec

(* Whatever fails between the writes, the rows, the delete and the redrive,  *)
(* whoever handles a message a second time and whatever operators decide:    *)
(* nothing the queue took is lost, and a row marked as replayed has its      *)
(* replay among what was sent (process_message, _finish, redrive_dlq).       *)
THEOREM NothingIsEverLost == Spec => []NothingLost
<1>1. WorkInv => NothingLost
    BY Zenon DEF WorkInv, EveryHeld, RowsOK, Replayed, NothingLost
<1> QED
    BY <1>1, WorkInvAlways, PTL

(* In whatever order handlers, redeliveries and retries apply them: a mark   *)
(* is the highest value it was ever given (_advance).                        *)
THEOREM MarksAlwaysHighest == Spec => []MarksHighest
<1>1. WorkInv => MarksHighest
  <2> SUFFICES ASSUME WorkInv, NEW name \in MarkNames PROVE marks[name] = Highest(Offers(name))
      BY Zenon DEF MarksHighest, Offers
  <2>1. TopOf(marks[name], Offers(name)) /\ offered \subseteq MarkNames \X Values
      BY Zenon DEF WorkInv, MarksOK
  <2>2. Offers(name) \in SUBSET Values
    <3>1. NoMark \in Values
        BY Zenon DEF NoMark, Values
    <3>2. \A y \in MarkNames \X Values : y[2] \in Values
        BY Zenon
    <3> QED
        BY <2>1, <3>1, <3>2, Zenon DEF Offers
  <2> QED
      BY <2>1, <2>2, HighestIsTop, Zenon
<1> QED
    BY <1>1, WorkInvAlways, PTL
-----------------------------------------------------------------------------
(* The loop of the worker. *)

Jobs == [pc : {"queued", "polled", "decide", "quiet", "final", "gone"},
         started : Nat,
         beat : {"none", "sleep", "call", "closing", "done"},
         call : BOOLEAN,
         cancelled : BOOLEAN,
         decision : {"none", "deleted", "delayed"},
         told : {"hidden", "deleted", "delayed", "released"}]

(* What holds of one job: a heartbeat sleeps or calls only while the message *)
(* is being decided, and its call is over before the last word is said. Only *)
(* a task that was cancelled, and so has no last word, leaves a call behind. *)
JobOK(j) ==
    /\ j \in Jobs
    /\ j.beat \in {"sleep", "call"} <=> j.pc = "decide"
    /\ j.beat = "sleep" => ~j.call
    /\ j.pc \in {"queued", "polled", "final"} => ~j.call
    /\ j.pc = "quiet" /\ j.beat = "done" /\ ~j.cancelled => ~j.call
    /\ j.pc \in {"quiet", "final"} /\ ~j.cancelled => j.decision # "none"
    /\ j.pc = "final" => ~j.cancelled
    /\ j.told # "hidden" => j.pc = "gone" /\ ~j.call

(* A step of one job that keeps what is said of it. *)
Keeps(j, k) ==
    /\ JobOK(k)
    /\ j.told # "hidden" => k.told = j.told

(* A step that starts nothing besides. *)
Follows(j, k) ==
    /\ Keeps(j, k)
    /\ k.started = j.started
    /\ k.pc \in {"decide", "quiet", "final"} => j.pc \in {"decide", "quiet", "final"}

JobsOK == job \in [Deliveries -> Jobs] /\ \A d \in Deliveries : JobOK(job[d])

JobsKept == \A d \in Deliveries : Keeps(job[d], job'[d])

JobsFollow == \A d \in Deliveries : Follows(job[d], job'[d])

(* A mark is never from the future, and the watchdog looked in time. *)
ClockOK ==
    /\ clock \in [now : Nat, mark : Nat]
    /\ clock.mark <= clock.now
    /\ watchdog \in {"armed", "checking"} => clock.now <= clock.mark + StallAfter + 1

(* With every permit busy, a message was young when the loop last marked. *)
MarkIsHonest ==
    Full => \E d \in InFlight : clock.mark <= job[d].started + StallAfter

LoopStates ==
    [pc : {"turn", "poll", "release", "drain", "gather", "ended"}, asked : Nat,
     stop : BOOLEAN, cancel : BOOLEAN, cancelled : BOOLEAN]

(* The loop polls only for permits it has, and never holds more. *)
PermitsHeld ==
    /\ loop \in LoopStates
    /\ Cardinality(InFlight) <= Concurrency
    /\ loop.pc = "poll" => /\ loop.asked # 0
                           /\ Cardinality(InFlight) + loop.asked <= Concurrency

LoopInv == JobsOK /\ ClockOK /\ MarkIsHonest /\ PermitsHeld

-----------------------------------------------------------------------------
(* Cancelling a task keeps what was said of its message and starts nothing. *)
LEMMA TaskCancelledFollows ==
    ASSUME NEW j, JobOK(j)
    PROVE  Follows(j, TaskCancelled(j))
<1>1. CASE j.pc = "decide"
    BY <1>1, Zenon DEF TaskCancelled, BeatCancelled, Follows, Keeps, JobOK, Jobs
<1>2. CASE j.pc = "quiet"
    BY <1>2, Zenon DEF TaskCancelled, BeatCancelled, Follows, Keeps, JobOK, Jobs
<1>3. CASE j.pc \notin {"decide", "quiet"}
    BY <1>3, Zenon DEF TaskCancelled, BeatCancelled, Follows, Keeps, JobOK, Jobs
<1> QED BY <1>1, <1>2, <1>3, Zenon

(* So does the end of the event loop, which leaves calls to their threads. *)
LEMMA AbandonedFollows ==
    ASSUME NEW j, JobOK(j)
    PROVE  Follows(j, Abandoned(j))
<1>1. CASE j.pc = "decide"
    BY <1>1, Zenon DEF Abandoned, TaskCancelled, Follows, Keeps, JobOK, Jobs
<1>2. CASE j.pc = "quiet"
    BY <1>2, Zenon DEF Abandoned, TaskCancelled, Follows, Keeps, JobOK, Jobs
<1>3. CASE j.pc \notin {"decide", "quiet"}
    BY <1>3, ZenonT(30) DEF Abandoned, Follows, Keeps, JobOK, Jobs
<1> QED BY <1>1, <1>2, <1>3, Zenon

(* The steps of one job, and of its heartbeat. *)
LEMMA JobStepsFollow ==
    ASSUME NEW j, JobOK(j)
    PROVE  /\ j.pc = "polled" => \A told \in {"hidden", "released"} :
                 Follows(j, [j EXCEPT !.pc = "gone", !.told = told])
           /\ j.pc = "decide" => \A decision \in {"deleted", "delayed"} :
                 Follows(j, [j EXCEPT !.pc = "quiet", !.beat = BeatCancelled(@),
                                    !.decision = decision])
           /\ j.beat = "sleep" => Follows(j, [j EXCEPT !.beat = "call", !.call = TRUE])
           /\ j.call => \A told \in {j.told, "hidden"} :
                 Follows(j, [j EXCEPT !.call = FALSE, !.told = told,
                                    !.beat = IF @ = "call" THEN "sleep" ELSE "done"])
           /\ j.pc = "quiet" /\ j.beat = "done" =>
                 Follows(j, [j EXCEPT !.pc = IF j.cancelled THEN "gone" ELSE "final"])
           /\ j.pc = "final" => \A told \in {"hidden", j.decision} :
                 Follows(j, [j EXCEPT !.pc = "gone", !.told = told])
<1>1. ASSUME j.pc = "polled", NEW told \in {"hidden", "released"}
      PROVE  Follows(j, [j EXCEPT !.pc = "gone", !.told = told])
    BY <1>1, Zenon DEF Follows, Keeps, JobOK, Jobs
<1>2. ASSUME j.pc = "decide", NEW decision \in {"deleted", "delayed"}
      PROVE  Follows(j, [j EXCEPT !.pc = "quiet", !.beat = BeatCancelled(@), !.decision = decision])
    BY <1>2, Zenon DEF Follows, Keeps, JobOK, Jobs, BeatCancelled
<1>3. ASSUME j.beat = "sleep"
      PROVE  Follows(j, [j EXCEPT !.beat = "call", !.call = TRUE])
    BY <1>3, Zenon DEF Follows, Keeps, JobOK, Jobs
<1>4. ASSUME j.call, NEW told \in {j.told, "hidden"}
      PROVE  Follows(j, [j EXCEPT !.call = FALSE, !.told = told,
                                !.beat = IF @ = "call" THEN "sleep" ELSE "done"])
    BY <1>4, ZenonT(30) DEF Follows, Keeps, JobOK, Jobs
<1>5. ASSUME j.pc = "quiet", j.beat = "done"
      PROVE  Follows(j, [j EXCEPT !.pc = IF j.cancelled THEN "gone" ELSE "final"])
    BY <1>5, Zenon DEF Follows, Keeps, JobOK, Jobs
<1>6. ASSUME j.pc = "final", NEW told \in {"hidden", j.decision}
      PROVE  Follows(j, [j EXCEPT !.pc = "gone", !.told = told])
    BY <1>6, Zenon DEF Follows, Keeps, JobOK, Jobs
<1> QED BY <1>1, <1>2, <1>3, <1>4, <1>5, <1>6, Zenon

(* Every step keeps every job, and only a poll starts one. *)
LEMMA StepKeepsJobs ==
    ASSUME JobsOK, ClockOK, [LoopStep]_loopVars
    PROVE  /\ JobsOK' /\ JobsKept
           /\ JobsFollow \/ \E received \in SUBSET Deliveries : PollReturns(received)
<1> USE DEF JobsOK
<1>1. ASSUME job' \in [Deliveries -> Jobs], JobsFollow
      PROVE  JobsOK' /\ JobsKept /\ JobsFollow
    BY <1>1, Zenon DEF JobsKept, JobsFollow, Follows, Keeps
<1>2. CASE UNCHANGED job
    BY <1>1, <1>2, Zenon DEF JobsFollow, Follows, Keeps
<1>3. ASSUME NEW received \in SUBSET Deliveries, PollReturns(received)
      PROVE  JobsOK' /\ JobsKept
  <2>1. Started \in Jobs /\ JobOK(Started)
      BY Zenon DEF Started, Unreceived, Jobs, JobOK, ClockOK
  <2>2. [Unreceived EXCEPT !.pc = "polled"] \in Jobs /\ JobOK([Unreceived EXCEPT !.pc = "polled"])
      BY Zenon DEF Unreceived, Jobs, JobOK
  <2>3. \A d \in received : job[d].told = "hidden"
      BY <1>3, Zenon DEF PollReturns, JobOK
  <2> QED BY <1>3, <2>1, <2>2, <2>3, Zenon DEF PollReturns, JobsKept, Keeps
<1>4. ASSUME NEW d \in Deliveries,
             Release(d) \/ Decide(d) \/ BeatCalls(d) \/ BeatReturns(d) \/ Quiet(d) \/ Conclude(d)
      PROVE  JobsOK' /\ JobsKept /\ JobsFollow
  <2>1. ASSUME NEW j, Follows(job[d], j), SetJob(d, j)
        PROVE  JobsOK' /\ JobsKept /\ JobsFollow
    <3>1. job' \in [Deliveries -> Jobs]
        BY <2>1, Zenon DEF SetJob, Follows, Keeps, JobOK
    <3>2. JobsFollow
        BY <2>1, Zenon DEF JobsFollow, SetJob, Follows, Keeps
    <3> QED BY <1>1, <3>1, <3>2, Zenon
  <2>2. JobOK(job[d])
      BY Zenon
  <2> HIDE DEF JobsOK
  <2>3. CASE Release(d) BY <2>1, <2>2, <2>3, JobStepsFollow, Zenon DEF Release
  <2>4. CASE Decide(d) BY <2>1, <2>2, <2>4, JobStepsFollow, Zenon DEF Decide
  <2>5. CASE BeatCalls(d) BY <2>1, <2>2, <2>5, JobStepsFollow, Zenon DEF BeatCalls
  <2>6. CASE BeatReturns(d) BY <2>1, <2>2, <2>6, JobStepsFollow, Zenon DEF BeatReturns
  <2>7. CASE Quiet(d) BY <2>1, <2>2, <2>7, JobStepsFollow, Zenon DEF Quiet
  <2>8. CASE Conclude(d) BY <2>1, <2>2, <2>8, JobStepsFollow, Zenon DEF Conclude
  <2> QED BY <1>4, <2>3, <2>4, <2>5, <2>6, <2>7, <2>8, ZenonT(30)
<1>5. CASE CancelTasks
  <2>1. \A d \in Deliveries : Follows(job[d], job'[d])
      BY <1>5, TaskCancelledFollows, ZenonT(30) DEF CancelTasks
  <2>2. job' \in [Deliveries -> Jobs]
      BY <1>5, <2>1, ZenonT(30) DEF CancelTasks, Follows, Keeps, JobOK
  <2> QED BY <1>1, <2>1, <2>2, ZenonT(30) DEF JobsFollow
<1>6. CASE job' = [d \in Deliveries |-> Abandoned(job[d])]
  <2>1. \A d \in Deliveries : Follows(job[d], job'[d])
      BY <1>6, AbandonedFollows, Zenon
  <2>2. job' \in [Deliveries -> Jobs]
      BY <1>6, <2>1, ZenonT(30) DEF Follows, Keeps, JobOK
  <2> QED BY <1>1, <2>1, <2>2, Zenon DEF JobsFollow
<1>7. CASE job' = [d \in Deliveries |->
                      IF job[d].pc = "polled" THEN [job[d] EXCEPT !.pc = "gone"] ELSE job[d]]
  <2>1. ASSUME NEW j, JobOK(j), j.pc = "polled"
        PROVE  Follows(j, [j EXCEPT !.pc = "gone"])
      BY <2>1, Zenon DEF Follows, Keeps, JobOK, Jobs
  <2>2. \A d \in Deliveries : Follows(job[d], job'[d])
      BY <1>7, <2>1, Zenon DEF Follows, Keeps
  <2>3. job' \in [Deliveries -> Jobs]
      BY <1>7, <2>2, Zenon DEF Follows, Keeps, JobOK
  <2> QED BY <1>1, <2>2, <2>3, Zenon DEF JobsFollow
<1> HIDE DEF JobsOK
<1> QED
    BY <1>2, <1>3, <1>4, <1>5, <1>6, <1>7, ZenonT(30)
    DEF LoopStep, loopVars, Poll, StopPolling, DrainExpires, DrainEnds, RunCancelled, RunEnded,
        Stop, Wake, Look, ForceExit, Pass

(* The jobs in flight can be counted, before a step *)
LEMMA InFlightFinite == IsFiniteSet(InFlight) /\ Cardinality(InFlight) \in Nat
<1>1. IsFiniteSet(InFlight)
    BY FS_Subset, LoopAssumption, Zenon DEF InFlight
<1> QED BY <1>1, FS_CardinalityType, Zenon

(* and after it. *)
LEMMA InFlightFiniteNext == IsFiniteSet(InFlight') /\ Cardinality(InFlight') \in Nat
<1>1. IsFiniteSet(InFlight')
    BY FS_Subset, LoopAssumption, Zenon DEF InFlight
<1> QED BY <1>1, FS_CardinalityType, Zenon

(* Where nothing starts, no permit is taken. *)
LEMMA FollowersTakeNoPermit ==
    ASSUME JobsFollow, PermitsHeld
    PROVE  /\ InFlight' \subseteq InFlight
           /\ \A d \in InFlight' : job'[d].started = job[d].started
           /\ Cardinality(InFlight') <= Cardinality(InFlight)
           /\ Full' => Full /\ InFlight' = InFlight
<1>1. /\ InFlight' \subseteq InFlight
      /\ \A d \in InFlight' : job'[d].started = job[d].started
    BY Zenon DEF InFlight, JobsFollow, Follows
<1>2. /\ Cardinality(InFlight') <= Cardinality(InFlight)
      /\ Cardinality(InFlight) = Cardinality(InFlight') => InFlight = InFlight'
    BY <1>1, InFlightFinite, FS_Subset, Zenon
<1>3. Full' => Full /\ Cardinality(InFlight) = Cardinality(InFlight')
    BY <1>2, InFlightFinite, InFlightFiniteNext, LoopAssumption DEF Full, PermitsHeld
<1> QED BY <1>1, <1>2, <1>3, Zenon

(* A poll takes no more permits than it asked for. *)
LEMMA PollTakesWhatItAsked ==
    ASSUME PermitsHeld, NEW received \in SUBSET Deliveries, PollReturns(received)
    PROVE  Cardinality(InFlight') <= Concurrency
<1>1. [Unreceived EXCEPT !.pc = "polled"].pc = "polled"
    BY Zenon DEF Unreceived
<1>2. InFlight' \subseteq InFlight \cup received
    BY <1>1, Zenon DEF InFlight, PollReturns
<1>3. IsFiniteSet(received) /\ Cardinality(received) \in Nat
    BY FS_Subset, FS_CardinalityType, LoopAssumption, Zenon
<1>4. /\ IsFiniteSet(InFlight \cup received)
      /\ Cardinality(InFlight \cup received)
            = Cardinality(InFlight) + Cardinality(received) - Cardinality(InFlight \cap received)
    BY <1>3, InFlightFinite, FS_Union, Zenon
<1>5. IsFiniteSet(InFlight \cap received) /\ Cardinality(InFlight \cap received) \in Nat
    BY <1>3, FS_Intersection, FS_CardinalityType, Zenon
<1>6. Cardinality(InFlight') <= Cardinality(InFlight \cup received)
    BY <1>2, <1>4, FS_Subset, Zenon
<1>7. /\ loop.asked \in Nat /\ Cardinality(received) <= loop.asked
      /\ Cardinality(InFlight) + loop.asked <= Concurrency
    BY Zenon DEF PollReturns, PermitsHeld, LoopStates
<1> QED
    BY <1>3, <1>4, <1>5, <1>6, <1>7, InFlightFinite, InFlightFiniteNext, LoopAssumption

(* A poll that fills the permits starts a message, now. *)
LEMMA PollFillsWithTheYoung ==
    ASSUME PermitsHeld, NEW received \in SUBSET Deliveries, PollReturns(received), Full'
    PROVE  \E d \in InFlight' : job'[d].started = clock.now
<1>1. CASE received # {} /\ ~loop.stop
  <2>1. PICK d \in received : TRUE
      BY <1>1, Zenon
  <2>2. job'[d] = Started
      BY <1>1, Zenon DEF PollReturns
  <2>3. Started.pc = "decide" /\ Started.started = clock.now
      BY Zenon DEF Started, Unreceived
  <2> QED BY <2>2, <2>3, Zenon DEF InFlight
<1>2. CASE received = {} \/ loop.stop
  <2>1. [Unreceived EXCEPT !.pc = "polled"].pc = "polled"
      BY Zenon DEF Unreceived
  <2>2. InFlight' \subseteq InFlight
      BY <1>2, <2>1, Zenon DEF InFlight, PollReturns
  <2>3. Cardinality(InFlight') <= Cardinality(InFlight)
      BY <2>2, InFlightFinite, FS_Subset, Zenon
  <2>4. /\ loop.asked \in Nat \ {0}
        /\ Cardinality(InFlight) + loop.asked <= Concurrency
      BY Zenon DEF PollReturns, PermitsHeld, LoopStates
  <2>5. Cardinality(InFlight') >= Concurrency
      BY Zenon DEF Full
  <2> QED
      BY <2>3, <2>4, <2>5, InFlightFinite, InFlightFiniteNext, LoopAssumption
<1> QED BY <1>1, <1>2, Zenon

(* The clocks of the loop and of the watchdog stay in order. *)
LEMMA StepKeepsClock ==
    ASSUME ClockOK, [LoopStep]_loopVars
    PROVE  ClockOK'
<1> USE LoopAssumption DEF ClockOK
<1>1. CASE UNCHANGED <<clock, watchdog>>
    BY <1>1, Zenon
<1>2. CASE MarkAlive /\ UNCHANGED watchdog
    BY <1>2 DEF MarkAlive
<1>3. CASE Look
    BY <1>3, Zenon DEF Look
<1>4. CASE Pass
    BY <1>4 DEF Pass, Silent
<1>5. CASE RunEnded \/ Stop \/ Wake
    BY <1>5, Zenon DEF RunEnded, Stop, Wake
<1> QED
    BY <1>1, <1>2, <1>3, <1>4, <1>5, ZenonT(30)
    DEF LoopStep, loopVars, Poll, StopPolling, DrainExpires, DrainEnds, RunCancelled, ForceExit,
        PollReturns, Release, Decide, BeatCalls, BeatReturns, Quiet, Conclude

(* A mark is left alone, or made: with a permit free, on a poll's return, or *)
(* with every message young.                                                 *)
LEMMA StepKeepsMarkHonest ==
    ASSUME LoopInv, [LoopStep]_loopVars
    PROVE  MarkIsHonest'
<1> SUFFICES ASSUME Full'
             PROVE  \E d \in InFlight' : clock'.mark <= job'[d].started + StallAfter
    BY Zenon DEF MarkIsHonest
<1>0. JobsOK /\ ClockOK /\ MarkIsHonest /\ PermitsHeld
    BY Zenon DEF LoopInv
<1>1. ASSUME NEW received \in SUBSET Deliveries, PollReturns(received)
      PROVE  \E d \in InFlight' : clock'.mark <= job'[d].started + StallAfter
  <2>1. PICK d \in InFlight' : job'[d].started = clock.now
      BY <1>0, <1>1, PollFillsWithTheYoung, Zenon
  <2>2. clock'.mark = clock.now
      BY <1>0, <1>1, Zenon DEF PollReturns, MarkAlive, ClockOK
  <2> QED BY <1>0, <2>1, <2>2, LoopAssumption DEF ClockOK
<1>2. CASE JobsFollow
  <2>1. /\ Full /\ InFlight' = InFlight
        /\ \A d \in InFlight' : job'[d].started = job[d].started
      BY <1>0, <1>2, FollowersTakeNoPermit, Zenon
  <2>2. CASE clock'.mark = clock.mark
      BY <1>0, <2>1, <2>2, Zenon DEF MarkIsHonest
  <2>3. CASE Pass /\ ~Overdue /\ clock'.mark = clock.now
    <3>1. PICK d \in InFlight : TRUE
        BY <1>0, <2>1, Zenon DEF MarkIsHonest
    <3>2. clock.now \in Nat /\ job[d].started \in Nat
        BY <1>0, Zenon DEF ClockOK, JobsOK, Jobs, InFlight
    <3>3. ~(clock.now - job[d].started > StallAfter)
        BY <2>3, Zenon DEF Overdue
    <3>4. clock'.mark <= job'[d].started + StallAfter
        BY <2>1, <2>3, <3>2, <3>3, LoopAssumption
    <3> QED BY <2>1, <3>4, Zenon
  <2>4. clock'.mark = clock.mark \/ (Pass /\ ~Overdue /\ clock'.mark = clock.now)
        \/ \E received \in SUBSET Deliveries : PollReturns(received)
    <3>1. Pass => clock'.mark = clock.mark \/ (~Overdue /\ clock'.mark = clock.now)
        BY DEF Pass
    <3>2. ~Poll
        BY <2>1, Zenon DEF Poll
    <3> QED
        BY <3>1, <3>2, Zenon
        DEF LoopStep, loopVars, StopPolling, DrainExpires, DrainEnds, RunCancelled, RunEnded,
            Stop, Wake, Look, ForceExit, Release, Decide, BeatCalls, BeatReturns, Quiet, Conclude
  <2> QED BY <1>1, <2>2, <2>3, <2>4, Zenon
<1> QED BY <1>0, <1>1, <1>2, StepKeepsJobs, Zenon

(* No more jobs in flight than permits taken. *)
LEMMA StepKeepsPermits ==
    ASSUME LoopInv, [LoopStep]_loopVars
    PROVE  PermitsHeld'
<1>0. JobsOK /\ ClockOK /\ MarkIsHonest /\ PermitsHeld
    BY Zenon DEF LoopInv
<1>1. ASSUME NEW received \in SUBSET Deliveries, PollReturns(received)
      PROVE  PermitsHeld'
  <2>1. Cardinality(InFlight') <= Concurrency
      BY <1>0, <1>1, PollTakesWhatItAsked, Zenon
  <2>2. loop' \in LoopStates /\ loop'.pc # "poll"
      BY <1>0, <1>1, Zenon DEF PollReturns, PermitsHeld, LoopStates
  <2> QED BY <2>1, <2>2, Zenon DEF PermitsHeld
<1>2. CASE JobsFollow
  <2>1. /\ Cardinality(InFlight') <= Cardinality(InFlight)
        /\ Cardinality(InFlight') <= Concurrency
      BY <1>0, <1>2, FollowersTakeNoPermit, InFlightFinite, InFlightFiniteNext, LoopAssumption
      DEF PermitsHeld
  <2>2. CASE Poll
    <3> DEFINE free == Concurrency - Cardinality(InFlight)
               asked == Smaller(MaxMessages, free)
    <3>1. free \in Nat \ {0}
        BY <2>2, InFlightFinite, LoopAssumption DEF Poll, Full
    <3>2. asked \in Nat \ {0} /\ asked <= free
        BY <3>1, LoopAssumption DEF Smaller
    <3>3. loop' = [loop EXCEPT !.pc = "poll", !.asked = asked]
        BY <2>2, Zenon DEF Poll
    <3> HIDE DEF asked
    <3>4. loop' \in LoopStates /\ loop'.asked = asked
        BY <1>0, <3>2, <3>3, Zenon DEF PermitsHeld, LoopStates
    <3>5. Cardinality(InFlight') + asked <= Concurrency
        BY <2>1, <3>2, InFlightFinite, InFlightFiniteNext, LoopAssumption
    <3> QED BY <2>1, <3>2, <3>4, <3>5, Zenon DEF PermitsHeld
  <2>3. CASE loop' \in LoopStates /\ (loop'.pc # "poll" \/ loop' = loop)
    <3>1. loop.pc = "poll" => Cardinality(InFlight') + loop.asked <= Concurrency
        BY <1>0, <2>1, InFlightFinite, InFlightFiniteNext, LoopAssumption
        DEF PermitsHeld, LoopStates
    <3> QED BY <1>0, <2>1, <2>3, <3>1, Zenon DEF PermitsHeld
  <2>4. CASE Stop \/ Look
    <3>1. /\ loop' \in LoopStates
          /\ loop'.pc = loop.pc /\ loop'.asked = loop.asked
        BY <1>0, <2>4, Zenon DEF Stop, Look, PermitsHeld, LoopStates
    <3>2. loop.pc = "poll" => Cardinality(InFlight') + loop.asked <= Concurrency
        BY <1>0, <2>1, InFlightFinite, InFlightFiniteNext, LoopAssumption
        DEF PermitsHeld, LoopStates
    <3> QED BY <1>0, <2>1, <3>1, <3>2, Zenon DEF PermitsHeld
  <2>5. Poll \/ Stop \/ Look \/ (\E received \in SUBSET Deliveries : PollReturns(received))
        \/ (loop' \in LoopStates /\ (loop'.pc # "poll" \/ loop' = loop))
    <3>1. StopPolling \/ DrainExpires \/ DrainEnds \/ RunCancelled =>
             loop' \in LoopStates /\ loop'.pc # "poll"
        BY <1>0, Zenon DEF StopPolling, DrainExpires, DrainEnds, RunCancelled, PermitsHeld, LoopStates
    <3>2. loop \in LoopStates
        BY <1>0, Zenon DEF PermitsHeld
    <3> QED
        BY <3>1, <3>2, Zenon
        DEF LoopStep, loopVars, RunEnded, Wake, ForceExit, Pass,
            Release, Decide, BeatCalls, BeatReturns, Quiet, Conclude
  <2> QED BY <1>1, <2>2, <2>3, <2>4, <2>5, ZenonT(30)
<1> QED BY <1>0, <1>1, <1>2, StepKeepsJobs, Zenon

(* The process as it starts. *)
LEMMA InitEstablishesInv == LoopInit => LoopInv
<1> SUFFICES ASSUME LoopInit PROVE LoopInv
    BY Zenon
<1>1. Unreceived \in Jobs /\ JobOK(Unreceived) /\ Unreceived.pc = "queued"
    BY Zenon DEF Unreceived, Jobs, JobOK
<1>2. JobsOK
    BY <1>1, Zenon DEF LoopInit, JobsOK
<1>3. InFlight = {}
    BY <1>1, Zenon DEF LoopInit, InFlight
<1>4. Cardinality(InFlight) = 0
    BY <1>3, FS_EmptySet, Zenon
<1>5. ClockOK
    BY LoopAssumption DEF LoopInit, ClockOK
<1>6. MarkIsHonest
    BY <1>4, LoopAssumption DEF MarkIsHonest, Full
<1>7. PermitsHeld
    BY <1>4, LoopAssumption DEF LoopInit, PermitsHeld, LoopStates
<1> QED BY <1>2, <1>5, <1>6, <1>7, ZenonT(30) DEF LoopInv

(* Every step of the loop, its jobs, its timers and its watchdog. *)
LEMMA StepKeepsInv == LoopInv /\ [LoopStep]_loopVars => LoopInv'
<1> SUFFICES ASSUME LoopInv, [LoopStep]_loopVars PROVE LoopInv'
    BY Zenon
<1>1. JobsOK' /\ ClockOK'
    BY StepKeepsJobs, StepKeepsClock, Zenon DEF LoopInv
<1> QED BY <1>1, StepKeepsMarkHonest, StepKeepsPermits, Zenon DEF LoopInv

(* The invariant, of every state of every behaviour. *)
LEMMA InvAlways == LoopSpec => []LoopInv
BY InitEstablishesInv, StepKeepsInv, PTL DEF LoopSpec

(* For every number of permits, messages and beats: once a message has been  *)
(* deleted, delayed or released, no heartbeat call that was still on its way *)
(* hides it again, however decisions, the drain's cancellation, the stall    *)
(* watchdog's and the end of the event loop interleave.                      *)
THEOREM LastWordAlwaysStands == LoopSpec => LastWordStands
<1>1. LoopInv /\ [LoopStep]_loopVars =>
          [\A d \in Deliveries : job[d].told # "hidden" => job'[d].told = job[d].told]_loopVars
  <2> SUFFICES ASSUME LoopInv, [LoopStep]_loopVars
               PROVE  \A d \in Deliveries :
                          job[d].told # "hidden" => job'[d].told = job[d].told
      BY Zenon
  <2> QED BY StepKeepsJobs, Zenon DEF LoopInv, JobsKept, Keeps
<1> QED BY <1>1, InvAlways, PTL DEF LoopSpec, LastWordStands

(* For every threshold: while the watchdog is on guard, a process whose      *)
(* permits are all taken holds a message younger than twice the threshold.   *)
(* The invariant behind it: the loop never holds more permits than it has,   *)
(* and a mark made with all of them taken is made over young messages only.  *)
THEOREM WedgeIsAlwaysSeen == LoopSpec => []WedgeIsSeen
<1>1. LoopInv => WedgeIsSeen
  <2> SUFFICES ASSUME LoopInv, Full, watchdog \in {"armed", "checking"}
               PROVE  \E d \in InFlight : clock.now - job[d].started <= 2 * StallAfter + 1
      BY Zenon DEF WedgeIsSeen
  <2>1. PICK d \in InFlight : clock.mark <= job[d].started + StallAfter
      BY Zenon DEF LoopInv, MarkIsHonest
  <2>2. job[d].started \in Nat
      BY Zenon DEF LoopInv, JobsOK, Jobs, InFlight
  <2>3. clock.now \in Nat /\ clock.mark \in Nat /\ clock.now <= clock.mark + StallAfter + 1
      BY Zenon DEF LoopInv, ClockOK
  <2>4. clock.now - job[d].started <= 2 * StallAfter + 1
      BY <2>1, <2>2, <2>3, LoopAssumption
  <2> QED BY <2>4, Zenon
<1> QED BY <1>1, InvAlways, PTL
=============================================================================
