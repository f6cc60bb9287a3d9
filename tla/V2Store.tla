------------------------------ MODULE V2Store ------------------------------
(***************************************************************************)
(* What every /v2 write goes through: the single DynamoDB table, the       *)
(* idempotency receipts kept in it, and the course of a request.           *)
(*                                                                         *)
(* A row is its status, its version and the entity it belongs to; names,   *)
(* descriptions and timestamps are left out. An item key is <<kind, id>>.  *)
(* Time is counted in half seconds: a receipt is created at an instant,    *)
(* its TTL attribute is a whole second.                                    *)
(***************************************************************************)
EXTENDS Naturals, Sequences, FiniteSets

CONSTANTS
    Workloads,  \* bound: client calls, how often each is sent, and how long they race
    ReceiptTTL  \* IDEMPOTENCY_RECEIPT_TTL, in half seconds

ASSUME TTLAssumption == ReceiptTTL \in Nat \ {0}

VARIABLES
    clock,    \* the time
    horizon,  \* bound: where the clock stops
    table,    \* item key -> row
    receipt,  \* idempotency key -> the receipt last written for it
    call,     \* call -> its operation and how far its handler is
    made,     \* history: what was created under an idempotency key
    answered  \* history: what a client was told about an idempotency key

storeVars == <<clock, horizon, table, receipt, call, made, answered>>

NoRow == [status |-> "none", version |-> 0, of |-> <<>>]
Entity(status, of) == [status |-> status, version |-> 1, of |-> of]
Row(k) == IF k \in DOMAIN table THEN table[k] ELSE NoRow

(* A strongly consistent read returns Row(k). An eventually consistent one   *)
(* may still return the row as it was created.                               *)
MaySee(k) ==
    {Row(k)} \cup (IF Row(k) = NoRow THEN {} ELSE {Entity("active", Row(k).of)})

(* attribute_not_exists(PK); the version and status conditions. *)
Absent(k) == k \notin DOMAIN table
AtVersion(k, v) == k \in DOMAIN table /\ table[k].version = v
HasStatus(k, S) == k \in DOMAIN table /\ table[k].status \in S

(* ensure_status_transition: the same status is always accepted. *)
MayBecome(from, to, allowed) ==
    from = to \/ (from \in DOMAIN allowed /\ to \in allowed[from])

(* The row after an update that leaves the status alone when `to` is "-". *)
Changed(row, to) ==
    [row EXCEPT !.status = IF to = "-" THEN @ ELSE to, !.version = @ + 1]

Seconds(t) == t \div 2
CeilSeconds(t) == (t + 1) \div 2

(* get_idempotency_replay_sync: expiry is decided on the creation instant. *)
Live(key) ==
    key \in DOMAIN receipt /\ clock < receipt[key].at + ReceiptTTL

Replayable(op) == Live(op.key) /\ receipt[op.key].body = op.body
KeyReused(op) == Live(op.key) /\ receipt[op.key].body # op.body

(* receipt_put_request: attribute_not_exists(PK) OR expires_at <= :now, with *)
(* expires_at rounded up and the clock rounded down to whole seconds.        *)
ReceiptFreeRoundedDown(key) ==
    key \in DOMAIN receipt => Seconds(receipt[key].at + ReceiptTTL) <= Seconds(clock)
ReceiptFree(key) ==
    key \in DOMAIN receipt => CeilSeconds(receipt[key].at + ReceiptTTL) <= Seconds(clock)

Op(c) == call[c].op
At(c, kind, pc) == call[c].op.kind = kind /\ call[c].pc = pc
NewId(c) == <<c, call[c].sends>>

GoTo(c, pc, saw) ==
    call' = [call EXCEPT ![c] = [@ EXCEPT !.pc = pc, !.saw = saw]]

(* The handler is over: refused (404, 409, 422), or answered. *)
Finish(c, out) ==
    call' = [call EXCEPT ![c] = [@ EXCEPT !.pc = "done", !.saw = 0, !.out = out]]

Refuse(c) ==
    /\ Finish(c, "refused")
    /\ UNCHANGED <<clock, horizon, table, receipt, made, answered>>

Proceed(c, pc, saw) ==
    /\ GoTo(c, pc, saw)
    /\ UNCHANGED <<clock, horizon, table, receipt, made, answered>>

Told(op, id) == [key |-> op.key, body |-> op.body, id |-> id]

(* The answer is the snapshot the receipt holds. *)
Replay(c) ==
    /\ Finish(c, "replayed")
    /\ answered' = answered \cup {Told(Op(c), receipt[Op(c).key].id)}
    /\ UNCHANGED <<clock, horizon, table, receipt, made>>

Creates == {"create_site", "create_asset", "create_device", "create_component",
            "create_capability", "create_account", "create_integration", "start"}

(* create_idempotently, its first lookup: a live receipt of the same request *)
(* is replayed before anything else is read.                                 *)
LookUpReceipt(c) ==
    /\ call[c].pc = "begin"
    /\ Op(c).kind \in Creates
    /\ \/ /\ KeyReused(Op(c))
          /\ Refuse(c)
       \/ /\ Replayable(Op(c))
          /\ Replay(c)
       \/ /\ ~Live(Op(c).key)
          /\ Proceed(c, "read", 0)

(* ... and its second one, after a conflict: a concurrent request with the   *)
(* same key may have won.                                                    *)
RereadReceipt(c) ==
    /\ call[c].pc = "reread"
    /\ \/ /\ Replayable(Op(c))
          /\ Replay(c)
       \/ /\ ~Replayable(Op(c))
          /\ Refuse(c)

Merge(rows, gone) ==
    [k \in (DOMAIN table \ gone) \cup DOMAIN rows |->
        IF k \in DOMAIN rows THEN rows[k] ELSE table[k]]

(* The rows of a creation, its receipt and the answer. The receipt's         *)
(* creation instant was taken when the entity was built.                     *)
Create(c, rows) ==
    LET op == Op(c)
        r  == [body |-> op.body, id |-> NewId(c), at |-> call[c].at]
    IN  /\ table' = Merge(rows, {})
        /\ receipt' = [k \in DOMAIN receipt \cup {op.key} |->
                          IF k = op.key THEN r ELSE receipt[k]]
        /\ made' = made \cup {[key |-> op.key, body |-> op.body,
                               id |-> NewId(c), at |-> call[c].at, written |-> clock]}
        /\ answered' = answered \cup {Told(op, NewId(c))}
        /\ Finish(c, "created")
        /\ UNCHANGED <<clock, horizon>>

(* The transaction of a creation: all conditions hold, or nothing is written *)
(* and the receipt is looked up again when `reread` says so.                 *)
TransactCreate(c, conditions, rows, reread) ==
    \/ /\ conditions
       /\ ReceiptFree(Op(c).key)
       /\ Create(c, rows)
    \/ /\ ~(conditions /\ ReceiptFree(Op(c).key))
       /\ IF reread THEN Proceed(c, "reread", 0) ELSE Refuse(c)

(* The transaction of an update. *)
TransactUpdate(c, conditions, rows, gone) ==
    \/ /\ conditions
       /\ table' = Merge(rows, gone)
       /\ Finish(c, "updated")
       /\ UNCHANGED <<clock, horizon, receipt, made, answered>>
    \/ /\ ~conditions
       /\ Refuse(c)

(* The entity and its receipt are stamped when the entity is built. *)
Build(c, pc, saw) ==
    /\ call' = [call EXCEPT ![c] = [@ EXCEPT !.pc = pc, !.saw = saw, !.at = clock]]
    /\ UNCHANGED <<clock, horizon, table, receipt, made, answered>>

(* A client that saw no answer sends its call again; whatever handler was    *)
(* still working on it never commits.                                        *)
Resend(c) ==
    /\ call[c].pc # "begin"
    /\ call[c].sends < Op(c).tries
    /\ call' = [call EXCEPT ![c] = [@ EXCEPT !.pc = "begin", !.saw = 0, !.out = "none",
                                             !.at = 0, !.sends = call[c].sends + 1]]
    /\ UNCHANGED <<clock, horizon, table, receipt, made, answered>>

ClockTick ==
    /\ clock < horizon
    /\ clock' = clock + 1
    /\ UNCHANGED <<horizon, table, receipt, call, made, answered>>

(* The calls of one workload, none of them handled yet, over given rows. *)
StoreInit(rows) ==
    /\ clock = 1
    /\ table = rows
    /\ receipt = [k \in {} |-> 0]
    /\ \E w \in Workloads :
           /\ horizon = w.until
           /\ call = [c \in DOMAIN w.calls |->
                        [op |-> w.calls[c], pc |-> "begin", saw |-> 0, at |-> 0,
                         out |-> "none", sends |-> 1]]
    /\ made = {}
    /\ answered = {}
=============================================================================
