------------------------- MODULE NotificationRelay -------------------------
(***************************************************************************)
(* Runs of notification-relay (internal/notifications/relay/runner.go,     *)
(* relay/dynamo): an item on the relay index is claimed under a lease; an  *)
(* outbox is expanded by one page of deliveries, all or nothing; a pending *)
(* delivery is published to the jobs queue and then marked queued.         *)
(*                                                                         *)
(* A run's id is new and a run claims an item once, so the same-owner arm  *)
(* of the claim's condition is never used.                                 *)
(***************************************************************************)
EXTENDS NotificationStore, FiniteSetsExt

CONSTANTS
    Relays,       \* item workers of relay runs
    PageSize,     \* fanout page size
    MaxOutboxRev  \* bound: revision of an outbox

(* relay/config: "fanout-page-size must be between 1 and 99". *)
ASSUME RelayAssumption == PageSize \in Nat \ {0} /\ MaxOutboxRev \in Nat

VARIABLE relay    \* what each relay worker is doing

(* pc; item: the delivery, or <<kind, 0>> for an outbox; work: the item as  *)
(* claimed; rows: the planned deliveries by recipient; seen: the openings   *)
(* to check.                                                                *)
Idle == [pc |-> "idle"]

RelayInit == relay = [p \in Relays |-> Idle]

Set(p, value) == relay' = [relay EXCEPT ![p] = value]

Claimed(lease, p) == [owner |-> p, epoch |-> lease.epoch + 1, live |-> TRUE]

(* The item is as it was claimed: revision, lease owner and epoch. *)
OwnsOutbox(p) ==
    LET current == outbox[relay[p].item[1]] IN
    /\ current.status = "pending" /\ current.rev = relay[p].work.rev
    /\ current.cursor = relay[p].work.cursor
    /\ current.lease.owner = p /\ current.lease.epoch = relay[p].work.lease.epoch

OwnsDelivery(p) ==
    LET current == delivery[relay[p].item] IN
    /\ current.state = "pending" /\ current.indexed /\ current.rev = relay[p].work.rev
    /\ current.relay.owner = p /\ current.relay.epoch = relay[p].work.relay.epoch
-----------------------------------------------------------------------------
ClaimOutbox(p, k) ==
    LET claimed == [outbox[k] EXCEPT !.lease = Claimed(@, p)] IN
    /\ relay[p].pc = "idle"
    /\ outbox[k].status = "pending" /\ ~outbox[k].lease.live
    /\ outbox[k].rev < MaxOutboxRev
    /\ outbox' = [outbox EXCEPT ![k] = claimed]
    /\ Set(p, [pc |-> "claimed", item |-> <<k, 0>>, work |-> claimed])
    /\ UNCHANGED <<status, delivery, attempt, gate, suppression, queue, faults>>

(* What an outbox is expanded over: the members, or the opening deliveries. *)
Sources(k) ==
    IF k = "opening" THEN Recipients ELSE {r \in Recipients : delivery[Opening(r)] # NoRow}

(* The page after the cursor.  A full page is followed by another one,      *)
(* perhaps empty.                                                           *)
Page(p) ==
    LET rest == {r \in Sources(relay[p].item[1]) : r > relay[p].work.cursor} IN
    {r \in rest : Cardinality({s \in rest : s < r}) < PageSize}

(* The delivery an opening intent creates for a member, NoRow if filtered. *)
OpeningRow(r) ==
    IF ~(gate[r].member /\ gate[r].preference) THEN NoRow
    ELSE Row(IF Suppressed(r) THEN "cancelled" ELSE "pending")

PlanOpening(p) ==
    /\ relay[p].pc = "claimed" /\ relay[p].item[1] = "opening"
    /\ Set(p, [pc |-> "planned", item |-> relay[p].item, work |-> relay[p].work,
               rows |-> [r \in Page(p) |-> OpeningRow(r)],
               seen |-> [r \in {} |-> NoRow]])
    /\ UNCHANGED storeVars

(* The recovery that follows an opening delivery. *)
RecoveryRow(r, opening) ==
    CASE Unsettled(opening.state) ->
           Row(IF Channel = "telegram" THEN "cancelled" ELSE "waiting_dependency")
      [] opening.state \in {"permanent_failed", "cancelled"} -> Row("cancelled")
      [] opening.state = "succeeded" ->
           Row(IF gate[r].member /\ ~Suppressed(r) THEN "pending" ELSE "cancelled")

(* The openings whose state and revision the page's transaction checks. *)
Checked(opening) ==
    \/ opening.state = "succeeded" \/ opening.state \in NonterminalStates
    \/ opening.state = "unknown" /\ Channel = "email"

PlanRecovery(p) ==
    /\ relay[p].pc = "claimed" /\ relay[p].item[1] = "recovery"
    /\ outbox["opening"].status = "expanded"
    /\ LET opening == [r \in Page(p) |-> delivery[Opening(r)]]
           checked == {r \in Page(p) : Checked(opening[r])}
       IN Set(p, [pc |-> "planned", item |-> relay[p].item, work |-> relay[p].work,
                  rows |-> [r \in Page(p) |-> RecoveryRow(r, opening[r])],
                  seen |-> [r \in checked |-> opening[r]]])
    /\ UNCHANGED storeVars

(* requireExpandedOpening: the recovery waits for the opening's fan-out. *)
AwaitOpening(p) ==
    /\ relay[p].pc = "claimed" /\ relay[p].item[1] = "recovery"
    /\ outbox["opening"].status # "expanded"
    /\ Set(p, [relay[p] EXCEPT !.pc = "retry"])
    /\ UNCHANGED storeVars

(* commitFanoutPage: the conditions of one transaction. *)
PageHolds(p) ==
    /\ OwnsOutbox(p)
    /\ \A r \in DOMAIN relay[p].rows :
         relay[p].rows[r] # NoRow => delivery[<<relay[p].item[1], r>>] = NoRow
    /\ \A r \in DOMAIN relay[p].seen :
         /\ delivery[Opening(r)].state = relay[p].seen[r].state
         /\ delivery[Opening(r)].rev = relay[p].seen[r].rev

(* Mutant: every page is taken for the last. *)
AdvancedTooSoon(work, page) ==
    [work EXCEPT !.status = "expanded", !.rev = @ + 1, !.lease = NoLease]

(* outboxMutation: the last page ends the expansion, any other moves the cursor. *)
Advanced(work, page) ==
    IF Cardinality(page) < PageSize
    THEN [work EXCEPT !.status = "expanded", !.rev = @ + 1, !.lease = NoLease]
    ELSE [work EXCEPT !.cursor = Max(page), !.rev = @ + 1, !.lease = NoLease]

CommitPage(p) ==
    /\ relay[p].pc = "planned"
    /\ PageHolds(p)
    /\ LET k == relay[p].item[1]
           rows == relay[p].rows
       IN /\ delivery' = [d \in Deliveries |->
               IF d[1] = k /\ d[2] \in DOMAIN rows /\ rows[d[2]] # NoRow
               THEN rows[d[2]] ELSE delivery[d]]
          /\ outbox' = [outbox EXCEPT ![k] = Advanced(@, DOMAIN rows)]
    /\ Set(p, Idle)
    /\ UNCHANGED <<status, attempt, gate, suppression, queue, faults>>

PageConflict(p) ==
    /\ relay[p].pc = "planned"
    /\ ~PageHolds(p)
    /\ Set(p, [pc |-> "retry", item |-> relay[p].item, work |-> relay[p].work])
    /\ UNCHANGED storeVars

Rescheduled(work) == [work EXCEPT !.rev = @ + 1, !.lease = NoLease]

(* retryResult: Reschedule puts the outbox back and drops the lease; a      *)
(* failed condition leaves it to the lease's expiry.                        *)
RescheduleOutbox(p) ==
    /\ relay[p].pc = "retry"
    /\ outbox' = IF OwnsOutbox(p)
                 THEN [outbox EXCEPT ![relay[p].item[1]] = Rescheduled(@)]
                 ELSE outbox
    /\ Set(p, Idle)
    /\ UNCHANGED <<status, delivery, attempt, gate, suppression, queue, faults>>
-----------------------------------------------------------------------------
ClaimDelivery(p, d) ==
    LET claimed == [delivery[d] EXCEPT !.relay = Claimed(@, p)] IN
    /\ relay[p].pc = "idle"
    /\ delivery[d].state = "pending" /\ delivery[d].indexed /\ ~delivery[d].relay.live
    /\ delivery' = [delivery EXCEPT ![d] = claimed]
    /\ Set(p, [pc |-> "publish", item |-> d, work |-> claimed])
    /\ UNCHANGED <<status, outbox, attempt, gate, suppression, queue, faults>>

Publish(p) ==
    /\ relay[p].pc = "publish"
    /\ queue' = queue \cup {relay[p].item}
    /\ Set(p, [relay[p] EXCEPT !.pc = "published"])
    /\ UNCHANGED <<status, outbox, delivery, attempt, gate, suppression, faults>>

(* SQS refuses or does not answer (the job may still be there); the row is  *)
(* rescheduled.                                                             *)
PublishFails(p) ==
    /\ relay[p].pc = "publish"
    /\ Fault
    /\ queue' \in {queue, queue \cup {relay[p].item}}
    /\ delivery' = IF OwnsDelivery(p)
                   THEN [delivery EXCEPT ![relay[p].item] =
                           [Bumped(@) EXCEPT !.relay = NoLease]]
                   ELSE delivery
    /\ Set(p, Idle)
    /\ UNCHANGED <<status, outbox, attempt, gate, suppression>>

Queued(row) ==
    [Bumped(row) EXCEPT !.state = "queued", !.indexed = FALSE, !.relay = NoLease]

MarkQueued(p) ==
    /\ relay[p].pc = "published"
    /\ delivery' = IF OwnsDelivery(p)
                   THEN [delivery EXCEPT ![relay[p].item] = Queued(@)]
                   ELSE delivery
    /\ Set(p, Idle)
    /\ UNCHANGED <<status, outbox, attempt, gate, suppression, queue, faults>>

-----------------------------------------------------------------------------
RelayCrash(p) ==
    /\ relay[p].pc # "idle"
    /\ Fault
    /\ Set(p, Idle)
    /\ UNCHANGED <<status, outbox, delivery, attempt, gate, suppression, queue>>

(* An item timeout well inside the lease ends a claim's work; only a        *)
(* stalled process still acts on a lease that ran out.                      *)
WorkingOn(p, item) == relay[p].pc # "idle" /\ relay[p].item = item

Lapse(owner, item) ==
    IF WorkingOn(owner, item) THEN Fault ELSE faults' = faults

ExpireOutboxLease(k) ==
    /\ outbox[k].lease.live
    /\ Lapse(outbox[k].lease.owner, <<k, 0>>)
    /\ outbox' = [outbox EXCEPT ![k].lease.live = FALSE]
    /\ UNCHANGED <<status, delivery, attempt, gate, suppression, queue, relay>>

ExpireRelayLease(d) ==
    /\ delivery[d].relay.live
    /\ Lapse(delivery[d].relay.owner, d)
    /\ delivery' = [delivery EXCEPT ![d].relay.live = FALSE]
    /\ UNCHANGED <<status, outbox, attempt, gate, suppression, queue, relay>>

RelayWork(p) ==
    \/ PlanOpening(p) \/ PlanRecovery(p) \/ AwaitOpening(p)
    \/ CommitPage(p) \/ PageConflict(p) \/ RescheduleOutbox(p)
    \/ Publish(p) \/ MarkQueued(p)

RelayNext ==
    \/ \E p \in Relays :
         \/ \E k \in Kinds : ClaimOutbox(p, k)
         \/ \E d \in Deliveries : ClaimDelivery(p, d)
         \/ RelayWork(p) \/ PublishFails(p) \/ RelayCrash(p)
    \/ \E k \in Kinds : ExpireOutboxLease(k)
    \/ \E d \in Deliveries : ExpireRelayLease(d)
=============================================================================
