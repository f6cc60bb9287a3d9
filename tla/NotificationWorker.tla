------------------------- MODULE NotificationWorker ------------------------
(***************************************************************************)
(* The jobs consumers (email-worker, telegram-worker): Processor.Handle of *)
(* internal/notifications/worker/processor.go over the conditional writes  *)
(* of worker/dynamo, and the provider it calls.                            *)
(*                                                                         *)
(* A job is in the queue until a handler deletes it; any number of         *)
(* handlers may receive it meanwhile (at-least-once delivery, visibility   *)
(* timeouts, a second copy published by the relay).  Every decision but    *)
(* Delete leaves the job there.                                            *)
(***************************************************************************)
EXTENDS NotificationStore

CONSTANTS
    Workers,   \* handlers
    Results,   \* how a provider call may end
    MaxEpoch   \* bound: delivery_lease_epoch, the claims of one delivery

ASSUME WorkerAssumption == Results \subseteq SendResults /\ IsFiniteSet(Workers)

VARIABLES
    worker,    \* what each handler is doing
    provider   \* per delivery: calls made, the attempts the provider accepted, and
               \* those of them it was thought to have refused

workerVars == <<storeVars, worker, provider>>

Resting == [pc |-> "idle"]

WorkerInit ==
    /\ worker = [w \in Workers |-> Resting]
    /\ provider = [d \in Deliveries |-> [calls |-> 0, accepted |-> {}, misread |-> {}]]

Become(w, value) == worker' = [worker EXCEPT ![w] = value]

At(w, pc) == worker[w].pc = pc

(* processingTransitionMutation: the row is still this handler's claim. *)
HoldsClaim(w) ==
    LET row == delivery[worker[w].d]
        record == worker[w].record
    IN /\ row.state = "processing" /\ row.rev = record.rev
       /\ row.lease.owner = w /\ row.lease.epoch = record.lease.epoch

HoldsLease(w) ==
    LET row == delivery[worker[w].d] IN
    row.state = "processing" /\ row.lease.owner = w

(* The job is deleted; a failed delete, or a second copy, leaves one there. *)
Delete(d) == queue' \in {queue, queue \ {d}}

LastOutcome(d) == attempt[d][delivery[d].count].outcome
-----------------------------------------------------------------------------
(* Mutant: so is the job of a delivery another handler works on. *)
AcquireBusy(d) ==
    /\ d \in queue /\ delivery[d].state \in TerminalStates \cup {"processing"}
    /\ queue' = queue \ {d}
    /\ UNCHANGED <<status, outbox, delivery, attempt, gate, suppression, faults, worker, provider>>

(* Acquire: a finished delivery's job is deleted. *)
AcquireTerminal(d) ==
    /\ d \in queue /\ delivery[d].state \in TerminalStates
    /\ queue' = queue \ {d}
    /\ UNCHANGED <<status, outbox, delivery, attempt, gate, suppression, faults, worker, provider>>

(* repairPublication: the relay published the job and did not mark the row. *)
RepairPublication(d) ==
    /\ d \in queue /\ delivery[d].state = "pending" /\ ~delivery[d].relay.live
    /\ delivery' = [delivery EXCEPT ![d] =
         [Bumped(@) EXCEPT !.state = "queued", !.indexed = FALSE, !.relay = NoLease]]
    /\ UNCHANGED <<status, outbox, attempt, gate, suppression, queue, faults, worker, provider>>

(* Mutant: an attempt left started blocks its delivery. *)
ClaimableUnlessStarted(d) ==
    \/ delivery[d].state \in {"queued", "retryable_failed"}
    \/ /\ delivery[d].state = "processing" /\ ~delivery[d].lease.live
       /\ delivery[d].count > 0 => LastOutcome(d) \in {"retryable", "ambiguous"}

(* A delivery whose claim lapsed may be taken over unless its last attempt  *)
(* already ended for good.                                                  *)
Claimable(d) ==
    \/ delivery[d].state \in {"queued", "retryable_failed"}
    \/ /\ delivery[d].state = "processing" /\ ~delivery[d].lease.live
       /\ delivery[d].count > 0 => LastOutcome(d) \in {"started", "retryable", "ambiguous"}

(* What Refresh may have an answer to. *)
Uncertain(record) == record.possibly \/ record.exhausted \/ record.outcome = "delayed"

Claim(w, d) ==
    LET claimed == [Bumped(delivery[d]) EXCEPT
                      !.state = "processing",
                      !.lease = [owner |-> w, epoch |-> @.epoch + 1, live |-> TRUE]]
        started == /\ delivery[d].state = "processing" /\ delivery[d].count > 0
                   /\ LastOutcome(d) = "started"
    IN /\ At(w, "idle")
       /\ d \in queue /\ Claimable(d) /\ delivery[d].lease.epoch < MaxEpoch
       /\ delivery' = [delivery EXCEPT ![d] = claimed]
       /\ Become(w, [pc |-> CASE started -> "interrupted"
                              [] ~started /\ Uncertain(claimed) -> "claimed"
                              [] OTHER -> "ready",
                     d |-> d, record |-> claimed])
       /\ UNCHANGED <<status, outbox, attempt, gate, suppression, queue, faults, provider>>
-----------------------------------------------------------------------------
(* A completion to be written: by CompleteAttempt, CompletePreflightFailure *)
(* or Cancel.  merge, retry: allowDelayedFeedbackMerge, -RecoveryFenceRetry *)
Finish(w, by, record, completion) ==
    Become(w, [pc |-> "finish", d |-> worker[w].d, record |-> record, by |-> by,
               completion |-> completion, merge |-> by = "attempt", retry |-> by = "attempt"])

(* Mutant: one call too many. *)
LastCallExceeded(record) == record.count > MaxProviderCalls

LastCall(record) == record.count >= MaxProviderCalls

CompleteInterrupted(w) ==
    /\ At(w, "interrupted")
    /\ LET record == worker[w].record
       IN Finish(w, "attempt", record, PlanAmbiguous(Channel, LastCall(record)))
    /\ UNCHANGED <<storeVars, provider>>

(* Refresh: late feedback may have settled what an earlier call left open. *)
Refresh(w) ==
    LET d == worker[w].d IN
    /\ At(w, "claimed")
    /\ \/ /\ delivery[d].state \in TerminalStates
          /\ Delete(d)
          /\ Become(w, Resting)
       \/ /\ HoldsClaim(w)
          /\ Become(w, [worker[w] EXCEPT !.pc = "ready"])
          /\ UNCHANGED queue
       \/ /\ delivery[d].state \notin TerminalStates /\ ~HoldsClaim(w)
          /\ Become(w, Resting)
          /\ UNCHANGED queue
    /\ UNCHANGED <<status, outbox, delivery, attempt, gate, suppression, faults, provider>>

(* Mutant: delayed feedback does not stop the calls. *)
CallsOverWhenExhausted(record) == record.exhausted

(* No call may follow: the provider has the message, or may have it and the *)
(* calls are used up.                                                       *)
CallsOver(record) == record.exhausted \/ record.outcome = "delayed"

Unknown(row) ==
    [Bumped(row) EXCEPT !.state = "unknown", !.possibly = TRUE, !.exhausted = FALSE,
                        !.lease = Released(@)]

FinalizeUnknown(w) ==
    /\ At(w, "ready") /\ CallsOver(worker[w].record)
    /\ LET d == worker[w].d IN
       IF HoldsClaim(w)
       THEN /\ delivery' = [delivery EXCEPT ![d] = Unknown(@)]
            /\ Delete(d)
       ELSE UNCHANGED <<delivery, queue>>
    /\ Become(w, Resting)
    /\ UNCHANGED <<status, outbox, attempt, gate, suppression, faults, provider>>

CallLimit(w) ==
    LET record == worker[w].record IN
    /\ At(w, "ready") /\ ~CallsOver(record) /\ LastCall(record)
    /\ Finish(w, "preflight", record, PlanPermanent("none", record.possibly))
    /\ UNCHANGED <<storeVars, provider>>

Ready(w) ==
    At(w, "ready") /\ ~CallsOver(worker[w].record) /\ ~LastCall(worker[w].record)

(* Mutant: the fence is on the suppression only. *)
FenceOnSuppression(d) == [suppressed |-> Suppressed(d[2])]

(* Mutant: the event's status is not part of the fence. *)
FenceWithoutEvent(d) == [version |-> gate[d[2]].version, suppressed |-> Suppressed(d[2])]

(* GateFence: the versions and values a delivery's gates were read with. *)
Fence(d) ==
    [version |-> gate[d[2]].version, suppressed |-> Suppressed(d[2]),
     resolved |-> Channel = "telegram" /\ status = "resolved"]

(* The first gate check comes before the limiter, the second after it; the  *)
(* second one's fence goes into BeginAttempt.                               *)
GatesAllow(w) ==
    /\ Ready(w) \/ At(w, "limited")
    /\ Authorised(worker[w].d)
    /\ Become(w, IF At(w, "ready")
                 THEN [worker[w] EXCEPT !.pc = "limited"]
                 ELSE [pc |-> "fenced", d |-> worker[w].d, record |-> worker[w].record,
                       fence |-> Fence(worker[w].d)])
    /\ UNCHANGED <<storeVars, provider>>

GatesDeny(w) ==
    /\ Ready(w) \/ At(w, "limited")
    /\ ~Authorised(worker[w].d)
    /\ LET record == worker[w].record IN
       Finish(w, "cancel", record,
              Completion("none", "cancelled", record.possibly, record.exhausted))
    /\ UNCHANGED <<storeVars, provider>>

(* Sender.Preflight, between the two checks. *)
PreflightFails(w) ==
    LET record == worker[w].record IN
    /\ At(w, "limited")
    /\ Fault
    /\ \E plan \in {PlanPermanent("none", record.possibly), PlanFatal("none", record.possibly)} :
         Finish(w, "preflight", record, plan)
    /\ UNCHANGED <<status, outbox, delivery, attempt, gate, suppression, queue, provider>>

Deferred(row) == [Bumped(row) EXCEPT !.state = "retryable_failed", !.lease = Released(@)]

(* deferClaim: a lookup, renewal or limiter error gives the claim back. *)
DeferClaim(w) ==
    /\ At(w, "claimed") \/ Ready(w) \/ At(w, "limited") \/ At(w, "fenced")
    /\ Fault
    /\ delivery' = IF HoldsClaim(w)
                   THEN [delivery EXCEPT ![worker[w].d] = Deferred(@)]
                   ELSE delivery
    /\ Become(w, Resting)
    /\ UNCHANGED <<status, outbox, attempt, gate, suppression, queue, provider>>
-----------------------------------------------------------------------------
(* gateFenceConditions: what the second check read is still so.  An email   *)
(* condition asks nothing of the event's status.                            *)
FenceHolds(w) == Fence(worker[w].d) = worker[w].fence

(* Mutant: the claim need not be held any more. *)
BeginAttemptUnfenced(w) ==
    LET d == worker[w].d
        begun == [Bumped(delivery[d]) EXCEPT !.count = worker[w].record.count + 1]
    IN /\ At(w, "fenced") /\ FenceHolds(w)
       /\ delivery' = [delivery EXCEPT ![d] = begun]
       /\ attempt' = [attempt EXCEPT ![d] =
            Append(@, [outcome |-> "started", provider |-> "none", accepted |-> FALSE])]
       /\ Become(w, [pc |-> "begun", d |-> d, record |-> begun])
       /\ UNCHANGED <<status, outbox, gate, suppression, queue, faults, provider>>

BeginAttempt(w) ==
    LET d == worker[w].d
        begun == [Bumped(delivery[d]) EXCEPT !.count = @ + 1]
    IN /\ At(w, "fenced")
       /\ IF HoldsClaim(w) /\ delivery[d].lease.live /\ FenceHolds(w)
          THEN /\ delivery' = [delivery EXCEPT ![d] = begun]
               /\ attempt' = [attempt EXCEPT ![d] =
                    Append(@, [outcome |-> "started", provider |-> "none", accepted |-> FALSE])]
               /\ Become(w, [pc |-> "begun", d |-> d, record |-> begun])
          ELSE /\ Become(w, Resting)
               /\ UNCHANGED <<delivery, attempt>>
       /\ UNCHANGED <<status, outbox, gate, suppression, queue, faults, provider>>

(* The provider: an ambiguous call may or may not have been accepted; nor   *)
(* is a retryable one surely refused, since errors no rule classifies and   *)
(* answers without a message id are retryable too.                          *)
Accepts(result) ==
    CASE result = "accepted" -> {TRUE}
      [] result \in {"ambiguous", "retryable"} -> BOOLEAN
      [] OTHER -> {FALSE}

Send(w, result) ==
    LET d == worker[w].d
        record == worker[w].record
    IN /\ At(w, "begun")
       /\ \E accepted \in Accepts(result) :
            LET this == IF accepted THEN {record.count} ELSE {} IN
            provider' = [provider EXCEPT ![d] =
              [calls |-> @.calls + 1, accepted |-> @.accepted \cup this,
               misread |-> IF result = "retryable" THEN @.misread \cup this ELSE @.misread]]
       /\ Finish(w, "attempt", record,
                 PlanResult(result, Channel, record.possibly, LastCall(record)))
       /\ UNCHANGED storeVars
-----------------------------------------------------------------------------
(* The recovery row is read, then the transaction is written. *)
ReadDependency(w) ==
    /\ At(w, "finish")
    /\ Become(w, [dep |-> Dependency(worker[w].d, worker[w].completion.next),
                  pc |-> "commit", d |-> worker[w].d, record |-> worker[w].record,
                  by |-> worker[w].by, completion |-> worker[w].completion,
                  merge |-> worker[w].merge, retry |-> worker[w].retry])
    /\ UNCHANGED <<storeVars, provider>>

(* The attempt a handler completes is the last one of its record. *)
AttemptStarted(w) == attempt[worker[w].d][worker[w].record.count].outcome = "started"

CommitHolds(w) ==
    /\ HoldsClaim(w)
    /\ worker[w].by = "attempt" => AttemptStarted(w)
    /\ DependencyHolds(worker[w].d, worker[w].dep)

Completed(row, w) ==
    LET completion == worker[w].completion
        accepted == completion.outcome = "succeeded"
    IN [Bumped(row) EXCEPT
          !.state = completion.next,
          !.possibly = completion.possibly \/ worker[w].record.possibly,
          !.exhausted = completion.exhausted,
          !.lease = Released(@),
          !.outcome = IF accepted THEN "accepted" ELSE @,
          !.owner = IF accepted THEN row.count ELSE @]

(* The attempt's row once its handler knows how the call ended. *)
AttemptDone(a, completion) ==
    [a EXCEPT !.outcome = completion.outcome,
              !.provider = IF completion.outcome = "succeeded" THEN "accepted" ELSE @]

FinishAttempt(w) ==
    IF worker[w].by = "attempt"
    THEN attempt' = [attempt EXCEPT ![worker[w].d][worker[w].record.count] =
                       AttemptDone(@, worker[w].completion)]
    ELSE UNCHANGED attempt

(* A Telegram refusal of the chat also suppresses the destination, unless   *)
(* it changed since BeginAttempt; the completion is then written without.   *)
SuppressDestination(w) ==
    \/ UNCHANGED suppression
    \/ /\ Channel = "telegram" /\ worker[w].by = "attempt"
       /\ worker[w].completion.outcome = "permanent_failed"
       /\ worker[w].completion.next = "permanent_failed"
       /\ suppression' = [suppression EXCEPT ![worker[w].d[2]] = 1]

Commit(w) ==
    LET d == worker[w].d IN
    /\ At(w, "commit") /\ CommitHolds(w)
    /\ delivery' = Settled(d, Completed(delivery[d], w), worker[w].dep)
    /\ FinishAttempt(w)
    /\ SuppressDestination(w)
    /\ IF worker[w].completion.next \in TerminalStates THEN Delete(d) ELSE UNCHANGED queue
    /\ Become(w, Resting)
    /\ UNCHANGED <<status, outbox, gate, faults, provider>>

(* refreshDelayedFeedbackCompletion: feedback "delayed" for this very       *)
(* attempt moved the revision under a successful call.                      *)
Mergeable(w) ==
    LET row == delivery[worker[w].d]
        record == worker[w].record
    IN /\ worker[w].merge /\ worker[w].completion.outcome = "succeeded"
       /\ row.state = "processing" /\ row.rev > record.rev
       /\ row.lease.owner = w /\ row.lease.epoch = record.lease.epoch
       /\ row.count = record.count /\ row.outcome = "delayed" /\ row.owner = record.count

(* A fan-out created the recovery row behind the absence check. *)
FenceRetryable(w) ==
    worker[w].retry /\ worker[w].dep.op = "absent" /\ HoldsClaim(w)

Again(w, record, merge, retry) ==
    Become(w, [pc |-> "finish", d |-> worker[w].d, record |-> record, by |-> worker[w].by,
               completion |-> worker[w].completion, merge |-> merge, retry |-> retry])

(* The transaction was cancelled. *)
CommitConflict(w) ==
    LET d == worker[w].d
        ended == delivery[d].state \in TerminalStates
    IN /\ At(w, "commit") /\ ~CommitHolds(w)
       /\ \/ /\ Mergeable(w)
             /\ Again(w, delivery[d], FALSE, TRUE)
             /\ UNCHANGED <<attempt, queue>>
          \/ /\ FenceRetryable(w)
             /\ Again(w, worker[w].record, worker[w].merge, FALSE)
             /\ UNCHANGED <<attempt, queue>>
          \/ (* completeAttemptBesideTerminal: only the attempt is finished. *)
             /\ ended /\ worker[w].by # "cancel"
             /\ IF worker[w].by = "attempt" /\ AttemptStarted(w)
                THEN FinishAttempt(w) ELSE UNCHANGED attempt
             /\ Delete(d)
             /\ Become(w, Resting)
          \/ /\ ~Mergeable(w) /\ ~FenceRetryable(w) /\ (ended => worker[w].by = "cancel")
             /\ Become(w, Resting)
             /\ UNCHANGED <<attempt, queue>>
       /\ UNCHANGED <<status, outbox, delivery, gate, suppression, faults, provider>>
-----------------------------------------------------------------------------
WorkerCrash(w) ==
    /\ ~At(w, "idle")
    /\ Fault
    /\ Become(w, Resting)
    /\ UNCHANGED <<status, outbox, delivery, attempt, gate, suppression, queue, provider>>

(* The guard renews a claim up to BeginAttempt, which asks for a lease that *)
(* covers the call and the completion: only a stalled process outlives it.  *)
ExpireLease(d) ==
    /\ delivery[d].lease.live
    /\ IF \E w \in Workers : ~At(w, "idle") /\ worker[w].d = d /\ HoldsLease(w)
       THEN Fault ELSE UNCHANGED faults
    /\ delivery' = [delivery EXCEPT ![d].lease.live = FALSE]
    /\ UNCHANGED <<status, outbox, attempt, gate, suppression, queue, worker, provider>>

Step(w) ==
    \/ CompleteInterrupted(w) \/ Refresh(w) \/ FinalizeUnknown(w)
    \/ CallLimit(w) \/ GatesAllow(w) \/ GatesDeny(w) \/ BeginAttempt(w)
    \/ \E result \in Results : Send(w, result)
    \/ ReadDependency(w) \/ Commit(w) \/ CommitConflict(w)

WorkerNext ==
    \/ \E w \in Workers :
         \/ \E d \in Deliveries : Claim(w, d)
         \/ Step(w)
         \/ PreflightFails(w) \/ DeferClaim(w) \/ WorkerCrash(w)
    \/ \E d \in Deliveries : AcquireTerminal(d) \/ RepairPublication(d) \/ ExpireLease(d)
=============================================================================
