---------------------------- MODULE SesFeedback ----------------------------
(***************************************************************************)
(* The SES feedback consumer (ses-feedback-worker): Store.Reconcile of     *)
(* internal/notifications/feedback/dynamo.  An event about an attempt is   *)
(* read against the attempt, the delivery, the recovery row and the        *)
(* suppression, and applied in one transaction with its dedupe records.    *)
(*                                                                         *)
(* SES reports on every attempt it accepted: any of the events, in any     *)
(* order, any number of times, or never.                                   *)
(***************************************************************************)
EXTENDS NotificationWorker

CONSTANTS
    Consumers,   \* feedback handlers
    SesEvents,   \* the events SES may send
    MaxFeedback  \* bound: events applied

ASSUME FeedbackAssumption == SesEvents \subseteq Semantics /\ MaxFeedback \in Nat

VARIABLES
    feedback,    \* what each feedback handler has read
    deduped      \* semantic dedupe records: delivery, attempt (message), event type

FeedbackInit ==
    /\ feedback = [c \in Consumers |-> Resting]
    /\ deduped = {}

(* A message has one event of each type; reject is one type. *)
DedupeKey(event) == <<event.d, event.n, SemanticOutcome[event.semantic]>>
-----------------------------------------------------------------------------
(* reconcileDeliveryProviderMetadata *)
LatestAttempt(row, n) == row.count = n

SameOwner(row, n) == row.owner # 0 /\ row.owner = n

AcceptedByAnother(row, n) == row.accepted /\ row.owner # 0 /\ ~SameOwner(row, n)

(* The first acceptance of any attempt settles a delivery no event owns. *)
AcceptedWithoutOwner(row, semantic) ==
    /\ AcceptedEvidence(semantic) /\ CompletesAttempt(semantic)
    /\ row.owner = 0 /\ row.outcome = "none"

OwnsAggregate(row, n, semantic) ==
    SameOwner(row, n) \/ LatestAttempt(row, n) \/ AcceptedWithoutOwner(row, semantic)

NextState(row, n, semantic) ==
    ReconcileDeliveryState(row.state,
        IF PermanentFailure(semantic) /\ AcceptedByAnother(row, n)
        THEN "accepted" ELSE SemanticOutcome[semantic])

(* deliveryUpdate: an event of a newer attempt starts the outcome afresh. *)
Reconciled(row, n, semantic) ==
    LET next == NextState(row, n, semantic)
        before == IF row.owner # 0 /\ ~SameOwner(row, n) THEN "none" ELSE row.outcome
        moved == [Bumped(row) EXCEPT
                    !.state = next, !.owner = n,
                    !.outcome = ReconcileProviderOutcome(before, SemanticOutcome[semantic]),
                    !.accepted = @ \/ AcceptedEvidence(semantic)]
    IN IF next \in {"processing", "retryable_failed"} THEN moved
       ELSE [moved EXCEPT !.lease = Released(@), !.exhausted = FALSE]

(* Mutant: an unknown opening is taken for settled. *)
FeedbackDependencyInFlightOnly(event, row) ==
    LET next == NextState(row, event.n, event.semantic) IN
    IF /\ OwnsAggregate(row, event.n, event.semantic)
       /\ row.state \in NonterminalStates
    THEN Dependency(event.d, next)
    ELSE [op |-> "none", rev |-> 0]

(* recoveryDependencyOperation: only an opening not yet settled moves its recovery. *)
FeedbackDependency(event, row) ==
    LET next == NextState(row, event.n, event.semantic) IN
    IF /\ OwnsAggregate(row, event.n, event.semantic)
       /\ Unsettled(row.state)
    THEN Dependency(event.d, next)
    ELSE [op |-> "none", rev |-> 0]

AttemptReconciled(a, semantic) ==
    [outcome |-> NextAttemptOutcome(a.outcome, semantic),
     provider |-> ReconcileProviderOutcome(a.provider, SemanticOutcome[semantic]),
     accepted |-> a.accepted \/ AcceptedEvidence(semantic)]
-----------------------------------------------------------------------------
(* reconcileOnce up to its transaction.  A duplicate, or a delivery that    *)
(* feedback cannot reconcile, changes nothing.                              *)
ReadFeedback(c, d, n, semantic) ==
    LET event == [d |-> d, n |-> n, semantic |-> semantic]
        row == delivery[d]
    IN /\ feedback[c].pc = "idle"
       /\ Channel = "email" /\ n \in provider[d].accepted
       /\ DedupeKey(event) \notin deduped /\ Cardinality(deduped) < MaxFeedback
       /\ Reconcilable(row.state)
       /\ feedback' = [feedback EXCEPT ![c] =
            [pc |-> "reconcile", event |-> event, row |-> row, attempt |-> attempt[d][n],
             dep |-> FeedbackDependency(event, row), rank |-> suppression[d[2]]]]
       /\ UNCHANGED <<workerVars, deduped>>

(* suppressionPut asks for the rank that was read. *)
WritesSuppression(c) == SuppressionRank(feedback[c].event.semantic) > feedback[c].rank

(* Mutant: the suppression is written over what is there. *)
FeedbackHoldsUnfencedSuppression(c) ==
    LET read == feedback[c]
        d == read.event.d
    IN /\ DedupeKey(read.event) \notin deduped
       /\ attempt[d][read.event.n].outcome = read.attempt.outcome
       /\ attempt[d][read.event.n].provider = read.attempt.provider
       /\ delivery[d].state = read.row.state /\ delivery[d].rev = read.row.rev
       /\ DependencyHolds(d, read.dep)

FeedbackHolds(c) ==
    LET read == feedback[c]
        d == read.event.d
    IN /\ DedupeKey(read.event) \notin deduped
       /\ attempt[d][read.event.n].outcome = read.attempt.outcome
       /\ attempt[d][read.event.n].provider = read.attempt.provider
       /\ delivery[d].state = read.row.state /\ delivery[d].rev = read.row.rev
       /\ DependencyHolds(d, read.dep)
       /\ WritesSuppression(c) => suppression[d[2]] = read.rank

CommitFeedback(c) ==
    LET read == feedback[c]
        d == read.event.d
        n == read.event.n
        semantic == read.event.semantic
    IN /\ read.pc = "reconcile" /\ FeedbackHolds(c)
       /\ deduped' = deduped \cup {DedupeKey(read.event)}
       /\ attempt' = [attempt EXCEPT ![d][n] = AttemptReconciled(@, semantic)]
       /\ delivery' = IF OwnsAggregate(delivery[d], n, semantic)
                      THEN Settled(d, Reconciled(delivery[d], n, semantic), read.dep)
                      ELSE delivery
       /\ suppression' = IF WritesSuppression(c)
                         THEN [suppression EXCEPT ![d[2]] = SuppressionRank(semantic)]
                         ELSE suppression
       /\ feedback' = [feedback EXCEPT ![c] = Resting]
       /\ UNCHANGED <<status, outbox, gate, queue, faults, worker, provider>>

(* A cancelled transaction is retried from the reads, here or when the      *)
(* message comes back; so is one a crash cut short.                         *)
FeedbackConflict(c) ==
    /\ feedback[c].pc = "reconcile" /\ ~FeedbackHolds(c)
    /\ feedback' = [feedback EXCEPT ![c] = Resting]
    /\ UNCHANGED <<workerVars, deduped>>

FeedbackNext(c) ==
    \/ \E d \in Deliveries, n \in 1 .. MaxProviderCalls, semantic \in SesEvents :
         ReadFeedback(c, d, n, semantic)
    \/ CommitFeedback(c) \/ FeedbackConflict(c)
=============================================================================
