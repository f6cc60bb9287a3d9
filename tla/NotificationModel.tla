------------------------- MODULE NotificationModel -------------------------
(***************************************************************************)
(* The durable notification domain (internal/notifications/model.go,       *)
(* durable_model.go) and the pure decisions taken on it: what a provider   *)
(* call or SES event means for an attempt and for its delivery.            *)
(***************************************************************************)
EXTENDS Integers

(* model.go: DeliveryState.  "absent" stands for a missing row. *)
TerminalStates == {"succeeded", "permanent_failed", "cancelled", "unknown"}

NonterminalStates == {"pending", "queued", "processing", "retryable_failed"}

DeliveryStates == TerminalStates \cup NonterminalStates \cup {"waiting_dependency"}

AttemptOutcomes == {"started", "succeeded", "retryable", "ambiguous", "permanent_failed"}

(* model.go: providerOutcomeRank; "none" is the outcome not yet known. *)
OutcomeRank ==
    [none |-> 0, accepted |-> 1, delayed |-> 2, soft_bounced |-> 3, delivered |-> 4,
     rejected |-> 5, hard_bounced |-> 6, complained |-> 7]

ProviderOutcomes == DOMAIN OutcomeRank

(* durable_model.go: deliveryTransitions; staying in a state is allowed. *)
DeliveryTransitions ==
    [waiting_dependency |-> {"pending", "cancelled"},
     pending |-> {"queued", "cancelled"},
     queued |-> {"processing", "cancelled"},
     processing |-> {"retryable_failed", "succeeded", "permanent_failed", "cancelled", "unknown"},
     retryable_failed |-> {"processing", "cancelled"}]

CanTransition(from, to) ==
    from = to \/ (from \in DOMAIN DeliveryTransitions /\ to \in DeliveryTransitions[from])

ReconcileProviderOutcome(current, incoming) ==
    IF OutcomeRank[incoming] > OutcomeRank[current] THEN incoming ELSE current

(* A state that provider feedback can say something about. *)
Reconcilable(state) == state \in TerminalStates \cup {"processing", "retryable_failed"}

(* Mutant: late feedback revives a cancelled delivery. *)
ReconcileResurrectingCancelled(current, incoming) ==
    CASE current = "permanent_failed" -> current
      [] incoming = "rejected" -> "permanent_failed"
      [] incoming = "delayed" -> current
      [] OTHER -> "succeeded"

ReconcileDeliveryState(current, incoming) ==
    IF current \in {"cancelled", "permanent_failed"} THEN current
    ELSE CASE incoming = "rejected" -> "permanent_failed"
           [] incoming = "delayed" -> current
           [] OTHER -> "succeeded"

-----------------------------------------------------------------------------
(* feedback/event.go: what each SES event says. *)
Semantics ==
    {"send", "delivery", "delivery_delay", "reject", "reject_recipient", "soft_bounce",
     "hard_bounce", "complaint"}

SemanticOutcome ==
    [send |-> "accepted", delivery |-> "delivered", delivery_delay |-> "delayed",
     reject |-> "rejected", reject_recipient |-> "rejected", soft_bounce |-> "soft_bounced",
     hard_bounce |-> "hard_bounced", complaint |-> "complained"]

PermanentFailure(semantic) == SemanticOutcome[semantic] = "rejected"

AcceptedEvidence(semantic) == ~PermanentFailure(semantic)

CompletesAttempt(semantic) == semantic # "delivery_delay"

(* The rank of the suppression an event asks for, 0 when it asks for none. *)
SuppressionRank(semantic) ==
    CASE semantic = "reject_recipient" -> 1
      [] semantic = "hard_bounce" -> 2
      [] semantic = "complaint" -> 3
      [] OTHER -> 0

NextAttemptOutcome(current, semantic) ==
    IF current \in {"succeeded", "permanent_failed"} THEN current
    ELSE CASE PermanentFailure(semantic) -> "permanent_failed"
           [] AcceptedEvidence(semantic) /\ CompletesAttempt(semantic) -> "succeeded"
           [] OTHER -> current
-----------------------------------------------------------------------------
(* worker/processor.go, failure_policy.go: the completion a provider result *)
(* asks for.  next is the delivery's state, outcome the attempt's.          *)
Completion(outcome, next, possibly, exhausted) ==
    [outcome |-> outcome, next |-> next, possibly |-> possibly, exhausted |-> exhausted]

(* Mutant: an earlier ambiguous call is forgotten. *)
PlanPermanentAlways(outcome, possibly) ==
    Completion(outcome, "permanent_failed", possibly, FALSE)

(* A permanent failure of a call that cannot undo an earlier ambiguous one. *)
PlanPermanent(outcome, possibly) ==
    IF possibly THEN Completion(outcome, "retryable_failed", TRUE, TRUE)
                ELSE Completion(outcome, "permanent_failed", FALSE, FALSE)

(* A configuration failure: kept for an operator, the process stops. *)
PlanFatal(outcome, possibly) == Completion(outcome, "retryable_failed", possibly, FALSE)

PlanRetryable(possibly, lastCall) ==
    CASE ~lastCall -> Completion("retryable", "retryable_failed", possibly, FALSE)
      [] lastCall /\ possibly -> Completion("retryable", "retryable_failed", TRUE, TRUE)
      [] lastCall /\ ~possibly -> Completion("retryable", "permanent_failed", FALSE, FALSE)

(* A timeout or reset, or an attempt its worker never completed: email is   *)
(* retried after a grace, Telegram (NoAutomaticRetry) never is.             *)
PlanAmbiguous(channel, lastCall) ==
    IF channel = "telegram" THEN Completion("ambiguous", "unknown", TRUE, TRUE)
                            ELSE Completion("ambiguous", "retryable_failed", TRUE, lastCall)

SendResults == {"accepted", "retryable", "ambiguous", "permanent", "fatal"}

PlanResult(result, channel, possibly, lastCall) ==
    CASE result = "accepted" -> Completion("succeeded", "succeeded", possibly, FALSE)
      [] result = "permanent" -> PlanPermanent("permanent_failed", possibly)
      [] result = "fatal" -> PlanFatal("retryable", possibly)
      [] result = "retryable" -> PlanRetryable(possibly, lastCall)
      [] result = "ambiguous" -> PlanAmbiguous(channel, lastCall)
=============================================================================
