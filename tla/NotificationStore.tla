------------------------- MODULE NotificationStore -------------------------
(***************************************************************************)
(* The durable state the notification processes share, for one alert event *)
(* and one channel: the opening and the recovery outbox, the deliveries    *)
(* fanned out from them to each recipient, the attempts of each delivery,  *)
(* what authorises a recipient, the suppressions, and the jobs queue.      *)
(*                                                                         *)
(* DynamoDB reads are consistent; an update or a transaction is one step   *)
(* guarded by its condition expressions.  A lease's expiry time is a flag: *)
(* live until the clock passes it.  available_at and next_attempt_at only  *)
(* delay work, and are not kept: a step may be taken late in any case.     *)
(***************************************************************************)
EXTENDS NotificationModel, FiniteSets, Sequences

CONSTANTS
    NumRecipients,     \* members of the tenant, in the order of the MEMBER# query
    Channels,          \* the channels the rule may name: email, telegram
    MaxProviderCalls,  \* worker.MaxProviderCalls
    NoOwner,           \* absent lease owner
    ResolveWhen,       \* bound: opening outbox statuses in which the event may resolve
    MaxGateChanges,    \* bound: changes of a recipient's membership and preference
    MaxFaults          \* bound: crashes, overrun leases, transient errors

Kinds == {"opening", "recovery"}

Recipients == 1 .. NumRecipients

Deliveries == Kinds \X Recipients

ASSUME StoreAssumption ==
    /\ NumRecipients \in Nat /\ MaxProviderCalls \in Nat \ {0}
    /\ Channels \subseteq {"email", "telegram"}
    /\ ResolveWhen \subseteq {"pending", "expanded"}
    /\ MaxGateChanges \in Nat /\ MaxFaults \in Nat

VARIABLES
    status,       \* status of the alert event: open (or acknowledged), resolved
    outbox,       \* NOTIFICATION_OUTBOX# items of the event, by kind
    delivery,     \* DELIVERY# items
    attempt,      \* ATTEMPT# items of each delivery, in the order they began
    gate,         \* membership and preference of each recipient
    suppression,  \* rank of the suppression of each recipient's address, 0: none
    queue,        \* deliveries with a job in the SQS queue
    faults        \* faults so far

storeVars == <<status, outbox, delivery, attempt, gate, suppression, queue, faults>>
-----------------------------------------------------------------------------
NoLease == [owner |-> NoOwner, epoch |-> 0, live |-> FALSE]

(* cursor: the rows already fanned out.  A pending outbox is on the relay index. *)
Outbox(in, channel) ==
    [status |-> in, channel |-> channel, rev |-> 1, cursor |-> 0, lease |-> NoLease]

(* The two outboxes of an event, and their deliveries, name one channel. *)
Channel == outbox["opening"].channel

(* possibly: possibly_accepted; exhausted: ambiguous_exhausted; outcome,    *)
(* owner, accepted: provider_outcome, provider_attempt_id (the number of    *)
(* the attempt, 0: absent), provider_accepted; relay: the relay's lease.    *)
(* last_attempt_id names attempt number count.                              *)
Row(state) ==
    [state |-> state, rev |-> 1, count |-> 0, possibly |-> FALSE, exhausted |-> FALSE,
     outcome |-> "none", owner |-> 0, accepted |-> FALSE, indexed |-> state = "pending",
     lease |-> NoLease, relay |-> NoLease]

NoRow == Row("absent")

Recovery(d) == <<"recovery", d[2]>>

Opening(r) == <<"opening", r>>

(* A lease released by REMOVE owner, expires: the epoch stays. *)
Released(lease) == [lease EXCEPT !.owner = NoOwner, !.live = FALSE]

Suppressed(r) == suppression[r] > 0

(* An opening whose notification may still reach the recipient. *)
Unsettled(state) == state = "unknown" \/ state \in NonterminalStates

(* What a job's delivery needs to be sent, as CheckGates reads it. *)
Authorised(d) ==
    /\ gate[d[2]].member /\ gate[d[2]].preference /\ ~Suppressed(d[2])
    /\ Channel = "telegram" => (d[1] = "recovery" <=> status = "resolved")

(* Row after a conditional write of worker or feedback: the revision moves. *)
Bumped(row) == [row EXCEPT !.rev = @ + 1]
-----------------------------------------------------------------------------
(* worker/dynamo/recovery_dependency.go, feedback/dynamo/recovery_dependency *)
(* .go: what the transaction that moves an opening to next must do with the  *)
(* recovery row, from a read of that row: nothing, check that it is still    *)
(* absent, or release it if it still waits at the revision read.             *)
Settles(d, next) ==
    d[1] = "opening" /\ next \in {"succeeded", "permanent_failed", "cancelled"}

Dependency(d, next) ==
    LET recovery == delivery[Recovery(d)] IN
    CASE ~Settles(d, next) -> [op |-> "none", rev |-> 0]
      [] Settles(d, next) /\ recovery.state = "absent" -> [op |-> "absent", rev |-> 0]
      [] Settles(d, next) /\ recovery.state = "waiting_dependency" ->
           [op |-> "release", rev |-> recovery.rev]
      [] OTHER -> [op |-> "none", rev |-> 0]

DependencyHolds(d, dep) ==
    LET recovery == delivery[Recovery(d)] IN
    CASE dep.op = "none" -> TRUE
      [] dep.op = "absent" -> recovery.state = "absent"
      [] dep.op = "release" -> recovery.state = "waiting_dependency" /\ recovery.rev = dep.rev

(* Mutant: the recovery of a failed opening is released as well. *)
PromotedAlways(recovery, next) ==
    [Bumped(recovery) EXCEPT !.state = "pending", !.indexed = TRUE]

(* The recovery row once its opening has settled as next. *)
Promoted(recovery, next) ==
    IF next = "succeeded"
    THEN [Bumped(recovery) EXCEPT !.state = "pending", !.indexed = TRUE]
    ELSE [Bumped(recovery) EXCEPT !.state = "cancelled", !.indexed = FALSE]

(* The deliveries once d is row and its dependency dep is carried out. *)
Settled(d, row, dep) ==
    [x \in Deliveries |->
        CASE x = d -> row
          [] x = Recovery(d) /\ x # d /\ dep.op = "release" -> Promoted(delivery[x], row.state)
          [] OTHER -> delivery[x]]
-----------------------------------------------------------------------------
StoreInit ==
    /\ status = "open"
    /\ \E channel \in Channels :
         outbox = [k \in Kinds |-> Outbox(IF k = "opening" THEN "pending" ELSE "absent", channel)]
    /\ delivery = [d \in Deliveries |-> NoRow]
    /\ attempt = [d \in Deliveries |-> <<>>]
    /\ gate = [r \in Recipients |-> [member |-> TRUE, preference |-> TRUE, version |-> 1]]
    /\ suppression = [r \in Recipients |-> 0]
    /\ queue = {}
    /\ faults = 0

(* The evaluator resolves the event, with a recovery outbox in the same      *)
(* transaction; an operator, or an edit of the rule, without one.            *)
ResolveEvent(outboxes) ==
    /\ status = "open" /\ outbox["opening"].status \in ResolveWhen
    /\ status' = "resolved"
    /\ outbox' = outboxes
    /\ UNCHANGED <<delivery, attempt, gate, suppression, queue, faults>>

Recover == ResolveEvent([outbox EXCEPT !["recovery"] = Outbox("pending", Channel)])

ResolveManually == ResolveEvent(outbox)

(* A membership or a notification preference changes. *)
ChangeGate(r, member, preference) ==
    /\ gate[r].version <= MaxGateChanges
    /\ <<member, preference>> # <<gate[r].member, gate[r].preference>>
    /\ gate' = [gate EXCEPT ![r] =
         [member |-> member, preference |-> preference, version |-> @.version + 1]]
    /\ UNCHANGED <<status, outbox, delivery, attempt, suppression, queue, faults>>

Fault == faults < MaxFaults /\ faults' = faults + 1
=============================================================================
