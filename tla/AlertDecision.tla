--------------------------- MODULE AlertDecision ---------------------------
(***************************************************************************)
(* The decision an alert-evaluator run takes for one rule and one slot     *)
(* (internal/alertevaluator/state_machine.go), as pure operators.          *)
(*                                                                         *)
(* A slot is the index of a complete evaluation window, one per cadence    *)
(* (EvaluationCadence, 60 s), so "slot + cadence" is slot + 1 here; slot 0 *)
(* is Go's zero time.  Durations stay in seconds; a cooldown is only ever  *)
(* compared with slots, so it is in slots, rounded up.  What a window query *)
(* returned is one of Results: the quality, the aggregate and the          *)
(* threshold comparison only ever act on the machine through it.           *)
(***************************************************************************)
EXTENDS Integers, FiniteSets

CONSTANTS
    Rules,      \* rule ids of one tenant
    Channels,   \* notification channels (email, telegram)
    Cadence,    \* EvaluationCadence, in the unit of a rule's duration
    NoEvent     \* the empty event id

ASSUME CadenceAssumption == Cadence \in Nat \ {0}

Results == {"breach", "clean", "indeterminate"}
Modes == {"healthy", "pending", "active"}
ActiveStatuses == {"open", "acknowledged", "suppressed"}
Statuses == ActiveStatuses \cup {"resolved"}
Kinds == {"opening", "recovery"}

(* EventID hashes exactly these inputs, so the record stands for the hash. *)
EventIds == [rule : Rules, version : Nat, revision : Nat, slot : Nat]

ASSUME NoEventAssumption == NoEvent \notin EventIds

EventID(r, rule, slot) ==
    [rule |-> r, version |-> rule.version, revision |-> rule.revision, slot |-> slot]

(* OutboxID(event, channel, kind), the identity of one notification intent. *)
OutboxIds == [event : EventIds, channel : Channels, kind : Kinds]

OutboxID(event, channel, kind) == [event |-> event, channel |-> channel, kind |-> kind]

(***************************************************************************)
(* The evaluator state.  rev is the item's state_revision; 0 means that    *)
(* the item does not exist, and then the state is Go's zero State with     *)
(* Mode normalised to healthy.                                             *)
(***************************************************************************)
States ==
    [rev : Nat, mode : Modes, confirmed : Nat, pendingSince : Nat,
     lastBreach : Nat, lastSlot : Nat, active : EventIds \cup {NoEvent},
     activeStatus : {"none", "open", "suppressed"}, opening : SUBSET Channels,
     cooldownUntil : Nat, lastNotified : EventIds \cup {NoEvent},
     source : EventIds \cup {NoEvent}]

ZeroState ==
    [rev |-> 0, mode |-> "healthy", confirmed |-> 0, pendingSince |-> 0,
     lastBreach |-> 0, lastSlot |-> 0, active |-> NoEvent,
     activeStatus |-> "none", opening |-> {}, cooldownUntil |-> 0,
     lastNotified |-> NoEvent, source |-> NoEvent]

(* Mutant: an incomplete last cadence is not waited for. *)
RequiredSlotsRoundedDown(duration) ==
    IF duration <= Cadence THEN 1 ELSE duration \div Cadence

RequiredSlots(duration) ==
    IF duration <= Cadence THEN 1 ELSE (duration + Cadence - 1) \div Cadence

MissedSlots(nextDue, slot) ==
    IF nextDue = 0 \/ slot <= nextDue THEN 0 ELSE slot - nextDue

ResetPending(s) ==
    [s EXCEPT !.mode = "healthy", !.confirmed = 0, !.pendingSince = 0, !.lastBreach = 0]

(* The part of Decide that every evaluation goes through. *)
Observed(s, ev) ==
    LET seen == [s EXCEPT !.lastSlot = ev.slot]
    IN  IF ev.missed > 0 /\ s.mode = "pending" THEN ResetPending(seen) ELSE seen

Consecutive(s, ev) ==
    /\ s.mode = "pending"
    /\ ev.missed = 0
    /\ s.lastBreach # 0
    /\ s.lastBreach + 1 = ev.slot

(* One more breaching slot: it extends the streak or starts a new one. *)
Confirm(s, ev) ==
    [s EXCEPT !.mode = "pending",
              !.confirmed = IF Consecutive(s, ev) THEN @ + 1 ELSE 1,
              !.pendingSince = IF Consecutive(s, ev) THEN @ ELSE ev.slot,
              !.lastBreach = ev.slot]

Decision(next, transition, event, outboxes) ==
    [next |-> next, transition |-> transition, event |-> event, outboxes |-> outboxes]

Quiet(s) == Decision(s, "none", s.active, {})

Opened(s, event) ==
    [s EXCEPT !.mode = "active", !.active = event, !.confirmed = 0,
              !.pendingSince = 0, !.opening = {}]

(* Mutant: an incident at the very end of the cooldown is suppressed too. *)
OpenIncidentLateCooldown(r, rule, s, ev) ==
    LET event == EventID(r, rule, ev.slot)
    IN  IF s.cooldownUntil >= ev.slot
        THEN Decision([Opened(s, event) EXCEPT !.activeStatus = "suppressed",
                                               !.source = s.lastNotified],
                      "suppressed", event, {})
        ELSE Decision([Opened(s, event) EXCEPT !.activeStatus = "open",
                                               !.cooldownUntil = ev.slot + rule.cooldown,
                                               !.lastNotified = event,
                                               !.opening = rule.channels],
                      "opened", event,
                      {OutboxID(event, ch, "opening") : ch \in rule.channels})

(* Mutant: a suppressed incident still queues its opening notifications. *)
OpenIncidentNotifySuppressed(r, rule, s, ev) ==
    LET event == EventID(r, rule, ev.slot)
        suppress == s.cooldownUntil > ev.slot
    IN  Decision([Opened(s, event) EXCEPT
                    !.activeStatus = IF suppress THEN "suppressed" ELSE "open",
                    !.source = IF suppress THEN s.lastNotified ELSE NoEvent,
                    !.cooldownUntil = IF suppress THEN @ ELSE ev.slot + rule.cooldown,
                    !.lastNotified = IF suppress THEN @ ELSE event,
                    !.opening = rule.channels],
                 IF suppress THEN "suppressed" ELSE "opened", event,
                 {OutboxID(event, ch, "opening") : ch \in rule.channels})

OpenIncident(r, rule, s, ev) ==
    LET event == EventID(r, rule, ev.slot)
    IN  IF s.cooldownUntil > ev.slot
        THEN Decision([Opened(s, event) EXCEPT !.activeStatus = "suppressed",
                                               !.source = s.lastNotified],
                      "suppressed", event, {})
        ELSE Decision([Opened(s, event) EXCEPT !.activeStatus = "open",
                                               !.source = NoEvent,
                                               !.cooldownUntil = ev.slot + rule.cooldown,
                                               !.lastNotified = event,
                                               !.opening = rule.channels],
                      "opened", event,
                      {OutboxID(event, ch, "opening") : ch \in rule.channels})

(* The fields an incident occupies, cleared when it ends. *)
Cleared(s) ==
    [s EXCEPT !.mode = "healthy", !.active = NoEvent, !.activeStatus = "none",
              !.opening = {}, !.source = NoEvent, !.lastBreach = 0]

RecoverIncident(s) ==
    Decision(Cleared(s), "recovered", s.active,
             IF s.activeStatus = "suppressed" THEN {}
             ELSE {OutboxID(s.active, ch, "recovery") : ch \in s.opening})

Decide(r, rule, current, ev) ==
    LET s == Observed(current, ev)
        c == Confirm(s, ev)
    IN  CASE ev.result = "indeterminate"                  -> Quiet(s)
          [] ev.result = "breach" /\ s.mode = "active"    -> Quiet(s)
          [] ev.result = "clean"  /\ s.mode = "active"    -> RecoverIncident(s)
          [] ev.result = "clean"  /\ s.mode # "active"    -> Quiet(ResetPending(s))
          [] ev.result = "breach" /\ s.mode # "active" ->
                IF c.confirmed < RequiredSlots(rule.duration)
                THEN Quiet(c) ELSE OpenIncident(r, rule, c, ev)

(* resolved_evaluator_state: what the API writes when it ends an incident. *)
ResolvedState(s) == [Cleared(s) EXCEPT !.confirmed = 0, !.pendingSince = 0]
=============================================================================
