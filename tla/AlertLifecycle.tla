--------------------------- MODULE AlertLifecycle ---------------------------
(***************************************************************************)
(* Alert rules, evaluator state, alert events and notification outboxes of *)
(* one tenant in the DynamoDB domain table, and everyone who writes them:  *)
(*                                                                         *)
(*   - workers of alert-evaluator runs (internal/alertevaluator/runner.go, *)
(*     dynamo/store.go), which claim a due rule under a lease, read its    *)
(*     state, query the window and commit one transaction;                 *)
(*   - requests of the HTTP API (adapters/alert_rules.py,                  *)
(*     adapters/alert_events.py), which read, decide and transact;         *)
(*   - the two limnopulse-admin backfills (dynamo/backfill.go).            *)
(*                                                                         *)
(* Nothing is locked between a read and the write that follows it; a       *)
(* transaction is one step whose guard is its condition expressions.  A    *)
(* failed condition, an error, a timeout and a crash all end the worker or *)
(* the request without a write.                                            *)
(***************************************************************************)
EXTENDS AlertDecision

CONSTANTS
    Workers,        \* evaluation goroutines, of any number of runs
    Owners,         \* run ids
    Clients,        \* API requests in flight
    Keys,           \* idempotency keys of replace requests
    Definitions,    \* rule definitions an API client may submit
    Patches,        \* bodies of PATCH requests: the fields present, with values
    StaleRuleReads, \* TRUE: _get_rule may return an older item (ConsistentRead=False)
    NoOwner,        \* absent lease_owner
    NoRule,         \* absent rule id
    MaxTime,        \* bound: last slot that completes
    MaxVersion,     \* bound: rule version
    BackfillTimes,  \* latest complete slots at the times backfill-schedule is given
    MaxEpoch,       \* bound: lease_epoch
    MaxFaults       \* bound: crashes, overrun leases, duplicate claims, operator backfills

DefinitionRecords ==
    [enabled : BOOLEAN, duration : Nat, cooldown : Nat, channels : SUBSET Channels]

PatchFields == {"enabled", "duration", "cooldown", "channels"}

ASSUME ParameterAssumption ==
    /\ Definitions \subseteq DefinitionRecords
    /\ \A p \in Patches :
         /\ DOMAIN p \subseteq PatchFields
         /\ "enabled" \in DOMAIN p => p["enabled"] \in BOOLEAN
         /\ "duration" \in DOMAIN p => p["duration"] \in Nat
         /\ "cooldown" \in DOMAIN p => p["cooldown"] \in Nat
         /\ "channels" \in DOMAIN p => p["channels"] \subseteq Channels
    /\ StaleRuleReads \in BOOLEAN
    /\ NoOwner \notin Owners /\ NoRule \notin Rules
    /\ MaxTime \in Nat /\ MaxVersion \in Nat /\ MaxEpoch \in Nat /\ MaxFaults \in Nat
    /\ BackfillTimes \subseteq Nat

VARIABLES
    now,       \* the latest complete slot (LatestCompleteSlot of the wall clock)
    rule,      \* ALERT_RULE# items
    views,     \* rule items a non-consistent read may still return
    state,     \* ALERT_STATE# items
    events,    \* ALERT_EVENT# items, by event id
    outboxes,  \* NOTIFICATION_OUTBOX# items
    replays,   \* IDEMPOTENCY#ALERT_RULE_REPLACE# items, by key
    worker,    \* evaluation goroutines
    client,    \* API requests between their reads and their transaction
    breaches,  \* history: <<rule, slot, generation>> of every committed breach
    faults     \* history: disturbances so far, of MaxFaults

vars == <<now, rule, views, state, events, outboxes, replays, worker, client, breaches, faults>>

(***************************************************************************)
(* Items.  nextDue 0 and owner NoOwner are absent attributes.  live says   *)
(* that lease_expires_at has not passed on the clock of whoever compares   *)
(* it.  gen is a history field: the number of changes of what a rule means *)
(* (its enabled flag or its condition).                                    *)
(***************************************************************************)
RuleItems ==
    [status : {"absent", "active", "replaced"}, version : Nat, revision : Nat,
     enabled : BOOLEAN, duration : Nat, cooldown : Nat, channels : SUBSET Channels,
     nextDue : Nat, owner : Owners \cup {NoOwner}, live : BOOLEAN, epoch : Nat,
     replaces : Rules \cup {NoRule}, replacedBy : Rules \cup {NoRule}, gen : Nat]

(* What update_rule and replace_rule use of the rule they read. *)
Views == [revision : Nat, enabled : BOOLEAN, duration : Nat]

ViewOf(item) == [revision |-> item.revision, enabled |-> item.enabled, duration |-> item.duration]

(* reason, cooldownUntil, duration, gen and channels are history: how the  *)
(* event ended and the rule that opened it.                                *)
Events ==
    [status : Statuses, version : Nat, indexed : BOOLEAN, source : EventIds \cup {NoEvent},
     reason : {"none", "recovered", "manual", "administrative"},
     cooldownUntil : Nat, duration : Nat, gen : Nat, channels : SUBSET Channels]

Idle == [pc |-> "idle"]

(* The next slot of the 60 s - 15 s lattice is one or two after the latest *)
(* complete one, by the phase of the clock within its minute.              *)
NextCompleteSlot(latest) == {latest + 1, latest + 2}

With(f, x, v) == [y \in DOMAIN f \cup {x} |-> IF y = x THEN v ELSE f[y]]

AbsentRule ==
    [status |-> "absent", version |-> 0, revision |-> 0, enabled |-> FALSE,
     duration |-> 0, cooldown |-> 0, channels |-> {}, nextDue |-> 0,
     owner |-> NoOwner, live |-> FALSE, epoch |-> 0,
     replaces |-> NoRule, replacedBy |-> NoRule, gen |-> 0]

(* _rule_to_item: a new rule is scheduled if it is enabled. *)
NewRule(def, due) ==
    [AbsentRule EXCEPT !.status = "active", !.version = 1, !.revision = 1,
                       !.enabled = def.enabled, !.duration = def.duration,
                       !.cooldown = def.cooldown, !.channels = def.channels,
                       !.nextDue = IF def.enabled THEN due ELSE 0]

Remember(r, item) ==
    views' = IF StaleRuleReads THEN [views EXCEPT ![r] = @ \cup {ViewOf(item)}] ELSE views

(***************************************************************************)
(* Init: rules created before the evaluation index and the active-alert    *)
(* index existed (no schedule, an open incident that is not indexed) or    *)
(* after, and rule ids not used yet.                                       *)
(***************************************************************************)
LegacySlot == 1

LegacyEvent(r) == [rule |-> r, version |-> 1, revision |-> 1, slot |-> LegacySlot]

LegacyState(r, item) ==
    [ZeroState EXCEPT !.rev = 1, !.mode = "active", !.lastBreach = 1, !.lastSlot = 1,
                      !.active = LegacyEvent(r), !.activeStatus = "open",
                      !.opening = item.channels, !.cooldownUntil = 1 + item.cooldown,
                      !.lastNotified = LegacyEvent(r)]

(* The event a rule opens, with the history fields of its opening. *)
EventItem(item, status, indexed, source, slot) ==
    [status |-> status, version |-> 1, indexed |-> indexed, source |-> source,
     reason |-> "none", cooldownUntil |-> slot + item.cooldown,
     duration |-> item.duration, gen |-> item.gen, channels |-> item.channels]

Tenant(used, open, def, item) ==
    /\ now = 1
    /\ rule = [r \in Rules |-> IF r \in used THEN item ELSE AbsentRule]
    /\ views = [r \in Rules |-> {}]
    /\ state = [r \in Rules |-> IF r \in open THEN LegacyState(r, item) ELSE ZeroState]
    /\ events = [e \in {LegacyEvent(r) : r \in open} |->
                   EventItem(item, "open", FALSE, NoEvent, LegacySlot)]
    /\ outboxes = {OutboxID(LegacyEvent(r), ch, "opening") : r \in open, ch \in def.channels}
    /\ replays = [k \in Keys |-> [live |-> FALSE, rule |-> NoRule, by |-> NoRule]]
    /\ worker = [w \in Workers |-> Idle]
    /\ client = [c \in Clients |-> Idle]
    /\ breaches = {<<r, LegacySlot - k, 0>> : r \in open, k \in 0..RequiredSlots(def.duration)}
    /\ faults = 0

Init ==
    \E used \in SUBSET Rules, incident \in BOOLEAN, def \in Definitions, due \in {0, 2} :
      Tenant(used, IF incident /\ def.enabled THEN used ELSE {}, def, NewRule(def, due))

Disturb == faults < MaxFaults /\ faults' = faults + 1

(* The next evaluation window completes. *)
Tick ==
    /\ now < MaxTime
    /\ now' = now + 1
    /\ UNCHANGED <<rule, views, state, events, outboxes, replays, worker, client, breaches, faults>>

-----------------------------------------------------------------------------
(***************************************************************************)
(* Evaluator workers.  A run takes its slot from its start or from         *)
(* --evaluation-time, so any complete slot may be evaluated; which rules   *)
(* discovery hands to it comes from an eventually consistent index, so     *)
(* what counts is the claim.                                               *)
(***************************************************************************)
Works ==
    [version : Nat, revision : Nat, duration : Nat, cooldown : Nat,
     channels : SUBSET Channels, nextDue : Nat, owner : Owners, epoch : Nat]

WorkOf(item, o) ==
    [version |-> item.version, revision |-> item.revision, duration |-> item.duration,
     cooldown |-> item.cooldown, channels |-> item.channels, nextDue |-> item.nextDue,
     owner |-> o, epoch |-> item.epoch + 1]

Active(item) == item.enabled /\ item.status = "active"

(* Mutant: a lease left behind by a crashed run is never taken over. *)
LeaseAbsent(item, o) == item.owner = NoOwner

LeaseFree(item, o) == item.owner = NoOwner \/ ~item.live \/ item.owner = o

(* Claim: take the lease of a due rule if it is free, expired or one's own. *)
Claim(w, o, r, slot) ==
    /\ worker[w].pc = "idle"
    /\ Active(rule[r])
    /\ rule[r].nextDue # 0 /\ rule[r].nextDue <= slot
    /\ LeaseFree(rule[r], o)
    /\ rule[r].epoch < MaxEpoch
    /\ IF rule[r].owner = o /\ rule[r].live THEN Disturb ELSE UNCHANGED faults
    /\ rule' = [rule EXCEPT ![r].owner = o, ![r].live = TRUE, ![r].epoch = @ + 1]
    /\ worker' = [worker EXCEPT ![w] = [pc |-> "claimed", rule |-> r, slot |-> slot,
                                        work |-> WorkOf(rule[r], o)]]
    /\ UNCHANGED <<now, views, state, events, outboxes, replays, client, breaches>>

(* LoadState: a consistent read of the state item. *)
LoadState(w) ==
    /\ worker[w].pc = "claimed"
    /\ worker' = [worker EXCEPT ![w] =
                    [pc |-> "loaded", rule |-> @.rule, slot |-> @.slot, work |-> @.work,
                     snap |-> state[@.rule]]]
    /\ UNCHANGED <<now, rule, views, state, events, outboxes, replays, client, breaches, faults>>

(* ruleScheduleUpdate's condition: version, revision and lease are still ours. *)
Fenced(item, work) ==
    /\ item.version = work.version
    /\ item.revision = work.revision
    /\ item.owner = work.owner
    /\ item.epoch = work.epoch
    /\ Active(item)

Evaluated(wk, result) ==
    Decide(wk.rule, wk.work, wk.snap,
           [slot |-> wk.slot, result |-> result,
            missed |-> MissedSlots(wk.work.nextDue, wk.slot)])

(* The conditions of the remaining items of the commit transaction. *)
Writable(r, snap, d) ==
    /\ state[r].rev = snap.rev
    /\ d.transition \in {"opened", "suppressed"} => d.event \notin DOMAIN events
    /\ d.transition = "recovered" \/ (d.transition = "none" /\ d.next.mode = "active")
         => d.event \in DOMAIN events /\ events[d.event].status \in ActiveStatuses
    /\ d.outboxes \cap outboxes = {}

(* Mutant: a resolved event keeps its GSI3 keys. *)
ResolutionKeepsIndex(event, reason) ==
    [event EXCEPT !.status = "resolved", !.version = @ + 1, !.reason = reason]

Resolution(event, reason) ==
    [event EXCEPT !.status = "resolved", !.version = @ + 1, !.indexed = FALSE, !.reason = reason]

CommittedEvents(r, wk, d) ==
    CASE d.transition \in {"opened", "suppressed"} ->
           With(events, d.event,
                EventItem(rule[r], d.next.activeStatus, d.transition = "opened",
                          d.next.source, wk.slot))
      [] d.transition = "recovered" ->
           [events EXCEPT ![d.event] = Resolution(@, "recovered")]
      [] d.transition = "none" -> events

(* Commit: one transaction writes schedule, state, event and outboxes. *)
Commit(w, result) ==
    /\ worker[w].pc = "loaded"
    /\ LET wk == worker[w]
           r == wk.rule
           d == Evaluated(wk, result)
       IN  /\ Fenced(rule[r], wk.work)
           /\ Writable(r, wk.snap, d)
           /\ rule' = [rule EXCEPT ![r].nextDue = wk.slot + 1, ![r].owner = NoOwner,
                                   ![r].live = FALSE]
           /\ state' = [state EXCEPT ![r] = [d.next EXCEPT !.rev = wk.snap.rev + 1]]
           /\ events' = CommittedEvents(r, wk, d)
           /\ outboxes' = outboxes \cup d.outboxes
           /\ breaches' = IF result = "breach"
                          THEN breaches \cup {<<r, wk.slot, rule[r].gen>>} ELSE breaches
    /\ worker' = [worker EXCEPT ![w] = Idle]
    /\ UNCHANGED <<now, views, replays, client, faults>>

(* Commit lost a condition: processCandidate returns, nothing is written. *)
LoseFence(w, result) ==
    /\ worker[w].pc = "loaded"
    /\ ~ /\ Fenced(rule[worker[w].rule], worker[w].work)
         /\ Writable(worker[w].rule, worker[w].snap, Evaluated(worker[w], result))
    /\ worker' = [worker EXCEPT ![w] = Idle]
    /\ UNCHANGED <<now, rule, views, state, events, outboxes, replays, client, breaches, faults>>

(* An I/O error, the deadline or a crash: the lease stays behind. *)
Crash(w) ==
    /\ worker[w].pc # "idle"
    /\ Disturb
    /\ worker' = [worker EXCEPT ![w] = Idle]
    /\ UNCHANGED <<now, rule, views, state, events, outboxes, replays, client, breaches>>

Held(r) ==
    \E w \in Workers : /\ worker[w].pc # "idle"
                       /\ worker[w].rule = r
                       /\ worker[w].work.owner = rule[r].owner
                       /\ worker[w].work.epoch = rule[r].epoch

(* lease_expires_at passes.  LeaseTTL exceeds PerRuleTimeout, so it counts *)
(* as a disturbance while the worker that took the lease is still busy.    *)
ExpireLease(r) ==
    /\ rule[r].owner # NoOwner /\ rule[r].live
    /\ IF Held(r) THEN Disturb ELSE UNCHANGED faults
    /\ rule' = [rule EXCEPT ![r].live = FALSE]
    /\ UNCHANGED <<now, views, state, events, outboxes, replays, worker, client, breaches>>

-----------------------------------------------------------------------------
(* limnopulse-admin backfill-schedule: updateSchedule, for any evaluation time. *)
BackfillSchedule(r, at) ==
    /\ Active(rule[r])
    /\ Disturb
    /\ \E due \in NextCompleteSlot(at) : rule' = [rule EXCEPT ![r].nextDue = due]
    /\ UNCHANGED <<now, views, state, events, outboxes, replays, worker, client, breaches>>

(* limnopulse-admin backfill-active-index: updateActiveAlertIndex. *)
BackfillActiveAlertIndex(e) ==
    /\ events[e].status \in {"open", "acknowledged"}
    /\ ~events[e].indexed
    /\ events' = [events EXCEPT ![e].indexed = TRUE]
    /\ UNCHANGED <<now, rule, views, state, outboxes, replays, worker, client, breaches, faults>>

-----------------------------------------------------------------------------
(***************************************************************************)
(* API requests.  expected is the version the caller read beforehand; the  *)
(* request then reads the rule (not consistently) and the evaluator state  *)
(* (consistently), and sends one transaction.                              *)
(***************************************************************************)
Readable(r) == {ViewOf(rule[r])} \cup views[r]

(* create_rule *)
CreateRule(r, def, due) ==
    /\ rule[r].status = "absent"
    /\ rule' = [rule EXCEPT ![r] = NewRule(def, due)]
    /\ UNCHANGED <<now, views, state, events, outboxes, replays, worker, client, breaches, faults>>

(* acknowledge_event: its read decides nothing its condition does not. *)
Acknowledge(e) ==
    /\ events[e].status = "open"
    /\ events' = [events EXCEPT ![e].status = "acknowledged", ![e].version = @ + 1]
    /\ UNCHANGED <<now, rule, views, state, outboxes, replays, worker, client, breaches, faults>>

(* Mutant: a suppressed incident is resolved without its state. *)
BeginResolveOpenOnly(c, e) ==
    /\ client[c].pc = "idle"
    /\ events[e].status # "resolved"
    /\ client' = [client EXCEPT ![c] =
                    [pc |-> "resolve", event |-> e, expected |-> events[e].version,
                     writesState |-> state[e.rule].activeStatus = "open" /\ state[e.rule].active = e,
                     snap |-> state[e.rule]]]
    /\ UNCHANGED <<now, rule, views, state, events, outboxes, replays, worker, breaches, faults>>

(* resolve_event, its reads: the state is rewritten only if this incident is in it. *)
BeginResolve(c, e) ==
    /\ client[c].pc = "idle"
    /\ events[e].status # "resolved"
    /\ client' = [client EXCEPT ![c] =
                    [pc |-> "resolve", event |-> e, expected |-> events[e].version,
                     writesState |-> state[e.rule].mode = "active" /\ state[e.rule].active = e,
                     snap |-> state[e.rule]]]
    /\ UNCHANGED <<now, rule, views, state, events, outboxes, replays, worker, breaches, faults>>

Rewritten(next, snap) == [next EXCEPT !.rev = snap.rev + 1]

(* resolve_event, its transaction. *)
CommitResolve(c) ==
    /\ client[c].pc = "resolve"
    /\ LET q == client[c]
           r == q.event.rule
       IN  /\ events[q.event].version = q.expected
           /\ events[q.event].status \in ActiveStatuses
           /\ q.writesState => state[r].rev = q.snap.rev
           /\ events' = [events EXCEPT ![q.event] = Resolution(@, "manual")]
           /\ state' = IF q.writesState
                       THEN [state EXCEPT ![r] = Rewritten(ResolvedState(q.snap), q.snap)]
                       ELSE state
    /\ client' = [client EXCEPT ![c] = Idle]
    /\ UNCHANGED <<now, rule, views, outboxes, replays, worker, breaches, faults>>

Field(patch, f, current) == IF f \in DOMAIN patch THEN patch[f] ELSE current

(* Mutant: enabled is not an evaluation-semantic field. *)
ConditionChange(patch, item) == Field(patch, "duration", item.duration) # item.duration

(* EVALUATION_SEMANTIC_FIELDS; duration stands for the condition of a rule. *)
SemanticChange(patch, item) ==
    \/ Field(patch, "enabled", item.enabled) # item.enabled
    \/ Field(patch, "duration", item.duration) # item.duration

(* update_rule, its reads. *)
BeginUpdate(c, r, patch) ==
    /\ client[c].pc = "idle"
    /\ rule[r].status # "absent"
    /\ \E view \in Readable(r), due \in NextCompleteSlot(now) :
         client' = [client EXCEPT ![c] =
                      [pc |-> "update", rule |-> r, expected |-> rule[r].version,
                       patch |-> patch, view |-> view, due |-> due, snap |-> state[r]]]
    /\ UNCHANGED <<now, rule, views, state, events, outboxes, replays, worker, breaches, faults>>

(* _administrative_resolution_operations: end the streak or the incident   *)
(* that the old meaning of the rule produced, without a notification.      *)
AdministrativelyResolved(snap) ==
    CASE snap.mode = "pending" -> Rewritten(ResetPending(snap), snap)
      [] snap.mode = "active"  -> Rewritten(ResolvedState(snap), snap)
      [] snap.mode = "healthy" -> snap

(* Mutant: the state read beforehand is written back unconditionally. *)
ResolutionWithoutRevision(r, snap, view) ==
    /\ snap.mode = "active" =>
         /\ snap.active \in DOMAIN events
         /\ events[snap.active].status \in ActiveStatuses
         /\ snap.active.revision = view.revision
    /\ state' = [state EXCEPT ![r] = AdministrativelyResolved(snap)]
    /\ events' = IF snap.mode = "active"
                 THEN [events EXCEPT ![snap.active] = Resolution(@, "administrative")] ELSE events

AdministrativeResolution(r, snap, view) ==
    /\ state[r].rev = snap.rev
    /\ snap.mode = "active" =>
         /\ snap.active \in DOMAIN events
         /\ events[snap.active].status \in ActiveStatuses
         /\ snap.active.revision = view.revision
    /\ state' = [state EXCEPT ![r] = AdministrativelyResolved(snap)]
    /\ events' = IF snap.mode = "active"
                 THEN [events EXCEPT ![snap.active] = Resolution(@, "administrative")] ELSE events

(* EVALUATION_SCHEDULE_FIELDS, removed. *)
Unscheduled(item) ==
    [item EXCEPT !.nextDue = 0, !.owner = NoOwner, !.live = FALSE, !.epoch = 0]

(* Mutant: a PATCH of the condition reschedules, one that enables does not. *)
RescheduledIfEnabled(item, patch, view, due) ==
    CASE ~SemanticChange(patch, view) -> item
      [] SemanticChange(patch, view) /\ view.enabled /\ Field(patch, "enabled", TRUE) ->
           [item EXCEPT !.nextDue = due, !.owner = NoOwner, !.live = FALSE]
      [] SemanticChange(patch, view) /\ ~(view.enabled /\ Field(patch, "enabled", TRUE)) ->
           Unscheduled(item)

(* The schedule a PATCH leaves: computed from the view it read. *)
Rescheduled(item, patch, view, due) ==
    CASE ~SemanticChange(patch, view) -> item
      [] SemanticChange(patch, view) /\ Field(patch, "enabled", view.enabled) ->
           [item EXCEPT !.nextDue = due, !.owner = NoOwner, !.live = FALSE]
      [] SemanticChange(patch, view) /\ ~Field(patch, "enabled", view.enabled) ->
           Unscheduled(item)

Updated(item, patch, view, due) ==
    [Rescheduled(item, patch, view, due) EXCEPT
        !.enabled = Field(patch, "enabled", @),
        !.duration = Field(patch, "duration", @),
        !.cooldown = Field(patch, "cooldown", @),
        !.channels = Field(patch, "channels", @),
        !.version = @ + 1,
        !.revision = view.revision + (IF SemanticChange(patch, view) THEN 1 ELSE 0),
        !.gen = @ + (IF SemanticChange(patch, item) THEN 1 ELSE 0)]

(* Mutant: a replaced rule may be written again. *)
ExpectedVersion(item, expected) == item.version = expected

(* _conditioned_rule_update's condition. *)
Conditioned(item, expected) == item.version = expected /\ item.status = "active"

(* update_rule, its transaction. *)
CommitUpdate(c) ==
    /\ client[c].pc = "update"
    /\ LET q == client[c]
           r == q.rule
       IN  /\ Conditioned(rule[r], q.expected)
           /\ rule[r].version < MaxVersion
           /\ IF SemanticChange(q.patch, q.view)
              THEN AdministrativeResolution(r, q.snap, q.view)
              ELSE UNCHANGED <<state, events>>
           /\ rule' = [rule EXCEPT ![r] = Updated(@, q.patch, q.view, q.due)]
           /\ Remember(r, rule[r])
    /\ client' = [client EXCEPT ![c] = Idle]
    /\ UNCHANGED <<now, outboxes, replays, worker, breaches, faults>>

(* replace_rule, its reads: get_replacement_replay may miss a fresh record. *)
BeginReplace(c, r, by, def, key) ==
    /\ client[c].pc = "idle"
    /\ rule[r].status # "absent" /\ rule[by].status = "absent"
    /\ \E view \in Readable(r), due \in NextCompleteSlot(now) :
         client' = [client EXCEPT ![c] =
                      [pc |-> "replace", rule |-> r, expected |-> rule[r].version, by |-> by,
                       def |-> def, key |-> key, view |-> view, due |-> due, snap |-> state[r]]]
    /\ UNCHANGED <<now, rule, views, state, events, outboxes, replays, worker, breaches, faults>>

Retired(item, view, by) ==
    [Unscheduled(item) EXCEPT !.enabled = FALSE, !.status = "replaced", !.replacedBy = by,
                              !.version = @ + 1, !.revision = view.revision + 1,
                              !.gen = @ + 1]

(* replace_rule, its transaction: retire, create and record the outcome. *)
CommitReplace(c, key) ==
    /\ client[c].pc = "replace" /\ client[c].key = key
    /\ LET q == client[c]
           r == q.rule
       IN  /\ Conditioned(rule[r], q.expected)
           /\ rule[q.by].status = "absent"
           /\ ~replays[key].live
           /\ AdministrativeResolution(r, q.snap, q.view)
           /\ rule' = [rule EXCEPT ![r] = Retired(@, q.view, q.by),
                                   ![q.by] = [NewRule(q.def, q.due) EXCEPT !.replaces = r]]
           /\ replays' = [replays EXCEPT ![key] = [live |-> TRUE, rule |-> r, by |-> q.by]]
           /\ Remember(r, rule[r])
    /\ client' = [client EXCEPT ![c] = Idle]
    /\ UNCHANGED <<now, outboxes, worker, breaches, faults>>

(* A request ends without its transaction: conflict, error, replay or crash. *)
EndRequest(c) ==
    /\ client[c].pc # "idle"
    /\ client' = [client EXCEPT ![c] = Idle]
    /\ UNCHANGED <<now, rule, views, state, events, outboxes, replays, worker, breaches, faults>>

(* IDEMPOTENCY_RETENTION passes. *)
ExpireReplay(key) ==
    /\ replays[key].live
    /\ replays' = [replays EXCEPT ![key].live = FALSE]
    /\ UNCHANGED <<now, rule, views, state, events, outboxes, worker, client, breaches, faults>>
-----------------------------------------------------------------------------
Evaluator ==
    \E w \in Workers :
      \/ \E o \in Owners, r \in Rules, slot \in 1..now : Claim(w, o, r, slot)
      \/ LoadState(w)
      \/ \E result \in Results : Commit(w, result) \/ LoseFence(w, result)
      \/ Crash(w)

Operator ==
    \/ \E r \in Rules, at \in BackfillTimes : BackfillSchedule(r, at)
    \/ \E e \in DOMAIN events : BackfillActiveAlertIndex(e)

API ==
    \/ \E r \in Rules, def \in Definitions, due \in NextCompleteSlot(now) : CreateRule(r, def, due)
    \/ \E e \in DOMAIN events : Acknowledge(e)
    \/ \E c \in Clients :
         \/ \E e \in DOMAIN events : BeginResolve(c, e)
         \/ \E r \in Rules, patch \in Patches : BeginUpdate(c, r, patch)
         \/ \E r, by \in Rules, def \in Definitions, key \in Keys :
              BeginReplace(c, r, by, def, key)
         \/ \E key \in Keys : CommitReplace(c, key)
         \/ CommitResolve(c) \/ CommitUpdate(c) \/ EndRequest(c)
    \/ \E key \in Keys : ExpireReplay(key)

Next == Tick \/ Evaluator \/ Operator \/ API \/ \E r \in Rules : ExpireLease(r)

Spec == Init /\ [][Next]_vars
-----------------------------------------------------------------------------
EventsOf(r) == {e \in DOMAIN events : e.rule = r}
Unresolved(r) == {e \in EventsOf(r) : events[e].status \in ActiveStatuses}
Notified(e) == events[e].source = NoEvent

(***************************************************************************)
(* Types.                                                                  *)
(***************************************************************************)
WorkerStates ==
    {Idle}
    \cup [pc : {"claimed"}, rule : Rules, slot : Nat, work : Works]
    \cup [pc : {"loaded"}, rule : Rules, slot : Nat, work : Works, snap : States]

ClientStates ==
    {Idle}
    \cup [pc : {"resolve"}, event : EventIds, expected : Nat, writesState : BOOLEAN, snap : States]
    \cup [pc : {"update"}, rule : Rules, expected : Nat, patch : Patches, view : Views,
          due : Nat, snap : States]
    \cup [pc : {"replace"}, rule : Rules, expected : Nat, by : Rules, def : Definitions,
          key : Keys, view : Views, due : Nat, snap : States]

(* Every item has the attributes and ranges its writers give it. *)
TypeOK ==
    /\ now \in Nat /\ faults \in Nat
    /\ rule \in [Rules -> RuleItems]
    /\ views \in [Rules -> SUBSET Views]
    /\ state \in [Rules -> States]
    /\ DOMAIN events \subseteq EventIds
    /\ \A e \in DOMAIN events : events[e] \in Events
    /\ outboxes \subseteq OutboxIds
    /\ replays \in [Keys -> [live : BOOLEAN, rule : Rules \cup {NoRule}, by : Rules \cup {NoRule}]]
    /\ worker \in [Workers -> WorkerStates]
    /\ client \in [Clients -> ClientStates]
    /\ breaches \subseteq Rules \X Int \X Nat

-----------------------------------------------------------------------------
(***************************************************************************)
(* What holds however reads and writes interleave.                         *)
(***************************************************************************)

(* The evaluator state and the event items agree: a rule's unresolved      *)
(* events are exactly the incident its state says is active.  Evaluator    *)
(* commits, manual resolution, PATCH and replace all keep the two in step, *)
(* each from a snapshot it read earlier.                                   *)
IncidentMatchesState ==
    \A r \in Rules :
      Unresolved(r) = IF state[r].mode = "active" THEN {state[r].active} ELSE {}

(* One notification per incident and no more often than the cooldown: an   *)
(* opening is notified only when every earlier notified opening of its     *)
(* rule has cooled down, and a suppressed one names the notified opening   *)
(* whose cooldown covers it, whatever was replayed or resolved in between. *)
CooldownRespected ==
    \A e \in DOMAIN events :
      IF Notified(e)
      THEN \A f \in EventsOf(e.rule) :
             Notified(f) /\ f.slot < e.slot => events[f].cooldownUntil <= e.slot
      ELSE LET src == events[e].source
           IN  /\ src \in EventsOf(e.rule)
               /\ Notified(src)
               /\ e.slot < events[src].cooldownUntil

(* Outboxes are exactly the openings of notified events on the channels    *)
(* the rule had then, plus a recovery on those same channels for each of   *)
(* them the evaluator saw recover: none for suppressed incidents or for    *)
(* manual and administrative resolutions, none twice, none lost.           *)
OutboxesMatchEvents ==
    outboxes = UNION {{OutboxID(e, ch, kind) :
                         ch \in IF Notified(e) THEN events[e].channels ELSE {},
                         kind \in IF events[e].reason = "recovered" THEN Kinds ELSE {"opening"}} :
                      e \in DOMAIN events}

(* list_active_events shows no finished or suppressed event, and every     *)
(* unresolved notified event that was opened with the index in place.      *)
ActiveIndexExact ==
    \A e \in DOMAIN events :
      /\ events[e].indexed => events[e].status \in {"open", "acknowledged"}
      /\ events[e].status \in {"open", "acknowledged"} /\ e.slot > LegacySlot
           => events[e].indexed

(* A rule is replaced once, by the rule that says it replaces it, and a    *)
(* replay of the request answers with that pair while its record lives.    *)
ReplacementLinked ==
    /\ \A r, by \in Rules : rule[by].replaces = r <=> rule[r].replacedBy = by
    /\ \A k \in Keys : replays[k].live =>
         /\ rule[replays[k].rule].replacedBy = replays[k].by
         /\ rule[replays[k].rule].status = "replaced"

(***************************************************************************)
(* What also needs the API to read rules consistently.                     *)
(***************************************************************************)

(* An incident opens only once the breach has lasted the rule's duration:  *)
(* every slot less than a duration before it was evaluated as a breach,    *)
(* under the meaning the rule had when it opened.  PATCH, disabling and    *)
(* re-enabling start over; a missed or indeterminate slot does too.        *)
OpeningConfirmed ==
    \A e \in DOMAIN events : \A k \in 0..(events[e].duration \div Cadence) :
      k = 0 \/ k * Cadence < events[e].duration =>
        <<e.rule, e.slot - k, events[e].gen>> \in breaches

(* Disabling or replacing a rule ends its incident and its streak, and     *)
(* nothing a worker had in flight brings one back.                         *)
InactiveRuleIsQuiet ==
    \A r \in Rules : ~Active(rule[r]) => state[r].mode = "healthy" /\ Unresolved(r) = {}

(* docs/alert-evaluator-phase-3b.md: disabled and replaced rules are not   *)
(* indexed for evaluation.                                                 *)
InactiveRuleNotIndexed ==
    \A r \in Rules : ~Active(rule[r]) => rule[r].nextDue = 0

(* A scheduled rule stays scheduled as long as it is enabled, and enabling *)
(* a rule schedules it: no sequence of PATCHes takes an enabled rule out   *)
(* of evaluation.                                                          *)
EnabledStaysScheduled ==
    [][\A r \in Rules :
         Active(rule[r])' /\ (~Active(rule[r]) \/ rule[r].nextDue # 0) => rule[r].nextDue' # 0]_vars

(***************************************************************************)
(* Liveness: a run is started every minute (some idle worker keeps trying  *)
(* to claim), a worker that is not killed goes on, and a lease left behind *)
(* expires.  Crashes and other disturbances are finitely many.             *)
(***************************************************************************)
Fairness ==
    /\ \A w \in Workers :
         /\ WF_vars(\E o \in Owners, r \in Rules, slot \in 1..now : Claim(w, o, r, slot))
         /\ WF_vars(LoadState(w))
         /\ WF_vars(\E result \in Results : Commit(w, result) \/ LoseFence(w, result))
    /\ \A r \in Rules : WF_vars(ExpireLease(r))

FairSpec == Spec /\ Fairness

Due(r) == Active(rule[r]) /\ rule[r].nextDue \in 1..now

(* A due rule does not stay due: it is evaluated, or an administrator      *)
(* reschedules or disables it.  No crash, lost lease, manual resolution or *)
(* PATCH leaves a rule whose commits fail forever.                         *)
DueRuleIsServed == \A r \in Rules : Due(r) ~> ~Due(r)
=============================================================================
