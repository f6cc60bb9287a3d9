------------------------ MODULE AlertProofs ------------------------
(***************************************************************************)
(* Machine-checked proofs about AlertLifecycle, for any number of rules,   *)
(* workers and requests, any definitions, and stale or fresh rule reads.   *)
(***************************************************************************)
EXTENDS AlertLifecycle, TLAPS

(* A state item that is active names an incident of its own rule. *)
WellFormed(r, s) ==
    /\ s.mode = "active" => s.active \in EventIds /\ s.active.rule = r
    /\ s.mode # "active" => s.active = NoEvent

(* What a reader of r's state item may hold: an older item, or the current *)
(* one exactly.                                                            *)
SnapshotOf(r, snap, item) ==
    /\ WellFormed(r, snap)
    /\ snap.rev <= item.rev
    /\ snap.rev = item.rev => snap = item

Snapshot(r, snap) == SnapshotOf(r, snap, state[r])

StatesWellFormed == \A r \in Rules : WellFormed(r, state[r])

WorkerSnapshots ==
    \A w \in Workers : worker[w].pc = "loaded" => Snapshot(worker[w].rule, worker[w].snap)

(* A resolve request read the state while its event was the active one. *)
ClientSnapshots ==
    \A c \in Clients :
      /\ client[c].pc \in {"update", "replace"} => Snapshot(client[c].rule, client[c].snap)
      /\ client[c].pc = "resolve" =>
           /\ Snapshot(client[c].event.rule, client[c].snap)
           /\ client[c].event \in DOMAIN events
           /\ client[c].writesState
           /\ client[c].snap.mode = "active"
           /\ client[c].snap.active = client[c].event

(* The inductive invariant. *)
IInv ==
    /\ TypeOK
    /\ StatesWellFormed
    /\ WorkerSnapshots
    /\ ClientSnapshots
    /\ IncidentMatchesState

-----------------------------------------------------------------------------
(* The decision. *)

(* The identity the evaluator derives for an incident (eventID) is an event of its rule. *)
LEMMA EventIDType ==
    ASSUME NEW r \in Rules, NEW rl \in Works, NEW slot \in Nat
    PROVE  EventID(r, rl, slot) \in EventIds /\ EventID(r, rl, slot).rule = r
BY Zenon DEF EventID, EventIds, Works

(* Forgetting a pending streak leaves a well-typed state. *)
LEMMA ResetPendingType ==
    ASSUME NEW s \in States PROVE ResetPending(s) \in States
BY Zenon DEF ResetPending, States, Modes

(* Applying an observation before the decision changes neither revision, active event nor
   whether an incident is active. *)
LEMMA ObservedType ==
    ASSUME NEW s \in States, NEW ev, ev.slot \in Nat
    PROVE  /\ Observed(s, ev) \in States
           /\ Observed(s, ev).rev = s.rev
           /\ Observed(s, ev).active = s.active
           /\ Observed(s, ev).mode = "active" <=> s.mode = "active"
BY Zenon DEF Observed, ResetPending, States, Modes

(* Counting a breach leaves the rule pending, with the revision and active event it had. *)
LEMMA ConfirmType ==
    ASSUME NEW s \in States, NEW ev, ev.slot \in Nat
    PROVE  /\ Confirm(s, ev) \in States
           /\ Confirm(s, ev).rev = s.rev
           /\ Confirm(s, ev).active = s.active
           /\ Confirm(s, ev).mode = "pending"
<1> DEFINE n == IF Consecutive(s, ev) THEN s.confirmed + 1 ELSE 1
           t == IF Consecutive(s, ev) THEN s.pendingSince ELSE ev.slot
<1>1. n \in Nat /\ t \in Nat
  BY DEF States
<1>2. Confirm(s, ev) = [s EXCEPT !.mode = "pending", !.confirmed = n,
                                 !.pendingSince = t, !.lastBreach = ev.slot]
  BY Zenon DEF Confirm
<1> HIDE DEF n, t
<1> QED BY <1>1, <1>2, ZenonT(30) DEF States, Modes

(* An opened state is active and names the event it opened. *)
LEMMA OpenedType ==
    ASSUME NEW s \in States, NEW event \in EventIds
    PROVE  /\ Opened(s, event) \in States
           /\ Opened(s, event).mode = "active" /\ Opened(s, event).active = event
BY Zenon DEF Opened, States, Modes

(* openIncident creates an event of the rule, makes it the active one and asks only for
   outboxes of the model. *)
LEMMA OpenIncidentOutcome ==
    ASSUME NEW r \in Rules, NEW rl \in Works, NEW s \in States, NEW ev, ev.slot \in Nat
    PROVE  LET d == OpenIncident(r, rl, s, ev)
           IN  /\ d.next \in States
               /\ d.transition \in {"opened", "suppressed"}
               /\ d.event \in EventIds /\ d.event.rule = r
               /\ d.next.mode = "active" /\ d.next.active = d.event
               /\ d.next.activeStatus \in {"open", "suppressed"}
               /\ d.outboxes \subseteq OutboxIds
<1> DEFINE event == EventID(r, rl, ev.slot)
<1>1. event \in EventIds /\ event.rule = r
  BY EventIDType, Zenon
<1>2. rl.cooldown \in Nat /\ rl.channels \subseteq Channels
  BY Zenon DEF Works
<1>3. {OutboxID(event, ch, "opening") : ch \in rl.channels} \subseteq OutboxIds
  BY <1>1, <1>2 DEF OutboxID, OutboxIds, Kinds
<1>4. Opened(s, event) \in States /\ Opened(s, event).mode = "active"
      /\ Opened(s, event).active = event
  BY <1>1, OpenedType, Zenon
<1> DEFINE o == Opened(s, event)
<1>5. CASE s.cooldownUntil > ev.slot
  <2> DEFINE n == [o EXCEPT !.activeStatus = "suppressed", !.source = s.lastNotified]
  <2>1. OpenIncident(r, rl, s, ev) = Decision(n, "suppressed", event, {})
    BY <1>5, Zenon DEF OpenIncident
  <2> HIDE DEF event, o
  <2>2. n \in States /\ n.mode = "active" /\ n.active = event /\ n.activeStatus = "suppressed"
    BY <1>1, <1>4, Zenon DEF States, Modes, o
  <2> HIDE DEF n
  <2> QED BY <1>1, <2>1, <2>2 DEF Decision
<1>6. CASE ~(s.cooldownUntil > ev.slot)
  <2> DEFINE until == ev.slot + rl.cooldown
             n == [o EXCEPT !.activeStatus = "open", !.source = NoEvent,
                            !.cooldownUntil = until, !.lastNotified = event,
                            !.opening = rl.channels]
             obs == {OutboxID(event, ch, "opening") : ch \in rl.channels}
  <2>1. OpenIncident(r, rl, s, ev) = Decision(n, "opened", event, obs)
    BY <1>6, Zenon DEF OpenIncident
  <2>2. until \in Nat
    BY <1>2
  <2> HIDE DEF event, o, until
  <2>3. n \in States /\ n.mode = "active" /\ n.active = event /\ n.activeStatus = "open"
    BY <1>1, <1>2, <1>4, <2>2, Zenon DEF States, Modes, o
  <2> HIDE DEF n
  <2> QED BY <1>1, <1>3, <2>1, <2>3 DEF Decision
<1> QED BY <1>5, <1>6, Zenon

(* recoverIncident ends the active event and leaves the rule healthy. *)
LEMMA RecoverIncidentOutcome ==
    ASSUME NEW s \in States, s.active \in EventIds
    PROVE  LET d == RecoverIncident(s)
           IN  /\ d.next \in States
               /\ d.next.mode = "healthy" /\ d.next.active = NoEvent
               /\ d.transition = "recovered" /\ d.event = s.active
               /\ d.outboxes \subseteq OutboxIds
<1>1. {OutboxID(s.active, ch, "recovery") : ch \in s.opening} \subseteq OutboxIds
  BY DEF OutboxID, OutboxIds, Kinds, States
<1>2. Cleared(s) \in States /\ Cleared(s).mode = "healthy" /\ Cleared(s).active = NoEvent
  BY Zenon DEF Cleared, States, Modes
<1> QED BY <1>1, <1>2, Zenon DEF RecoverIncident, Decision

(* What the invariant needs of a decision on a well-formed state. *)
Outcome(r, s, d) ==
    /\ d.next \in States
    /\ WellFormed(r, d.next)
    /\ d.outboxes \subseteq OutboxIds
    /\ \/ /\ d.transition \in {"opened", "suppressed"}
          /\ s.mode # "active" /\ d.next.mode = "active" /\ d.next.active = d.event
          /\ d.event \in EventIds /\ d.event.rule = r
          /\ d.next.activeStatus \in {"open", "suppressed"}
       \/ /\ d.transition = "recovered"
          /\ s.mode = "active" /\ d.next.mode # "active" /\ d.event = s.active
       \/ /\ d.transition = "none"
          /\ d.next.mode = "active" <=> s.mode = "active"
          /\ d.next.active = s.active

(* A decision without a transition keeps the active event. *)
LEMMA QuietOutcome ==
    ASSUME NEW r \in Rules, NEW s, NEW n \in States, WellFormed(r, s),
           n.active = s.active, n.mode = "active" <=> s.mode = "active"
    PROVE  Outcome(r, s, Quiet(n))
BY Zenon DEF Outcome, Quiet, Decision, WellFormed

(* Every arm of Decide yields one of the outcomes the commit transaction relies on. *)
LEMMA DecideOutcome ==
    ASSUME NEW r \in Rules, NEW rl \in Works, NEW current \in States, WellFormed(r, current),
           NEW ev, ev.slot \in Nat, ev.result \in Results
    PROVE  Outcome(r, current, Decide(r, rl, current, ev))
<1> DEFINE s == Observed(current, ev)
           c == Confirm(s, ev)
           d == Decide(r, rl, current, ev)
<1>1. s \in States /\ s.active = current.active /\ (s.mode = "active" <=> current.mode = "active")
  BY ObservedType, Zenon
<1>2. c \in States /\ c.active = s.active /\ c.mode = "pending"
  BY <1>1, ConfirmType, Zenon
<1>3. ResetPending(s) \in States /\ ResetPending(s).active = s.active
      /\ ResetPending(s).mode = "healthy"
  BY <1>1, Zenon DEF ResetPending, States, Modes
<1>4. d = CASE ev.result = "indeterminate"               -> Quiet(s)
            [] ev.result = "breach" /\ s.mode = "active" -> Quiet(s)
            [] ev.result = "clean" /\ s.mode = "active"  -> RecoverIncident(s)
            [] ev.result = "clean" /\ s.mode # "active"  -> Quiet(ResetPending(s))
            [] ev.result = "breach" /\ s.mode # "active" ->
                 IF c.confirmed < RequiredSlots(rl.duration)
                 THEN Quiet(c) ELSE OpenIncident(r, rl, c, ev)
  BY Zenon DEF Decide
<1> HIDE DEF s, c, d
<1>5. CASE ev.result = "indeterminate" \/ (ev.result = "breach" /\ s.mode = "active")
  <2>1. d = Quiet(s)
    BY <1>4, <1>5, Zenon
  <2> QED BY <1>1, <2>1, QuietOutcome, Zenon DEF d
<1>6. CASE ev.result = "clean" /\ s.mode = "active"
  <2>1. d = RecoverIncident(s)
    BY <1>4, <1>6, Zenon
  <2>2. current.mode = "active" /\ s.active \in EventIds
    BY <1>1, <1>6, Zenon DEF WellFormed
  <2> QED BY <1>1, <2>1, <2>2, RecoverIncidentOutcome DEF d, Outcome, WellFormed
<1>7. CASE ev.result = "clean" /\ s.mode # "active"
  <2>1. d = Quiet(ResetPending(s))
    BY <1>4, <1>7, Zenon
  <2> QED BY <1>1, <1>3, <1>7, <2>1, QuietOutcome, Zenon DEF d
<1>8. CASE ev.result = "breach" /\ s.mode # "active"
  <2>1. d = IF c.confirmed < RequiredSlots(rl.duration)
            THEN Quiet(c) ELSE OpenIncident(r, rl, c, ev)
    BY <1>4, <1>8, Zenon
  <2>2. CASE c.confirmed < RequiredSlots(rl.duration)
    BY <1>1, <1>2, <1>8, <2>1, <2>2, QuietOutcome, Zenon DEF d
  <2>3. CASE ~(c.confirmed < RequiredSlots(rl.duration))
    BY <1>1, <1>2, <1>8, <2>1, <2>3, OpenIncidentOutcome DEF d, Outcome, WellFormed
  <2> QED BY <2>2, <2>3, Zenon
<1> QED BY <1>5, <1>6, <1>7, <1>8, Zenon DEF Results, d

-----------------------------------------------------------------------------
(* Items. *)

(* A rule that was never created is a rule item. *)
LEMMA AbsentRuleType == AbsentRule \in RuleItems
BY Zenon DEF AbsentRule, RuleItems

(* The item create_rule writes is a rule item. *)
LEMMA NewRuleType ==
    ASSUME NEW def \in Definitions, NEW due \in Nat
    PROVE  NewRule(def, due) \in RuleItems
<1>1. def \in DefinitionRecords
  BY ParameterAssumption, Zenon
<1>2. def.enabled \in BOOLEAN /\ def.duration \in Nat /\ def.cooldown \in Nat
      /\ def.channels \subseteq Channels
  BY <1>1, Zenon DEF DefinitionRecords
<1> DEFINE n == IF def.enabled THEN due ELSE 0
<1>3. n \in Nat
  BY Zenon
<1> DEFINE a == [AbsentRule EXCEPT !.status = "active", !.version = 1, !.revision = 1]
<1>4. NewRule(def, due) =
        [a EXCEPT !.enabled = def.enabled, !.duration = def.duration,
                  !.cooldown = def.cooldown, !.channels = def.channels, !.nextDue = n]
  BY Zenon DEF NewRule
<1>5. a \in RuleItems
  BY AbsentRuleType, Zenon DEF RuleItems
<1> HIDE DEF n, a
<1> QED BY <1>2, <1>3, <1>4, <1>5, ZenonT(30) DEF RuleItems

(* A rule without a stored state starts healthy with no event. *)
LEMMA ZeroStateType ==
    ZeroState \in States /\ ZeroState.mode = "healthy" /\ ZeroState.active = NoEvent
BY Zenon DEF ZeroState, States, Modes

(* A state written before the schedule existed is active and names its event. *)
LEMMA LegacyStateType ==
    ASSUME NEW r \in Rules, NEW item \in RuleItems
    PROVE  /\ LegacyState(r, item) \in States
           /\ LegacyState(r, item).mode = "active"
           /\ LegacyState(r, item).active = LegacyEvent(r)
<1>1. LegacyEvent(r) \in EventIds
  BY Zenon DEF LegacyEvent, LegacySlot, EventIds
<1> DEFINE until == 1 + item.cooldown
<1>2. item.channels \subseteq Channels /\ until \in Nat
  BY DEF RuleItems
<1> DEFINE a == [ZeroState EXCEPT !.rev = 1, !.mode = "active", !.lastBreach = 1, !.lastSlot = 1]
<1>3. LegacyState(r, item) =
        [a EXCEPT !.active = LegacyEvent(r), !.activeStatus = "open",
                  !.opening = item.channels, !.cooldownUntil = until,
                  !.lastNotified = LegacyEvent(r)]
  BY Zenon DEF LegacyState
<1>4. a \in States /\ a.mode = "active"
  BY ZeroStateType, Zenon DEF States, Modes
<1> HIDE DEF until, a
<1> QED BY <1>1, <1>2, <1>3, <1>4, ZenonT(40) DEF States, Modes

(* The item the evaluator writes for an event is well typed and has the given status. *)
LEMMA EventItemType ==
    ASSUME NEW item \in RuleItems, NEW status \in Statuses, NEW indexed \in BOOLEAN,
           NEW source \in EventIds \cup {NoEvent}, NEW slot \in Nat
    PROVE  /\ EventItem(item, status, indexed, source, slot) \in Events
           /\ EventItem(item, status, indexed, source, slot).status = status
BY DEF EventItem, Events, RuleItems

(* Every initial tenant satisfies the inductive invariant. *)
LEMMA InitIInv == Init => IInv
<1> SUFFICES ASSUME Init PROVE IInv
  BY Zenon
<1>1. PICK used \in SUBSET Rules, incident \in BOOLEAN, def \in Definitions, due \in {0, 2} :
        Tenant(used, IF incident /\ def.enabled THEN used ELSE {}, def, NewRule(def, due))
  BY Zenon DEF Init
<1> DEFINE item == NewRule(def, due)
           open == IF incident /\ def.enabled THEN used ELSE {}
<1>2. open \subseteq Rules /\ item \in RuleItems
  BY NewRuleType, Zenon
<1>3. \A r \in Rules : LegacyEvent(r) \in EventIds /\ LegacyEvent(r).rule = r
  BY Zenon DEF LegacyEvent, LegacySlot, EventIds
<1>0. Tenant(used, open, def, item)
  BY <1>1, Zenon
<1> HIDE DEF item, open
<1>4. EventItem(item, "open", FALSE, NoEvent, 1) \in Events
      /\ EventItem(item, "open", FALSE, NoEvent, 1).status = "open"
  BY <1>2 DEF EventItem, Events, RuleItems, Statuses, ActiveStatuses
<1>5. \A r \in Rules : LegacyState(r, item) \in States
                       /\ LegacyState(r, item).mode = "active"
                       /\ LegacyState(r, item).active = LegacyEvent(r)
  BY <1>2, LegacyStateType, Zenon
<1>6. /\ rule = [r \in Rules |-> IF r \in used THEN item ELSE AbsentRule]
      /\ state = [r \in Rules |-> IF r \in open THEN LegacyState(r, item) ELSE ZeroState]
      /\ events = [e \in {LegacyEvent(r) : r \in open} |->
                     EventItem(item, "open", FALSE, NoEvent, 1)]
      /\ outboxes = {OutboxID(LegacyEvent(r), ch, "opening") : r \in open, ch \in def.channels}
      /\ breaches = {<<r, 1 - k, 0>> : r \in open, k \in 0..RequiredSlots(def.duration)}
  BY <1>0 DEF Tenant, LegacySlot
<1>7. now \in Nat /\ faults \in Nat /\ views \in [Rules -> SUBSET Views]
      /\ worker = [w \in Workers |-> Idle] /\ client = [c \in Clients |-> Idle]
  BY <1>0, Zenon DEF Tenant
<1>8. TypeOK
  <2>1. rule \in [Rules -> RuleItems] /\ state \in [Rules -> States]
    BY <1>2, <1>5, <1>6, AbsentRuleType, ZeroStateType, Zenon
  <2>2. DOMAIN events \subseteq EventIds /\ \A e \in DOMAIN events : events[e] \in Events
    BY <1>2, <1>3, <1>4, <1>6, Zenon
  <2>3. def.channels \subseteq Channels
    BY ParameterAssumption, Zenon DEF DefinitionRecords
  <2>4. outboxes \subseteq OutboxIds
    BY <1>2, <1>3, <1>6, <2>3 DEF OutboxID, OutboxIds, Kinds
  <2>5. breaches \subseteq Rules \X Int \X Nat
    BY <1>2, <1>6
  <2>6. replays \in [Keys -> [live : BOOLEAN, rule : Rules \cup {NoRule}, by : Rules \cup {NoRule}]]
    BY <1>0, Zenon DEF Tenant
  <2>7. worker \in [Workers -> WorkerStates] /\ client \in [Clients -> ClientStates]
    BY <1>7, Zenon DEF WorkerStates, ClientStates
  <2> QED BY <1>7, <2>1, <2>2, <2>4, <2>5, <2>6, <2>7, Zenon DEF TypeOK
<1>9. StatesWellFormed
  BY <1>3, <1>5, <1>6, ZeroStateType, Zenon DEF StatesWellFormed, WellFormed
<1>10. WorkerSnapshots /\ ClientSnapshots
  BY <1>7, Zenon DEF WorkerSnapshots, ClientSnapshots, Idle
<1>11. IncidentMatchesState
  <2> SUFFICES ASSUME NEW r \in Rules
               PROVE  Unresolved(r) = IF state[r].mode = "active" THEN {state[r].active} ELSE {}
    BY Zenon DEF IncidentMatchesState
  <2>1. \A e \in DOMAIN events : events[e].status \in ActiveStatuses
    BY <1>4, <1>6, Zenon DEF ActiveStatuses
  <2>2. \A e : e \in DOMAIN events <=> \E q \in open : e = LegacyEvent(q)
    BY <1>6, Zenon
  <2>3. \A e : e \in Unresolved(r) <=> r \in open /\ e = LegacyEvent(r)
    BY <1>2, <1>3, <2>1, <2>2 DEF Unresolved, EventsOf
  <2>4. state[r].mode = "active" <=> r \in open
    BY <1>5, <1>6, ZeroStateType, Zenon
  <2>5. r \in open => state[r].active = LegacyEvent(r)
    BY <1>5, <1>6, Zenon
  <2> QED BY <2>3, <2>4, <2>5, Zenon
<1> QED BY <1>8, <1>9, <1>10, <1>11, Zenon DEF IInv

-----------------------------------------------------------------------------
(* Reading the union types of workers and requests. *)

(* What a worker holds between its steps is well typed. *)
LEMMA WorkerFields ==
    ASSUME TypeOK, NEW w \in Workers
    PROVE  /\ worker[w].pc # "idle" => /\ worker[w].rule \in Rules
                                       /\ worker[w].slot \in Nat
                                       /\ worker[w].work \in Works
           /\ worker[w].pc = "loaded" => worker[w].snap \in States
<1>1. worker[w] \in WorkerStates
  BY Zenon DEF TypeOK
<1> QED BY <1>1 DEF WorkerStates, Idle

(* What an API request holds between its reads and its transaction is well typed. *)
LEMMA ClientFields ==
    ASSUME TypeOK, NEW c \in Clients
    PROVE  /\ client[c].pc = "resolve" => /\ client[c].event \in EventIds
                                          /\ client[c].snap \in States
           /\ client[c].pc = "update" => /\ client[c].rule \in Rules
                                         /\ client[c].patch \in Patches
                                         /\ client[c].view \in Views
                                         /\ client[c].due \in Nat
                                         /\ client[c].snap \in States
           /\ client[c].pc = "replace" => /\ client[c].rule \in Rules
                                          /\ client[c].by \in Rules
                                          /\ client[c].def \in Definitions
                                          /\ client[c].key \in Keys
                                          /\ client[c].view \in Views
                                          /\ client[c].due \in Nat
                                          /\ client[c].snap \in States
<1>1. client[c] \in ClientStates
  BY Zenon DEF TypeOK
<1> QED BY <1>1 DEF ClientStates, Idle

(* Steps that write neither states nor events. *)

(* A step that changes neither states nor events keeps the incident part of the
   invariant. *)
LEMMA FrameStates ==
    ASSUME IInv, state' = state, events' = events
    PROVE  /\ StatesWellFormed' /\ IncidentMatchesState'
           /\ worker' = worker => WorkerSnapshots'
           /\ client' = client => ClientSnapshots'
BY ZenonT(30) DEF IInv, StatesWellFormed, WellFormed, IncidentMatchesState, Unresolved, EventsOf,
       WorkerSnapshots, ClientSnapshots, Snapshot

(* A worker that gives its rule up keeps every other worker's snapshot. *)
LEMMA WorkerIdles ==
    ASSUME IInv, state' = state, NEW w \in Workers, worker' = [worker EXCEPT ![w] = Idle]
    PROVE  worker' \in [Workers -> WorkerStates] /\ WorkerSnapshots'
BY Zenon DEF IInv, TypeOK, WorkerStates, WorkerSnapshots, Snapshot, Idle

(* A request that ends keeps every other request's snapshot. *)
LEMMA ClientIdles ==
    ASSUME IInv, state' = state, DOMAIN events \subseteq DOMAIN events',
           NEW c \in Clients, client' = [client EXCEPT ![c] = Idle]
    PROVE  client' \in [Clients -> ClientStates] /\ ClientSnapshots'
BY Zenon DEF IInv, TypeOK, ClientStates, ClientSnapshots, Snapshot, Idle

(* The clock keeps the invariant. *)
LEMMA TickKeeps == ASSUME IInv, Tick PROVE IInv'
<1>1. TypeOK'
  BY DEF IInv, TypeOK, Tick
<1> QED BY <1>1, FrameStates, Zenon DEF IInv, Tick

(* Claiming a due rule keeps the invariant. *)
LEMMA ClaimKeeps ==
    ASSUME IInv, NEW w \in Workers, NEW o \in Owners, NEW r \in Rules, NEW slot \in Nat,
           Claim(w, o, r, slot)
    PROVE  IInv'
<1>1. rule[r] \in RuleItems /\ rule \in [Rules -> RuleItems] /\ faults \in Nat
  BY Zenon DEF IInv, TypeOK
<1>2. faults' \in Nat
  BY <1>1 DEF Claim, Disturb
<1>3. rule' \in [Rules -> RuleItems]
  BY <1>1 DEF Claim, RuleItems
<1>4. WorkOf(rule[r], o) \in Works
  BY <1>1, SMTT(30) DEF WorkOf, Works, RuleItems
<1> DEFINE v == [pc |-> "claimed", rule |-> r, slot |-> slot, work |-> WorkOf(rule[r], o)]
<1>5. v \in WorkerStates /\ v.pc = "claimed"
  BY <1>4, Zenon DEF WorkerStates
<1>6. worker' = [worker EXCEPT ![w] = v]
  BY Zenon DEF Claim
<1> HIDE DEF v
<1>7. worker' \in [Workers -> WorkerStates]
  BY <1>5, <1>6, Zenon DEF IInv, TypeOK
<1>8. WorkerSnapshots'
  BY <1>5, <1>6, Zenon DEF IInv, TypeOK, WorkerSnapshots, Snapshot, Claim
<1>9. TypeOK'
  BY <1>2, <1>3, <1>7, Zenon DEF IInv, TypeOK, Claim
<1> QED BY <1>8, <1>9, FrameStates, Zenon DEF IInv, Claim

(* Loading a state takes a snapshot that is current, so the invariant holds of it. *)
LEMMA LoadStateKeeps ==
    ASSUME IInv, NEW w \in Workers, LoadState(w) PROVE IInv'
<1> DEFINE k == worker[w]
           v == [pc |-> "loaded", rule |-> k.rule, slot |-> k.slot, work |-> k.work,
                 snap |-> state[k.rule]]
<1>1. k.rule \in Rules /\ k.slot \in Nat /\ k.work \in Works
  BY WorkerFields, Zenon DEF IInv, LoadState
<1>2. state[k.rule] \in States /\ WellFormed(k.rule, state[k.rule]) /\ state[k.rule].rev \in Nat
  BY <1>1, Zenon DEF IInv, TypeOK, StatesWellFormed, States
<1>3. v \in WorkerStates
  BY <1>1, <1>2, Zenon DEF WorkerStates
<1>4. Snapshot(v.rule, v.snap)
  BY <1>2 DEF Snapshot, SnapshotOf
<1>5. worker' = [worker EXCEPT ![w] = v]
  BY Zenon DEF LoadState, IInv, TypeOK
<1> HIDE DEF v
<1>6. worker' \in [Workers -> WorkerStates]
  BY <1>3, <1>5, Zenon DEF IInv, TypeOK
<1>7. WorkerSnapshots'
  BY <1>4, <1>5, ZenonT(30) DEF IInv, TypeOK, WorkerSnapshots, Snapshot, LoadState
<1>8. TypeOK'
  BY <1>6, Zenon DEF IInv, TypeOK, LoadState
<1> QED BY <1>7, <1>8, FrameStates, Zenon DEF IInv, LoadState

(* A commit refused by its conditions keeps the invariant. *)
LEMMA LoseFenceKeeps ==
    ASSUME IInv, NEW w \in Workers, NEW result, LoseFence(w, result) PROVE IInv'
<1>1. worker' \in [Workers -> WorkerStates] /\ WorkerSnapshots'
  BY WorkerIdles, Zenon DEF LoseFence
<1>2. TypeOK'
  BY <1>1, Zenon DEF IInv, TypeOK, LoseFence
<1> QED BY <1>1, <1>2, FrameStates, Zenon DEF IInv, LoseFence

(* A crashed run keeps the invariant. *)
LEMMA CrashKeeps ==
    ASSUME IInv, NEW w \in Workers, Crash(w) PROVE IInv'
<1>1. worker' \in [Workers -> WorkerStates] /\ WorkerSnapshots'
  BY WorkerIdles, Zenon DEF Crash
<1>2. TypeOK'
  BY <1>1 DEF IInv, TypeOK, Crash, Disturb
<1> QED BY <1>1, <1>2, FrameStates, Zenon DEF IInv, Crash

(* A lease that lapses keeps the invariant. *)
LEMMA ExpireLeaseKeeps ==
    ASSUME IInv, NEW r \in Rules, ExpireLease(r) PROVE IInv'
<1>1. faults' \in Nat
  BY DEF IInv, TypeOK, ExpireLease, Disturb
<1> DEFINE v == [rule[r] EXCEPT !.live = FALSE]
<1>2. rule' = [rule EXCEPT ![r] = v] /\ rule \in [Rules -> RuleItems]
  BY Zenon DEF ExpireLease, IInv, TypeOK
<1>3. v \in RuleItems
  BY <1>2, ZenonT(40) DEF RuleItems
<1> HIDE DEF v
<1>5. rule' \in [Rules -> RuleItems]
  BY <1>2, <1>3, Zenon
<1>4. TypeOK'
  BY <1>1, <1>5, Zenon DEF IInv, TypeOK, ExpireLease
<1> QED BY <1>4, FrameStates, Zenon DEF IInv, ExpireLease

(* The schedule backfill keeps the invariant. *)
LEMMA BackfillScheduleKeeps ==
    ASSUME IInv, NEW r \in Rules, NEW at \in BackfillTimes, BackfillSchedule(r, at) PROVE IInv'
<1>1. PICK due \in NextCompleteSlot(at) : rule' = [rule EXCEPT ![r].nextDue = due]
  BY Zenon DEF BackfillSchedule
<1>2. due \in Nat
  BY ParameterAssumption DEF NextCompleteSlot
<1>3. rule' \in [Rules -> RuleItems] /\ faults' \in Nat
  BY <1>1, <1>2 DEF IInv, TypeOK, BackfillSchedule, Disturb, RuleItems
<1>4. TypeOK'
  BY <1>3, Zenon DEF IInv, TypeOK, BackfillSchedule
<1> QED BY <1>4, FrameStates, Zenon DEF IInv, BackfillSchedule

(* create_rule keeps the invariant. *)
LEMMA CreateRuleKeeps ==
    ASSUME IInv, NEW r \in Rules, NEW def \in Definitions, NEW due \in NextCompleteSlot(now),
           CreateRule(r, def, due)
    PROVE  IInv'
<1>1. due \in Nat
  BY DEF IInv, TypeOK, NextCompleteSlot
<1>2. NewRule(def, due) \in RuleItems
  BY <1>1, NewRuleType, Zenon
<1>3. TypeOK'
  BY <1>2, Zenon DEF IInv, TypeOK, CreateRule
<1> QED BY <1>3, FrameStates, Zenon DEF IInv, CreateRule

(* An idempotency record that expires keeps the invariant. *)
LEMMA ExpireReplayKeeps ==
    ASSUME IInv, NEW key \in Keys, ExpireReplay(key) PROVE IInv'
<1>1. TypeOK'
  BY ZenonT(30) DEF IInv, TypeOK, ExpireReplay
<1> QED BY <1>1, FrameStates, Zenon DEF IInv, ExpireReplay

-----------------------------------------------------------------------------
(* Requests: their reads, and their end without a transaction. *)

(* A request that ends without writing keeps the invariant. *)
LEMMA EndRequestKeeps ==
    ASSUME IInv, NEW c \in Clients, EndRequest(c) PROVE IInv'
<1>1. client' \in [Clients -> ClientStates] /\ ClientSnapshots'
  BY ClientIdles, Zenon DEF EndRequest
<1>2. TypeOK'
  BY <1>1, Zenon DEF IInv, TypeOK, EndRequest
<1> QED BY <1>1, <1>2, FrameStates, Zenon DEF IInv, EndRequest

(* A state read now is a snapshot of the stored one. *)
LEMMA CurrentSnapshot ==
    ASSUME IInv, NEW r \in Rules
    PROVE  state[r] \in States /\ Snapshot(r, state[r])
BY DEF IInv, TypeOK, StatesWellFormed, Snapshot, SnapshotOf, States

(* What an eventually consistent read of a rule may return is a view of it. *)
LEMMA ReadableType ==
    ASSUME IInv, NEW r \in Rules, NEW view \in Readable(r) PROVE view \in Views
BY SMTT(30) DEF IInv, TypeOK, Readable, ViewOf, Views, RuleItems

(* The reads of resolve_event keep the invariant. *)
LEMMA BeginResolveKeeps ==
    ASSUME IInv, NEW c \in Clients, NEW e \in DOMAIN events, BeginResolve(c, e) PROVE IInv'
<1> DEFINE wr == state[e.rule].mode = "active" /\ state[e.rule].active = e
           v == [pc |-> "resolve", event |-> e, expected |-> events[e].version,
                 writesState |-> wr, snap |-> state[e.rule]]
<1>1. e \in EventIds /\ e.rule \in Rules /\ events[e] \in Events
  BY Zenon DEF IInv, TypeOK, EventIds
<1>2. events[e].version \in Nat /\ events[e].status \in ActiveStatuses
  BY <1>1, Zenon DEF Events, BeginResolve, Statuses, ActiveStatuses
<1>3. e \in Unresolved(e.rule)
  BY <1>1, <1>2, Zenon DEF Unresolved, EventsOf
<1>4. state[e.rule].mode = "active" /\ state[e.rule].active = e
  BY <1>1, <1>3, Zenon DEF IInv, IncidentMatchesState
<1>5. state[e.rule] \in States /\ Snapshot(e.rule, state[e.rule])
  BY <1>1, CurrentSnapshot, Zenon
<1>6. wr = TRUE
  BY <1>4, Zenon
<1>7. client' = [client EXCEPT ![c] = v]
  BY Zenon DEF BeginResolve
<1> HIDE DEF wr
<1>8. v \in ClientStates /\ v.pc = "resolve" /\ v.event = e /\ v.writesState
      /\ v.snap = state[e.rule]
  BY <1>1, <1>2, <1>5, <1>6, ZenonT(30) DEF ClientStates
<1> HIDE DEF v
<1>9. client' \in [Clients -> ClientStates]
  BY <1>7, <1>8, Zenon DEF IInv, TypeOK
<1>10. ClientSnapshots'
  <2>1. /\ state' = state /\ events' = events
        /\ client'[c] = v /\ \A d \in Clients \ {c} : client'[d] = client[d]
    BY <1>7, ZenonT(30) DEF IInv, TypeOK, BeginResolve
  <2> DEFINE Holds(x) ==
               /\ x.pc \in {"update", "replace"} => SnapshotOf(x.rule, x.snap, state[x.rule])
               /\ x.pc = "resolve" =>
                    /\ SnapshotOf(x.event.rule, x.snap, state[x.event.rule])
                    /\ x.event \in DOMAIN events
                    /\ x.writesState
                    /\ x.snap.mode = "active"
                    /\ x.snap.active = x.event
  <2>2. \A d \in Clients : Holds(client[d])
    BY Zenon DEF IInv, ClientSnapshots, Snapshot
  <2>3. Holds(v)
    BY <1>4, <1>5, <1>8, Zenon DEF Snapshot
  <2> HIDE DEF Holds
  <2>4. \A d \in Clients : Holds(client'[d])
    BY <2>1, <2>2, <2>3, Zenon
  <2> QED BY <2>1, <2>4, Zenon DEF Holds, ClientSnapshots, Snapshot
<1>11. TypeOK'
  BY <1>9, Zenon DEF IInv, TypeOK, BeginResolve
<1> QED BY <1>10, <1>11, FrameStates, ZenonT(30) DEF IInv, BeginResolve

(* The reads of update_rule keep the invariant. *)
LEMMA BeginUpdateKeeps ==
    ASSUME IInv, NEW c \in Clients, NEW r \in Rules, NEW patch \in Patches,
           BeginUpdate(c, r, patch)
    PROVE  IInv'
<1>1. PICK view \in Readable(r), due \in NextCompleteSlot(now) :
        client' = [client EXCEPT ![c] =
                     [pc |-> "update", rule |-> r, expected |-> rule[r].version,
                      patch |-> patch, view |-> view, due |-> due, snap |-> state[r]]]
  BY Zenon DEF BeginUpdate
<1> DEFINE v == [pc |-> "update", rule |-> r, expected |-> rule[r].version,
                 patch |-> patch, view |-> view, due |-> due, snap |-> state[r]]
<1>2. view \in Views /\ due \in Nat /\ rule[r].version \in Nat
  BY ReadableType DEF IInv, TypeOK, NextCompleteSlot, RuleItems
<1>3. state[r] \in States /\ Snapshot(r, state[r])
  BY CurrentSnapshot, Zenon
<1>4. v \in ClientStates /\ v.pc = "update" /\ v.rule = r /\ v.snap = state[r]
  BY <1>2, <1>3, Zenon DEF ClientStates
<1>5. client' = [client EXCEPT ![c] = v]
  BY <1>1, Zenon
<1> HIDE DEF v
<1>6. client' \in [Clients -> ClientStates]
  BY <1>4, <1>5, Zenon DEF IInv, TypeOK
<1>7. ClientSnapshots'
  BY <1>3, <1>4, <1>5, Zenon DEF IInv, TypeOK, ClientSnapshots, Snapshot, BeginUpdate
<1>8. TypeOK'
  BY <1>6, Zenon DEF IInv, TypeOK, BeginUpdate
<1> QED BY <1>7, <1>8, FrameStates, Zenon DEF IInv, BeginUpdate

(* The reads of replace_rule keep the invariant. *)
LEMMA BeginReplaceKeeps ==
    ASSUME IInv, NEW c \in Clients, NEW r \in Rules, NEW by \in Rules,
           NEW def \in Definitions, NEW key \in Keys, BeginReplace(c, r, by, def, key)
    PROVE  IInv'
<1>1. PICK view \in Readable(r), due \in NextCompleteSlot(now) :
        client' = [client EXCEPT ![c] =
                     [pc |-> "replace", rule |-> r, expected |-> rule[r].version, by |-> by,
                      def |-> def, key |-> key, view |-> view, due |-> due, snap |-> state[r]]]
  BY ZenonT(30) DEF BeginReplace
<1> DEFINE v == [pc |-> "replace", rule |-> r, expected |-> rule[r].version, by |-> by,
                 def |-> def, key |-> key, view |-> view, due |-> due, snap |-> state[r]]
<1>2. view \in Views /\ due \in Nat /\ rule[r].version \in Nat
  BY ReadableType DEF IInv, TypeOK, NextCompleteSlot, RuleItems
<1>3. state[r] \in States /\ Snapshot(r, state[r])
  BY CurrentSnapshot, Zenon
<1>4. v \in ClientStates /\ v.pc = "replace" /\ v.rule = r /\ v.snap = state[r]
  BY <1>2, <1>3, Zenon DEF ClientStates
<1>5. client' = [client EXCEPT ![c] = v]
  BY <1>1, Zenon
<1> HIDE DEF v
<1>6. client' \in [Clients -> ClientStates]
  BY <1>4, <1>5, Zenon DEF IInv, TypeOK
<1>7. ClientSnapshots'
  BY <1>3, <1>4, <1>5, Zenon DEF IInv, TypeOK, ClientSnapshots, Snapshot, BeginReplace
<1>8. TypeOK'
  BY <1>6, ZenonT(30) DEF IInv, TypeOK, BeginReplace
<1> QED BY <1>7, <1>8, FrameStates, Zenon DEF IInv, BeginReplace

-----------------------------------------------------------------------------
(* Steps that write events and no state: the event stays unresolved. *)

(* A step that changes no state and ends or opens no event keeps the incident part of the
   invariant. *)
LEMMA FrameUnresolved ==
    ASSUME IInv, state' = state, DOMAIN events' = DOMAIN events,
           \A e \in DOMAIN events :
             events'[e].status \in ActiveStatuses <=> events[e].status \in ActiveStatuses
    PROVE  /\ StatesWellFormed' /\ IncidentMatchesState'
           /\ worker' = worker => WorkerSnapshots'
           /\ client' = client => ClientSnapshots'
<1>1. \A r : Unresolved(r)' = Unresolved(r)
  BY Zenon DEF Unresolved, EventsOf
<1>2. StatesWellFormed' /\ IncidentMatchesState'
  BY <1>1, Zenon DEF IInv, StatesWellFormed, WellFormed, IncidentMatchesState
<1> QED BY <1>2, Zenon DEF IInv, WorkerSnapshots, ClientSnapshots, Snapshot

(* Acknowledging an event keeps the invariant: it stays unresolved. *)
LEMMA AcknowledgeKeeps ==
    ASSUME IInv, NEW e \in DOMAIN events, Acknowledge(e) PROVE IInv'
<1>1. events[e] \in Events
  BY Zenon DEF IInv, TypeOK
<1> DEFINE n == events[e].version + 1
           v == [events[e] EXCEPT !.status = "acknowledged", !.version = n]
<1>0. n \in Nat
  BY <1>1 DEF Events
<1> HIDE DEF n
<1>2. v \in Events /\ v.status = "acknowledged"
  BY <1>0, <1>1, Zenon DEF Events, Statuses, ActiveStatuses
<1> USE DEF n
<1>3. events' = [events EXCEPT ![e] = v] /\ state' = state /\ worker' = worker /\ client' = client
  BY Zenon DEF Acknowledge
<1>4. events[e].status \in ActiveStatuses /\ v.status \in ActiveStatuses
  BY <1>2, Zenon DEF Acknowledge, ActiveStatuses
<1> HIDE DEF v
<1>5. TypeOK'
  BY <1>2, <1>3, Zenon DEF IInv, TypeOK, Acknowledge
<1> QED BY <1>3, <1>4, <1>5, FrameUnresolved, Zenon DEF IInv

(* The active-index backfill keeps the invariant. *)
LEMMA BackfillActiveAlertIndexKeeps ==
    ASSUME IInv, NEW e \in DOMAIN events, BackfillActiveAlertIndex(e) PROVE IInv'
<1>1. events[e] \in Events
  BY Zenon DEF IInv, TypeOK
<1> DEFINE v == [events[e] EXCEPT !.indexed = TRUE]
<1>2. v \in Events /\ v.status = events[e].status
  BY <1>1, Zenon DEF Events
<1>3. events' = [events EXCEPT ![e] = v] /\ state' = state /\ worker' = worker /\ client' = client
  BY Zenon DEF BackfillActiveAlertIndex
<1> HIDE DEF v
<1>4. TypeOK'
  BY <1>2, <1>3, ZenonT(30) DEF IInv, TypeOK, BackfillActiveAlertIndex
<1> QED BY <1>2, <1>3, <1>4, FrameUnresolved, Zenon DEF IInv

-----------------------------------------------------------------------------
(* Steps that write a state item: its revision grows, so every snapshot    *)
(* taken before is an older one afterwards.                                *)

Advances(old, new) == new = old \/ new.rev = old.rev + 1

(* A snapshot stays one when the stored state only moves to a higher revision. *)
LEMMA SnapshotAdvances ==
    ASSUME NEW r, NEW snap \in States, NEW old \in States, NEW new \in States,
           SnapshotOf(r, snap, old), Advances(old, new)
    PROVE  SnapshotOf(r, snap, new)
BY DEF SnapshotOf, Advances, States

(* Workers keep valid snapshots when states only advance and some workers go idle. *)
LEMMA WorkersAdvance ==
    ASSUME IInv, state' \in [Rules -> States], \A q \in Rules : Advances(state[q], state'[q]),
           NEW busy \in SUBSET Workers, worker' \in [Workers -> WorkerStates],
           \A w \in Workers : worker'[w] = IF w \in busy THEN worker[w] ELSE Idle
    PROVE  WorkerSnapshots'
<1> SUFFICES ASSUME NEW w \in Workers, worker'[w].pc = "loaded"
             PROVE  SnapshotOf(worker'[w].rule, worker'[w].snap, state'[worker'[w].rule])
  BY Zenon DEF WorkerSnapshots, Snapshot
<1>1. worker'[w] = worker[w]
  BY SMTT(30) DEF Idle
<1>2. worker[w].rule \in Rules /\ worker[w].snap \in States
  BY <1>1, WorkerFields, Zenon DEF IInv
<1>3. SnapshotOf(worker[w].rule, worker[w].snap, state[worker[w].rule])
  BY <1>1, Zenon DEF IInv, WorkerSnapshots, Snapshot
<1>4. state[worker[w].rule] \in States
  BY <1>2, Zenon DEF IInv, TypeOK
<1> QED BY <1>1, <1>2, <1>3, <1>4, SnapshotAdvances, Zenon

(* The same when no worker moves. *)
LEMMA WorkersUnmoved ==
    ASSUME IInv, state' \in [Rules -> States], \A q \in Rules : Advances(state[q], state'[q]),
           worker' = worker
    PROVE  WorkerSnapshots'
<1>1. \A w \in Workers : worker'[w] = IF w \in Workers THEN worker[w] ELSE Idle
  BY Zenon
<1>2. worker' \in [Workers -> WorkerStates]
  BY Zenon DEF IInv, TypeOK
<1> QED BY <1>1, <1>2, WorkersAdvance, Zenon

(* Requests keep valid snapshots when states only advance and some requests end. *)
LEMMA ClientsAdvance ==
    ASSUME IInv, state' \in [Rules -> States], \A q \in Rules : Advances(state[q], state'[q]),
           DOMAIN events \subseteq DOMAIN events',
           NEW busy \in SUBSET Clients, client' \in [Clients -> ClientStates],
           \A c \in Clients : client'[c] = IF c \in busy THEN client[c] ELSE Idle
    PROVE  ClientSnapshots'
<1> SUFFICES ASSUME NEW c \in Clients, client'[c].pc # "idle"
             PROVE  /\ client'[c].pc \in {"update", "replace"} =>
                         SnapshotOf(client'[c].rule, client'[c].snap, state'[client'[c].rule])
                    /\ client'[c].pc = "resolve" =>
                         /\ SnapshotOf(client'[c].event.rule, client'[c].snap,
                                       state'[client'[c].event.rule])
                         /\ client'[c].event \in DOMAIN events'
                         /\ client'[c].writesState
                         /\ client'[c].snap.mode = "active"
                         /\ client'[c].snap.active = client'[c].event
  BY Zenon DEF ClientSnapshots, Snapshot
<1>1. client'[c] = client[c]
  BY DEF Idle
<1>2. CASE client[c].pc \in {"update", "replace"}
  <2>1. client[c].rule \in Rules /\ client[c].snap \in States
    BY <1>2, ClientFields, Zenon DEF IInv
  <2>2. SnapshotOf(client[c].rule, client[c].snap, state[client[c].rule])
    BY <1>2, Zenon DEF IInv, ClientSnapshots, Snapshot
  <2>3. state[client[c].rule] \in States
    BY <2>1, Zenon DEF IInv, TypeOK
  <2> QED BY <1>1, <1>2, <2>1, <2>2, <2>3, SnapshotAdvances, Zenon
<1>3. CASE client[c].pc = "resolve"
  <2>1. client[c].event.rule \in Rules /\ client[c].snap \in States
    BY <1>3, ClientFields, Zenon DEF IInv, EventIds
  <2>2. /\ SnapshotOf(client[c].event.rule, client[c].snap, state[client[c].event.rule])
        /\ client[c].event \in DOMAIN events
        /\ client[c].writesState
        /\ client[c].snap.mode = "active"
        /\ client[c].snap.active = client[c].event
    BY <1>3, Zenon DEF IInv, ClientSnapshots, Snapshot
  <2>3. state[client[c].event.rule] \in States
    BY <2>1, Zenon DEF IInv, TypeOK
  <2> QED BY <1>1, <1>3, <2>1, <2>2, <2>3, SnapshotAdvances, Zenon
<1> QED BY <1>1, <1>2, <1>3, ZenonT(30)

(* The same when one request commits and ends. *)
LEMMA ClientCommits ==
    ASSUME IInv, state' \in [Rules -> States], \A q \in Rules : Advances(state[q], state'[q]),
           DOMAIN events \subseteq DOMAIN events',
           NEW c \in Clients, client' = [client EXCEPT ![c] = Idle]
    PROVE  client' \in [Clients -> ClientStates] /\ ClientSnapshots'
<1>1. \A x \in Clients : client'[x] = IF x \in Clients \ {c} THEN client[x] ELSE Idle
  BY Zenon DEF IInv, TypeOK
<1>2. client' \in [Clients -> ClientStates]
  BY Zenon DEF IInv, TypeOK, ClientStates
<1> QED BY <1>1, <1>2, ClientsAdvance, Zenon

(* One rule's state item is rewritten together with at most one of its events. *)
LEMMA IncidentWritten ==
    ASSUME IInv, NEW r \in Rules, NEW n \in States, state' = [state EXCEPT ![r] = n],
           NEW e, e \in DOMAIN events \cup DOMAIN events' => e.rule = r,
           \A f : f # e => /\ f \in DOMAIN events' <=> f \in DOMAIN events
                           /\ f \in DOMAIN events => events'[f] = events[f],
           Unresolved(r)' = IF n.mode = "active" THEN {n.active} ELSE {}
    PROVE  IncidentMatchesState'
<1> SUFFICES ASSUME NEW q \in Rules
             PROVE  Unresolved(q)' = IF state'[q].mode = "active" THEN {state'[q].active} ELSE {}
  BY Zenon DEF IncidentMatchesState
<1>1. CASE q = r
  BY <1>1, Zenon DEF IInv, TypeOK
<1>2. CASE q # r
  <2>1. \A f : f \in EventsOf(q)' <=> f \in EventsOf(q)
    BY <1>2 DEF EventsOf
  <2>2. \A f \in EventsOf(q) : events'[f] = events[f]
    BY <1>2, Zenon DEF EventsOf
  <2>3. Unresolved(q)' = Unresolved(q)
    BY <2>1, <2>2, Zenon DEF Unresolved
  <2>4. state'[q] = state[q]
    BY <1>2, Zenon DEF IInv, TypeOK
  <2> QED BY <2>3, <2>4, Zenon DEF IInv, IncidentMatchesState
<1> QED BY <1>1, <1>2, Zenon

(* Writing a well-formed state under the next revision only advances states. *)
LEMMA StateWritten ==
    ASSUME IInv, NEW r \in Rules, NEW n \in States, WellFormed(r, n),
           n.rev = state[r].rev + 1 \/ n = state[r], state' = [state EXCEPT ![r] = n]
    PROVE  /\ state' \in [Rules -> States]
           /\ StatesWellFormed'
           /\ \A q \in Rules : Advances(state[q], state'[q])
BY Zenon DEF IInv, TypeOK, StatesWellFormed, WellFormed, Advances

(* A resolved event is an event with status resolved. *)
LEMMA ResolutionType ==
    ASSUME NEW event \in Events, NEW reason \in {"recovered", "manual", "administrative"}
    PROVE  Resolution(event, reason) \in Events /\ Resolution(event, reason).status = "resolved"
<1> DEFINE version == event.version + 1
<1>1. version \in Nat
  BY DEF Events
<1>2. Resolution(event, reason) =
        [event EXCEPT !.status = "resolved", !.version = version, !.indexed = FALSE,
                      !.reason = reason]
  BY Zenon DEF Resolution, Events
<1> HIDE DEF version
<1> QED BY <1>1, <1>2, Zenon DEF Events, Statuses, ActiveStatuses

(* Ending the incident that a rule's state names. *)
LEMMA EventResolved ==
    ASSUME IInv, NEW r \in Rules, NEW e, state[r].mode = "active", state[r].active = e,
           NEW reason \in {"recovered", "manual", "administrative"},
           events' = [events EXCEPT ![e] = Resolution(@, reason)]
    PROVE  /\ DOMAIN events' = DOMAIN events
           /\ e \in DOMAIN events /\ e.rule = r
           /\ \A f \in DOMAIN events' : events'[f] \in Events
           /\ \A f : f # e /\ f \in DOMAIN events => events'[f] = events[f]
           /\ Unresolved(r)' = {}
<1>1. Unresolved(r) = {e}
  BY Zenon DEF IInv, IncidentMatchesState
<1>2. e \in DOMAIN events /\ e.rule = r
  BY <1>1, Zenon DEF Unresolved, EventsOf
<1>3. DOMAIN events' = DOMAIN events
  BY Zenon
<1>4. events[e] \in Events
  BY <1>2, Zenon DEF IInv, TypeOK
<1> DEFINE v == Resolution(events[e], reason)
<1>5. v \in Events /\ v.status = "resolved"
  BY <1>4, ResolutionType, Zenon
<1>6. events'[e] = v /\ \A f \in DOMAIN events : f # e => events'[f] = events[f]
  BY <1>2, Zenon
<1> HIDE DEF v
<1>7. \A f \in DOMAIN events' : events'[f] \in Events
  BY <1>3, <1>5, <1>6, Zenon DEF IInv, TypeOK
<1>8. \A f : f \notin Unresolved(r)'
  <2> SUFFICES ASSUME NEW f, f \in Unresolved(r)' PROVE FALSE
    BY Zenon
  <2>1. f \in DOMAIN events /\ f.rule = r /\ events'[f].status \in ActiveStatuses
    BY <1>3, Zenon DEF Unresolved, EventsOf
  <2>2. f # e
    BY <1>5, <1>6, <2>1, Zenon DEF ActiveStatuses
  <2>3. f \in Unresolved(r)
    BY <1>6, <2>1, <2>2, Zenon DEF Unresolved, EventsOf
  <2> QED BY <1>1, <2>2, <2>3, Zenon
<1> QED BY <1>2, <1>3, <1>6, <1>7, <1>8, Zenon

(* Opening an incident of a rule that has none. *)
LEMMA EventOpened ==
    ASSUME IInv, NEW r \in Rules, NEW e \in EventIds, e.rule = r, e \notin DOMAIN events,
           state[r].mode # "active", NEW v \in Events, v.status \in ActiveStatuses,
           events' = With(events, e, v)
    PROVE  /\ DOMAIN events' = DOMAIN events \cup {e}
           /\ \A f \in DOMAIN events' : events'[f] \in Events
           /\ \A f : f # e /\ f \in DOMAIN events => events'[f] = events[f]
           /\ Unresolved(r)' = {e}
<1>1. Unresolved(r) = {}
  BY Zenon DEF IInv, IncidentMatchesState
<1>2. /\ DOMAIN events' = DOMAIN events \cup {e}
      /\ events'[e] = v
      /\ \A f \in DOMAIN events : events'[f] = events[f]
  BY Zenon DEF With
<1>3. \A f \in DOMAIN events' : events'[f] \in Events
  BY <1>2, Zenon DEF IInv, TypeOK
<1>4. \A f : f \in Unresolved(r)' <=> f = e
  BY <1>1, <1>2, Zenon DEF Unresolved, EventsOf
<1> QED BY <1>2, <1>3, <1>4, Zenon

(* The evaluator's commit transaction keeps the invariant: it writes state, event and
   outboxes together, under the revision it read. *)
LEMMA CommitKeeps ==
    ASSUME IInv, NEW w \in Workers, NEW result \in Results, Commit(w, result)
    PROVE  IInv'
<1> DEFINE wk == worker[w]
           ev == [slot |-> wk.slot, result |-> result,
                  missed |-> MissedSlots(wk.work.nextDue, wk.slot)]
           d == Evaluated(wk, result)
           n == [d.next EXCEPT !.rev = wk.snap.rev + 1]
<1>0. wk.rule \in Rules /\ wk.slot \in Nat /\ wk.work \in Works /\ wk.snap \in States
  BY WorkerFields, Zenon DEF IInv, Commit
<1>1. PICK r \in Rules : r = wk.rule
  BY <1>0, Zenon
<1>2. SnapshotOf(r, wk.snap, state[r])
  BY <1>1, Zenon DEF IInv, WorkerSnapshots, Snapshot, Commit
<1>3. wk.snap = state[r] /\ state[r] \in States
  BY <1>0, <1>1, <1>2, Zenon DEF SnapshotOf, Commit, Writable, IInv, TypeOK
<1>4. Outcome(r, wk.snap, d)
  <2>1. ev.slot \in Nat /\ ev.result \in Results
    BY <1>0, Zenon
  <2>2. d = Decide(r, wk.work, wk.snap, ev)
    BY <1>1, Zenon DEF Evaluated
  <2>3. WellFormed(r, wk.snap)
    BY <1>2, Zenon DEF SnapshotOf
  <2> HIDE DEF ev, d, wk
  <2> QED BY <1>0, <2>1, <2>2, <2>3, DecideOutcome, Zenon
<1>5. /\ Writable(r, wk.snap, d)
      /\ rule' = [rule EXCEPT ![r].nextDue = wk.slot + 1, ![r].owner = NoOwner, ![r].live = FALSE]
      /\ state' = [state EXCEPT ![r] = n]
      /\ events' = CommittedEvents(r, wk, d)
      /\ outboxes' = outboxes \cup d.outboxes
      /\ breaches' = IF result = "breach"
                     THEN breaches \cup {<<r, wk.slot, rule[r].gen>>} ELSE breaches
      /\ worker' = [worker EXCEPT ![w] = Idle]
      /\ now' = now /\ views' = views /\ replays' = replays /\ client' = client /\ faults' = faults
  BY <1>1, Zenon DEF Commit
<1>6. d.next \in States
  BY <1>4, Zenon DEF Outcome
<1> HIDE DEF d
<1>7. n \in States /\ n.mode = d.next.mode /\ n.active = d.next.active
      /\ n.rev = state[r].rev + 1
  BY <1>3, <1>6 DEF States
<1>8. WellFormed(r, n)
  BY <1>4, <1>7, Zenon DEF Outcome, WellFormed
<1> HIDE DEF n
<1>9. rule[r] \in RuleItems /\ rule[r].gen \in Nat
  BY <1>1, Zenon DEF IInv, TypeOK, RuleItems
<1>10. /\ DOMAIN events' \subseteq EventIds
       /\ DOMAIN events \subseteq DOMAIN events'
       /\ \A f \in DOMAIN events' : events'[f] \in Events
       /\ IncidentMatchesState'
  <2>1. CASE d.transition \in {"opened", "suppressed"}
    <3> DEFINE status == d.next.activeStatus
               v == EventItem(rule[r], status, d.transition = "opened", d.next.source, wk.slot)
    <3>1. /\ status \in ActiveStatuses
          /\ d.event \in EventIds /\ d.event.rule = r
          /\ n.mode = "active" /\ n.active = d.event /\ state[r].mode # "active"
      BY <1>3, <1>4, <1>7, <2>1, Zenon DEF Outcome, ActiveStatuses
    <3>2. d.event \notin DOMAIN events
      BY <1>5, <2>1, Zenon DEF Writable
    <3>3. d.next.source \in EventIds \cup {NoEvent}
      BY <1>6, Zenon DEF States
    <3>4. v \in Events /\ v.status = status
      <4>1. status \in Statuses /\ wk.slot \in Nat /\ rule[r] \in RuleItems
        BY <1>0, <1>9, <3>1, Zenon DEF Statuses
      <4> HIDE DEF status, wk
      <4>2. \A indexed \in BOOLEAN :
              LET item == EventItem(rule[r], status, indexed, d.next.source, wk.slot)
              IN  item \in Events /\ item.status = status
        BY <3>3, <4>1, EventItemType, ZenonT(40)
      <4> QED BY <4>2, Zenon
    <3>5. events' = With(events, d.event, v)
      BY <1>5, <2>1, Zenon DEF CommittedEvents
    <3> HIDE DEF v, status, wk
    <3>6. /\ DOMAIN events' = DOMAIN events \cup {d.event}
          /\ \A f \in DOMAIN events' : events'[f] \in Events
          /\ \A f : f # d.event /\ f \in DOMAIN events => events'[f] = events[f]
          /\ Unresolved(r)' = {d.event}
      BY <1>1, <3>1, <3>2, <3>4, <3>5, EventOpened, Zenon
    <3>7. IncidentMatchesState'
      <4>1. \A f : f # d.event => /\ f \in DOMAIN events' <=> f \in DOMAIN events
                                  /\ f \in DOMAIN events => events'[f] = events[f]
        BY <3>6, Zenon
      <4>2. Unresolved(r)' = IF n.mode = "active" THEN {n.active} ELSE {}
        BY <3>1, <3>6, Zenon
      <4>3. state' = [state EXCEPT ![r] = n]
        BY <1>5, Zenon
      <4> QED BY <1>7, <3>1, <4>1, <4>2, <4>3, IncidentWritten, Zenon
    <3> QED BY <3>1, <3>6, <3>7, Zenon DEF IInv, TypeOK
  <2>2. CASE d.transition = "recovered"
    <3>1. state[r].mode = "active" /\ state[r].active = d.event /\ n.mode # "active"
      BY <1>3, <1>4, <1>7, <2>2, Zenon DEF Outcome
    <3>2. events' = [events EXCEPT ![d.event] = Resolution(@, "recovered")]
      BY <1>5, <2>2, Zenon DEF CommittedEvents
    <3> HIDE DEF wk
    <3>3. /\ DOMAIN events' = DOMAIN events
          /\ d.event \in DOMAIN events /\ d.event.rule = r
          /\ \A f \in DOMAIN events' : events'[f] \in Events
          /\ \A f : f # d.event /\ f \in DOMAIN events => events'[f] = events[f]
          /\ Unresolved(r)' = {}
      BY <1>1, <3>1, <3>2, EventResolved, Zenon
    <3>4. IncidentMatchesState'
      BY <1>1, <1>5, <1>7, <3>1, <3>3, IncidentWritten, ZenonT(30)
    <3> QED BY <3>3, <3>4, Zenon DEF IInv, TypeOK
  <2>3. CASE d.transition = "none"
    <3>1. (n.mode = "active" <=> state[r].mode = "active") /\ n.active = state[r].active
      BY <1>3, <1>4, <1>7, <2>3, Zenon DEF Outcome
    <3>2. events' = events
      BY <1>5, <2>3, Zenon DEF CommittedEvents
    <3> HIDE DEF wk
    <3>3. \A q \in Rules : Unresolved(q)' = Unresolved(q)
      BY <3>2, Zenon DEF Unresolved, EventsOf
    <3>4. IncidentMatchesState'
      BY <1>1, <1>5, <3>1, <3>3, Zenon DEF IInv, TypeOK, IncidentMatchesState
    <3> QED BY <3>2, <3>4, Zenon DEF IInv, TypeOK
  <2> QED BY <1>4, <2>1, <2>2, <2>3, Zenon DEF Outcome
<1>11. state' \in [Rules -> States] /\ StatesWellFormed'
       /\ \A q \in Rules : Advances(state[q], state'[q])
  BY <1>1, <1>5, <1>7, <1>8, StateWritten, Zenon
<1>12. worker' \in [Workers -> WorkerStates]
  BY <1>5, Zenon DEF IInv, TypeOK, WorkerStates
<1>13. WorkerSnapshots'
  <2>1. \A x \in Workers : worker'[x] = IF x \in Workers \ {w} THEN worker[x] ELSE Idle
    BY <1>5, Zenon DEF IInv, TypeOK
  <2> QED BY <1>11, <1>12, <2>1, WorkersAdvance, Zenon
<1>14. ClientSnapshots'
  <2>1. \A x \in Clients : client'[x] = IF x \in Clients THEN client[x] ELSE Idle
    BY <1>5, Zenon
  <2>2. client' \in [Clients -> ClientStates]
    BY <1>5, Zenon DEF IInv, TypeOK
  <2> QED BY <1>10, <1>11, <2>1, <2>2, ClientsAdvance, Zenon
<1>15. rule' \in [Rules -> RuleItems]
  <2> DEFINE due == wk.slot + 1
             item == [rule[r] EXCEPT !.nextDue = due, !.owner = NoOwner, !.live = FALSE]
  <2>1. due \in Nat
    BY <1>0
  <2>2. rule' = [rule EXCEPT ![r] = item]
    BY <1>5, Zenon DEF IInv, TypeOK
  <2> HIDE DEF due
  <2>3. item \in RuleItems
    BY <1>9, <2>1, Zenon DEF RuleItems
  <2> HIDE DEF item
  <2> QED BY <2>2, <2>3, Zenon DEF IInv, TypeOK
<1>16. breaches' \subseteq Rules \X Int \X Nat
  BY <1>0, <1>5, <1>9 DEF IInv, TypeOK
<1>17. outboxes' \subseteq OutboxIds
  BY <1>4, <1>5, Zenon DEF IInv, TypeOK, Outcome
<1>18. TypeOK'
  BY <1>5, <1>10, <1>11, <1>12, <1>15, <1>16, <1>17, Zenon DEF IInv, TypeOK
<1> QED BY <1>10, <1>11, <1>13, <1>14, <1>18, Zenon DEF IInv

(* What the API writes when it ends an incident. *)
LEMMA RewrittenType ==
    ASSUME NEW next \in States, NEW snap \in States
    PROVE  /\ Rewritten(next, snap) \in States
           /\ Rewritten(next, snap).mode = next.mode
           /\ Rewritten(next, snap).active = next.active
           /\ Rewritten(next, snap).rev = snap.rev + 1
<1> DEFINE rev == snap.rev + 1
<1>1. rev \in Nat
  BY DEF States
<1>2. Rewritten(next, snap) = [next EXCEPT !.rev = rev]
  BY Zenon DEF Rewritten
<1> HIDE DEF rev
<1>3. Rewritten(next, snap).rev = rev
  BY <1>2, Zenon DEF States
<1> QED BY <1>1, <1>2, <1>3, Zenon DEF States, rev

(* The state a manual resolution leaves is healthy and names no event. *)
LEMMA ResolvedStateType ==
    ASSUME NEW s \in States
    PROVE  /\ ResolvedState(s) \in States
           /\ ResolvedState(s).mode = "healthy" /\ ResolvedState(s).active = NoEvent
<1>1. Cleared(s) \in States /\ Cleared(s).mode = "healthy" /\ Cleared(s).active = NoEvent
  BY Zenon DEF Cleared, States, Modes
<1> QED BY <1>1, ZenonT(30) DEF ResolvedState, States

(* The transaction of resolve_event keeps the invariant: it writes event and state together. *)
LEMMA CommitResolveKeeps ==
    ASSUME IInv, NEW c \in Clients, CommitResolve(c)
    PROVE  IInv'
<1> DEFINE q == client[c]
           n == Rewritten(ResolvedState(q.snap), q.snap)
<1>1. q.event \in EventIds /\ q.snap \in States
  BY ClientFields, Zenon DEF IInv, CommitResolve
<1>2. PICK e \in EventIds : e = q.event
  BY <1>1, Zenon
<1>3. e.rule \in Rules
  BY Zenon DEF EventIds
<1>4. PICK r \in Rules : r = e.rule
  BY <1>3, Zenon
<1>5. /\ SnapshotOf(r, q.snap, state[r])
      /\ q.writesState /\ q.snap.mode = "active" /\ q.snap.active = e
  BY <1>2, <1>4, ZenonT(30) DEF IInv, ClientSnapshots, Snapshot, CommitResolve
<1>6. /\ events' = [events EXCEPT ![e] = Resolution(@, "manual")]
      /\ state' = [state EXCEPT ![r] = n]
      /\ state[r].rev = q.snap.rev
      /\ client' = [client EXCEPT ![c] = Idle]
      /\ UNCHANGED <<now, rule, views, outboxes, replays, worker, breaches, faults>>
  BY <1>2, <1>4, <1>5, ZenonT(30) DEF CommitResolve
<1>7. q.snap = state[r]
  BY <1>5, <1>6, ZenonT(30) DEF SnapshotOf
<1> HIDE DEF q
<1>8. n \in States /\ n.mode = "healthy" /\ n.active = NoEvent /\ n.rev = state[r].rev + 1
  <2>1. /\ ResolvedState(q.snap) \in States
        /\ ResolvedState(q.snap).mode = "healthy" /\ ResolvedState(q.snap).active = NoEvent
    BY <1>1, ResolvedStateType, Zenon
  <2>2. /\ n \in States /\ n.mode = ResolvedState(q.snap).mode
        /\ n.active = ResolvedState(q.snap).active /\ n.rev = q.snap.rev + 1
    BY <1>1, <2>1, RewrittenType, Zenon
  <2> QED BY <1>7, <2>1, <2>2, Zenon
<1> HIDE DEF n
<1>9. /\ DOMAIN events' = DOMAIN events
      /\ e \in DOMAIN events /\ e.rule = r
      /\ \A f \in DOMAIN events' : events'[f] \in Events
      /\ \A f : f # e /\ f \in DOMAIN events => events'[f] = events[f]
      /\ Unresolved(r)' = {}
  <2>1. state[r].mode = "active" /\ state[r].active = e
    BY <1>5, <1>7, Zenon
  <2> QED BY <1>6, <2>1, EventResolved, Zenon
<1>10. IncidentMatchesState'
  BY <1>6, <1>8, <1>9, IncidentWritten, Zenon
<1>11. state' \in [Rules -> States] /\ StatesWellFormed'
       /\ \A x \in Rules : Advances(state[x], state'[x])
  BY <1>6, <1>8, StateWritten, Zenon DEF WellFormed
<1>12. client' \in [Clients -> ClientStates] /\ ClientSnapshots'
  BY <1>6, <1>9, <1>11, ClientCommits, Zenon
<1>13. WorkerSnapshots'
  BY <1>6, <1>11, WorkersUnmoved, Zenon
<1>14. TypeOK'
  BY <1>6, <1>9, <1>11, <1>12, Zenon DEF IInv, TypeOK
<1> QED BY <1>10, <1>11, <1>12, <1>13, <1>14, Zenon DEF IInv

(* Ending the open incident of a rule that a PATCH or replace changes keeps the incident
   part of the invariant. *)
LEMMA AdministrativeResolutionKeeps ==
    ASSUME IInv, NEW r \in Rules, NEW snap \in States, SnapshotOf(r, snap, state[r]),
           NEW view, AdministrativeResolution(r, snap, view)
    PROVE  /\ state' \in [Rules -> States] /\ StatesWellFormed'
           /\ \A x \in Rules : Advances(state[x], state'[x])
           /\ DOMAIN events' = DOMAIN events
           /\ \A f \in DOMAIN events' : events'[f] \in Events
           /\ IncidentMatchesState'
<1> DEFINE n == AdministrativelyResolved(snap)
<1>1. snap = state[r]
  BY Zenon DEF AdministrativeResolution, SnapshotOf
<1>2. state' = [state EXCEPT ![r] = n]
  BY Zenon DEF AdministrativeResolution
<1>3. CASE snap.mode = "active"
  <2>1. n = Rewritten(ResolvedState(snap), snap)
    BY <1>3, Zenon DEF AdministrativelyResolved
  <2>2. /\ ResolvedState(snap) \in States
        /\ ResolvedState(snap).mode = "healthy" /\ ResolvedState(snap).active = NoEvent
    BY ResolvedStateType, Zenon
  <2>3. /\ n \in States /\ n.mode = ResolvedState(snap).mode
        /\ n.active = ResolvedState(snap).active /\ n.rev = snap.rev + 1
    BY <2>1, <2>2, RewrittenType, SMTT(30)
  <2> HIDE DEF n
  <2>4. WellFormed(r, n) /\ n.rev = state[r].rev + 1 /\ n.mode = "healthy"
    BY <1>1, <2>2, <2>3, Zenon DEF WellFormed
  <2>5. state[r].mode = "active" /\ state[r].active = snap.active
    BY <1>1, <1>3, Zenon
  <2>6. events' = [events EXCEPT ![snap.active] = Resolution(@, "administrative")]
    BY <1>3, Zenon DEF AdministrativeResolution
  <2>7. /\ DOMAIN events' = DOMAIN events
        /\ snap.active \in DOMAIN events /\ snap.active.rule = r
        /\ \A f \in DOMAIN events' : events'[f] \in Events
        /\ \A f : f # snap.active /\ f \in DOMAIN events => events'[f] = events[f]
        /\ Unresolved(r)' = {}
    BY <2>5, <2>6, EventResolved, Zenon
  <2>8. IncidentMatchesState'
    BY <1>2, <2>3, <2>4, <2>7, IncidentWritten, Zenon
  <2> QED BY <1>2, <2>3, <2>4, <2>7, <2>8, StateWritten, Zenon
<1>4. CASE snap.mode # "active"
  <2>1. events' = events
    BY <1>4, Zenon DEF AdministrativeResolution
  <2>2. /\ n \in States /\ n.mode # "active" /\ n.active = snap.active
        /\ n.rev = snap.rev + 1 \/ n = snap
    <3>1. CASE snap.mode = "pending"
      <4>1. n = Rewritten(ResetPending(snap), snap)
        BY <3>1, Zenon DEF AdministrativelyResolved
      <4>2. ResetPending(snap) \in States /\ ResetPending(snap).mode = "healthy"
            /\ ResetPending(snap).active = snap.active
        BY Zenon DEF ResetPending, States, Modes
      <4>3. /\ n \in States /\ n.mode = ResetPending(snap).mode
            /\ n.active = ResetPending(snap).active /\ n.rev = snap.rev + 1
        BY <4>1, <4>2, RewrittenType
      <4> QED BY <4>2, <4>3, Zenon
    <3>2. CASE snap.mode = "healthy"
      BY <3>2, Zenon DEF AdministrativelyResolved
    <3> QED BY <1>4, <3>1, <3>2, Zenon DEF States, Modes
  <2> HIDE DEF n
  <2>3. WellFormed(r, n)
    BY <1>4, <2>2, Zenon DEF WellFormed, SnapshotOf
  <2>4. \A x \in Rules : Unresolved(x)' = Unresolved(x)
    BY <2>1, Zenon DEF Unresolved, EventsOf
  <2>5. IncidentMatchesState'
    BY <1>1, <1>2, <1>4, <2>2, <2>4, Zenon DEF IInv, TypeOK, IncidentMatchesState
  <2> QED BY <1>1, <1>2, <2>1, <2>2, <2>3, <2>5, StateWritten, Zenon DEF IInv, TypeOK
<1> QED BY <1>3, <1>4, ZenonT(30)

(* Removing a rule's schedule leaves a rule item. *)
LEMMA UnscheduledType ==
    ASSUME NEW item \in RuleItems PROVE Unscheduled(item) \in RuleItems
BY Zenon DEF Unscheduled, RuleItems

(* Rescheduling a patched rule leaves a rule item. *)
LEMMA RescheduledType ==
    ASSUME NEW item \in RuleItems, NEW patch, NEW view, NEW due \in Nat
    PROVE  Rescheduled(item, patch, view, due) \in RuleItems
<1>1. [item EXCEPT !.nextDue = due, !.owner = NoOwner, !.live = FALSE] \in RuleItems
  BY Zenon DEF RuleItems
<1>2. Unscheduled(item) \in RuleItems
  BY UnscheduledType, Zenon
<1>3. \/ Rescheduled(item, patch, view, due) = item
      \/ Rescheduled(item, patch, view, due) =
           [item EXCEPT !.nextDue = due, !.owner = NoOwner, !.live = FALSE]
      \/ Rescheduled(item, patch, view, due) = Unscheduled(item)
  BY Zenon DEF Rescheduled
<1> QED BY <1>1, <1>2, <1>3, Zenon

(* A patched field has the type of the field. *)
LEMMA FieldType ==
    ASSUME NEW patch \in Patches, NEW item \in RuleItems
    PROVE  /\ Field(patch, "enabled", item.enabled) \in BOOLEAN
           /\ Field(patch, "duration", item.duration) \in Nat
           /\ Field(patch, "cooldown", item.cooldown) \in Nat
           /\ Field(patch, "channels", item.channels) \in SUBSET Channels
<1>1. /\ item.enabled \in BOOLEAN /\ item.duration \in Nat /\ item.cooldown \in Nat
      /\ item.channels \in SUBSET Channels
  BY Zenon DEF RuleItems
<1>2. /\ "enabled" \in DOMAIN patch => patch["enabled"] \in BOOLEAN
      /\ "duration" \in DOMAIN patch => patch["duration"] \in Nat
      /\ "cooldown" \in DOMAIN patch => patch["cooldown"] \in Nat
      /\ "channels" \in DOMAIN patch => patch["channels"] \in SUBSET Channels
  BY ParameterAssumption, Zenon
<1> QED BY <1>1, <1>2, Zenon DEF Field

(* The item update_rule writes is a rule item. *)
LEMMA UpdatedType ==
    ASSUME NEW item \in RuleItems, NEW patch \in Patches, NEW view \in Views, NEW due \in Nat
    PROVE  Updated(item, patch, view, due) \in RuleItems
<1> DEFINE a == Rescheduled(item, patch, view, due)
           enabled == Field(patch, "enabled", a.enabled)
           duration == Field(patch, "duration", a.duration)
           cooldown == Field(patch, "cooldown", a.cooldown)
           channels == Field(patch, "channels", a.channels)
           version == a.version + 1
           revision == view.revision + (IF SemanticChange(patch, view) THEN 1 ELSE 0)
           gen == a.gen + (IF SemanticChange(patch, item) THEN 1 ELSE 0)
           b == [a EXCEPT !.enabled = enabled, !.duration = duration, !.cooldown = cooldown]
<1>1. a \in RuleItems
  BY RescheduledType, Zenon
<1>2. Updated(item, patch, view, due) =
        [a EXCEPT !.enabled = enabled, !.duration = duration, !.cooldown = cooldown,
                  !.channels = channels, !.version = version, !.revision = revision, !.gen = gen]
  <2> HIDE DEF enabled, duration, cooldown, channels, version, revision, gen
  <2> QED BY Zenon DEF Updated, enabled, duration, cooldown, channels, version, revision, gen
<1> HIDE DEF a
<1>3. /\ enabled \in BOOLEAN /\ duration \in Nat /\ cooldown \in Nat
      /\ channels \in SUBSET Channels
  BY <1>1, FieldType, Zenon
<1>4. version \in Nat /\ revision \in Nat /\ gen \in Nat
  BY <1>1 DEF RuleItems, Views
<1> HIDE DEF enabled, duration, cooldown, channels, version, revision, gen
<1>5. Updated(item, patch, view, due) =
        [b EXCEPT !.channels = channels, !.version = version, !.revision = revision, !.gen = gen]
  BY <1>2, Zenon
<1>6. b \in RuleItems
  BY <1>1, <1>3, Zenon DEF RuleItems
<1> HIDE DEF b
<1> QED BY <1>3, <1>4, <1>5, <1>6, ZenonT(30) DEF RuleItems

(* The fields of a rule that a stale read may return form a view. *)
LEMMA ViewOfType ==
    ASSUME NEW item \in RuleItems PROVE ViewOf(item) \in Views
BY Zenon DEF ViewOf, Views, RuleItems

(* Remembering an old view keeps the remembered views well typed. *)
LEMMA RememberType ==
    ASSUME IInv, NEW r \in Rules, Remember(r, rule[r])
    PROVE  views' \in [Rules -> SUBSET Views]
<1>1. ViewOf(rule[r]) \in Views
  BY ViewOfType, Zenon DEF IInv, TypeOK
<1> QED BY <1>1, Zenon DEF Remember, IInv, TypeOK

(* The transaction of update_rule keeps the invariant. *)
LEMMA CommitUpdateKeeps ==
    ASSUME IInv, NEW c \in Clients, CommitUpdate(c)
    PROVE  IInv'
<1> DEFINE q == client[c]
<1>1. q.rule \in Rules /\ q.patch \in Patches /\ q.view \in Views /\ q.due \in Nat
      /\ q.snap \in States
  BY ClientFields, Zenon DEF IInv, CommitUpdate
<1>2. PICK r \in Rules : r = q.rule
  BY <1>1, Zenon
<1>3. PICK snap \in States : snap = q.snap
  BY <1>1, Zenon
<1>4. PICK view \in Views : view = q.view
  BY <1>1, Zenon
<1>5. SnapshotOf(r, snap, state[r])
  BY <1>2, <1>3, Zenon DEF IInv, ClientSnapshots, Snapshot, CommitUpdate
<1>6. /\ \/ AdministrativeResolution(r, snap, view)
         \/ state' = state /\ events' = events
      /\ rule' = [rule EXCEPT ![r] = Updated(rule[r], q.patch, view, q.due)]
      /\ Remember(r, rule[r])
      /\ client' = [client EXCEPT ![c] = Idle]
      /\ UNCHANGED <<now, outboxes, replays, worker, breaches, faults>>
  BY <1>2, <1>3, <1>4, Zenon DEF CommitUpdate
<1> HIDE DEF q
<1>7. /\ state' \in [Rules -> States] /\ StatesWellFormed'
      /\ \A x \in Rules : Advances(state[x], state'[x])
      /\ DOMAIN events' = DOMAIN events
      /\ \A f \in DOMAIN events' : events'[f] \in Events
      /\ IncidentMatchesState'
  <2>1. CASE AdministrativeResolution(r, snap, view)
    BY <1>5, <2>1, AdministrativeResolutionKeeps, Zenon
  <2>2. CASE state' = state /\ events' = events
    <3>1. StatesWellFormed' /\ IncidentMatchesState'
      BY <2>2, FrameStates, Zenon
    <3> QED BY <2>2, <3>1, Zenon DEF Advances, IInv, TypeOK
  <2> QED BY <1>6, <2>1, <2>2, Zenon
<1>8. rule' \in [Rules -> RuleItems]
  <2> DEFINE item == Updated(rule[r], q.patch, view, q.due)
  <2>1. rule[r] \in RuleItems
    BY Zenon DEF IInv, TypeOK
  <2>2. item \in RuleItems
    BY <1>1, <2>1, UpdatedType, Zenon
  <2> HIDE DEF item
  <2>3. rule' = [rule EXCEPT ![r] = item]
    BY <1>6, Zenon DEF item
  <2> QED BY <2>2, <2>3, Zenon DEF IInv, TypeOK
<1>9. views' \in [Rules -> SUBSET Views]
  BY <1>6, RememberType, Zenon
<1>10. client' \in [Clients -> ClientStates] /\ ClientSnapshots'
  BY <1>6, <1>7, ClientCommits, Zenon
<1>11. WorkerSnapshots'
  BY <1>6, <1>7, WorkersUnmoved, Zenon
<1>12. TypeOK'
  BY <1>6, <1>7, <1>8, <1>9, <1>10, Zenon DEF IInv, TypeOK
<1> QED BY <1>7, <1>10, <1>11, <1>12, Zenon DEF IInv

(* The replaced rule is a rule item. *)
LEMMA RetiredType ==
    ASSUME NEW item \in RuleItems, NEW view \in Views, NEW by \in Rules
    PROVE  Retired(item, view, by) \in RuleItems
<1> DEFINE a == Unscheduled(item)
           version == a.version + 1
           revision == view.revision + 1
           gen == a.gen + 1
           b == [a EXCEPT !.enabled = FALSE, !.status = "replaced", !.replacedBy = by]
<1>1. a \in RuleItems
  BY UnscheduledType, Zenon
<1>2. Retired(item, view, by) =
        [a EXCEPT !.enabled = FALSE, !.status = "replaced", !.replacedBy = by,
                  !.version = version, !.revision = revision, !.gen = gen]
  BY Zenon DEF Retired
<1> HIDE DEF a
<1>3. version \in Nat /\ revision \in Nat /\ gen \in Nat
  BY <1>1 DEF RuleItems, Views
<1> HIDE DEF version, revision, gen
<1>4. Retired(item, view, by) =
        [b EXCEPT !.version = version, !.revision = revision, !.gen = gen]
  BY <1>2, Zenon
<1>5. b \in RuleItems
  BY <1>1, Zenon DEF RuleItems
<1> HIDE DEF b
<1> QED BY <1>3, <1>4, <1>5, Zenon DEF RuleItems

(* The transaction of replace_rule keeps the invariant. *)
LEMMA CommitReplaceKeeps ==
    ASSUME IInv, NEW c \in Clients, NEW key \in Keys, CommitReplace(c, key)
    PROVE  IInv'
<1> DEFINE q == client[c]
           old == Retired(rule[q.rule], q.view, q.by)
           new == [NewRule(q.def, q.due) EXCEPT !.replaces = q.rule]
           record == [live |-> TRUE, rule |-> q.rule, by |-> q.by]
<1>1. q.rule \in Rules /\ q.by \in Rules /\ q.def \in Definitions /\ q.key \in Keys
      /\ q.view \in Views /\ q.due \in Nat /\ q.snap \in States
  BY ClientFields, Zenon DEF IInv, CommitReplace
<1>2. PICK r \in Rules : r = q.rule
  BY <1>1, Zenon
<1>3. PICK snap \in States : snap = q.snap
  BY <1>1, Zenon
<1>4. PICK view \in Views : view = q.view
  BY <1>1, Zenon
<1>5. SnapshotOf(r, snap, state[r])
  BY <1>2, <1>3, Zenon DEF IInv, ClientSnapshots, Snapshot, CommitReplace
<1>6. /\ AdministrativeResolution(r, snap, view)
      /\ rule' = [rule EXCEPT ![q.rule] = old, ![q.by] = new]
      /\ replays' = [replays EXCEPT ![q.key] = record]
      /\ Remember(r, rule[r])
      /\ client' = [client EXCEPT ![c] = Idle]
      /\ UNCHANGED <<now, outboxes, worker, breaches, faults>>
  BY <1>2, <1>3, <1>4, Zenon DEF CommitReplace
<1>7. old \in RuleItems
  <2>1. rule[q.rule] \in RuleItems
    BY <1>1, Zenon DEF IInv, TypeOK
  <2> QED BY <1>1, <2>1, RetiredType, ZenonT(30)
<1>8. new \in RuleItems
  <2>1. NewRule(q.def, q.due) \in RuleItems
    BY <1>1, NewRuleType, Zenon
  <2> QED BY <1>1, <2>1, Zenon DEF RuleItems
<1> HIDE DEF q, old, new
<1>9. rule' \in [Rules -> RuleItems]
  BY <1>6, <1>7, <1>8, ZenonT(30) DEF IInv, TypeOK
<1>10. replays' \in [Keys -> [live : BOOLEAN, rule : Rules \cup {NoRule}, by : Rules \cup {NoRule}]]
  BY <1>1, <1>6, ZenonT(30) DEF IInv, TypeOK
<1>11. /\ state' \in [Rules -> States] /\ StatesWellFormed'
       /\ \A x \in Rules : Advances(state[x], state'[x])
       /\ DOMAIN events' = DOMAIN events
       /\ \A f \in DOMAIN events' : events'[f] \in Events
       /\ IncidentMatchesState'
  BY <1>5, <1>6, AdministrativeResolutionKeeps, ZenonT(30)
<1>12. views' \in [Rules -> SUBSET Views]
  BY <1>6, RememberType, ZenonT(30)
<1>13. client' \in [Clients -> ClientStates] /\ ClientSnapshots'
  BY <1>6, <1>11, ClientCommits, ZenonT(30)
<1>14. WorkerSnapshots'
  BY <1>6, <1>11, WorkersUnmoved, ZenonT(30)
<1>15. TypeOK'
  BY <1>6, <1>9, <1>10, <1>11, <1>12, <1>13, Zenon DEF IInv, TypeOK
<1> QED BY <1>11, <1>13, <1>14, <1>15, Zenon DEF IInv

-----------------------------------------------------------------------------
(* Every step of a worker, an operator or a request keeps the invariant. *)
LEMMA NextKeeps == IInv /\ [Next]_vars => IInv'
<1> SUFFICES ASSUME IInv, [Next]_vars PROVE IInv'
  BY Zenon
<1>1. CASE Tick
  BY <1>1, TickKeeps, Zenon
<1>2. CASE Evaluator
  <2>1. PICK w \in Workers :
          \/ \E o \in Owners, r \in Rules, slot \in 1..now : Claim(w, o, r, slot)
          \/ LoadState(w)
          \/ \E result \in Results : Commit(w, result) \/ LoseFence(w, result)
          \/ Crash(w)
    BY <1>2, Zenon DEF Evaluator
  <2>2. ASSUME NEW o \in Owners, NEW r \in Rules, NEW slot \in 1..now, Claim(w, o, r, slot)
        PROVE  IInv'
    <3>1. slot \in Nat
      BY DEF IInv, TypeOK
    <3> QED BY <2>2, <3>1, ClaimKeeps, Zenon
  <2> QED BY <2>1, <2>2, LoadStateKeeps, CommitKeeps, LoseFenceKeeps, CrashKeeps, Zenon
<1>3. CASE Operator
  BY <1>3, BackfillScheduleKeeps, BackfillActiveAlertIndexKeeps, Zenon DEF Operator
<1>4. CASE API
  <2>1. ASSUME NEW r \in Rules, NEW def \in Definitions, NEW due \in NextCompleteSlot(now),
               CreateRule(r, def, due)
        PROVE  IInv'
    <3>1. due \in Nat
      BY DEF NextCompleteSlot, IInv, TypeOK
    <3> QED BY <2>1, <3>1, CreateRuleKeeps, Zenon
  <2>2. ASSUME NEW c \in Clients,
               \/ \E e \in DOMAIN events : BeginResolve(c, e)
               \/ \E r \in Rules, patch \in Patches : BeginUpdate(c, r, patch)
               \/ \E r, by \in Rules, def \in Definitions, key \in Keys :
                    BeginReplace(c, r, by, def, key)
               \/ \E key \in Keys : CommitReplace(c, key)
               \/ CommitResolve(c) \/ CommitUpdate(c) \/ EndRequest(c)
        PROVE  IInv'
    BY <2>2, BeginResolveKeeps, BeginUpdateKeeps, BeginReplaceKeeps, CommitResolveKeeps,
       CommitUpdateKeeps, CommitReplaceKeeps, EndRequestKeeps, Zenon
  <2> QED BY <1>4, <2>1, <2>2, AcknowledgeKeeps, ExpireReplayKeeps, Zenon DEF API
<1>5. ASSUME NEW r \in Rules, ExpireLease(r) PROVE IInv'
  BY <1>5, ExpireLeaseKeeps, Zenon
<1>6. CASE UNCHANGED vars
  <2>1. TypeOK'
    BY <1>6, Zenon DEF vars, IInv, TypeOK
  <2> QED BY <1>6, <2>1, FrameStates, Zenon DEF vars, IInv
<1> QED BY <1>1, <1>2, <1>3, <1>4, <1>5, <1>6, Zenon DEF Next

(* The inductive invariant holds in every reachable state. *)
LEMMA Inductive == Spec => []IInv
BY InitIInv, NextKeeps, PTL DEF Spec

(* Whatever evaluator runs, API requests and operator backfills do, in any *)
(* interleaving and with stale or fresh reads, every item in the table and *)
(* every snapshot in flight keeps its attributes and ranges.               *)
THEOREM TypeCorrect == Spec => []TypeOK
<1>1. IInv => TypeOK
  BY Zenon DEF IInv
<1> QED BY <1>1, Inductive, PTL

(* For every number of rules, evaluator workers and API requests: a rule's *)
(* unresolved events are exactly the incident its evaluator state says is  *)
(* active.  Commit, resolve_event, update_rule and replace_rule each write *)
(* both items from a snapshot read earlier; the state_revision condition   *)
(* of their transactions makes that snapshot the current item.             *)
THEOREM IncidentConsistent == Spec => []IncidentMatchesState
<1>1. IInv => IncidentMatchesState
  BY Zenon DEF IInv
<1> QED BY <1>1, Inductive, PTL


(* The steps that write none of the stored items: they only move the clock, *)
(* a worker or a request.                                                   *)
ItemsUnchanged ==
    rule' = rule /\ state' = state /\ events' = events /\ outboxes' = outboxes
    /\ replays' = replays /\ breaches' = breaches /\ views' = views

(* Every step writes no stored item or is one of the writers. *)
LEMMA WriterCases ==
    ASSUME [Next]_vars
    PROVE  \/ ItemsUnchanged
           \/ \E w \in Workers, o \in Owners, r \in Rules, slot \in 1..now : Claim(w, o, r, slot)
           \/ \E w \in Workers, result \in Results : Commit(w, result)
           \/ \E r \in Rules : ExpireLease(r)
           \/ \E r \in Rules, at \in BackfillTimes : BackfillSchedule(r, at)
           \/ \E e \in DOMAIN events : BackfillActiveAlertIndex(e) \/ Acknowledge(e)
           \/ \E r \in Rules, def \in Definitions, due \in NextCompleteSlot(now) :
                CreateRule(r, def, due)
           \/ \E c \in Clients : CommitResolve(c) \/ CommitUpdate(c)
           \/ \E c \in Clients, key \in Keys : CommitReplace(c, key)
           \/ \E key \in Keys : ExpireReplay(key)
<1>1. CASE Tick
  BY <1>1, Zenon DEF Tick, ItemsUnchanged
<1>2. CASE UNCHANGED vars
  BY <1>2, Zenon DEF vars, ItemsUnchanged
<1>3. CASE Evaluator
  <2>1. ASSUME NEW w \in Workers, LoadState(w) PROVE ItemsUnchanged
    BY <2>1, Zenon DEF LoadState, ItemsUnchanged
  <2>2. ASSUME NEW w \in Workers, NEW result, LoseFence(w, result) PROVE ItemsUnchanged
    BY <2>2, Zenon DEF LoseFence, ItemsUnchanged
  <2>3. ASSUME NEW w \in Workers, Crash(w) PROVE ItemsUnchanged
    BY <2>3, Zenon DEF Crash, ItemsUnchanged
  <2> QED BY <1>3, <2>1, <2>2, <2>3, Zenon DEF Evaluator
<1>4. CASE Operator
  BY <1>4, Zenon DEF Operator
<1>5. CASE API
  <2>1. ASSUME NEW c \in Clients, NEW e, BeginResolve(c, e) PROVE ItemsUnchanged
    BY <2>1, Zenon DEF BeginResolve, ItemsUnchanged
  <2>2. ASSUME NEW c \in Clients, NEW r, NEW patch, BeginUpdate(c, r, patch)
        PROVE  ItemsUnchanged
    BY <2>2, Zenon DEF BeginUpdate, ItemsUnchanged
  <2>3. ASSUME NEW c \in Clients, NEW r, NEW by, NEW def, NEW key, BeginReplace(c, r, by, def, key)
        PROVE  ItemsUnchanged
    BY <2>3, Zenon DEF BeginReplace, ItemsUnchanged
  <2>4. ASSUME NEW c \in Clients, EndRequest(c) PROVE ItemsUnchanged
    BY <2>4, Zenon DEF EndRequest, ItemsUnchanged
  <2> QED BY <1>5, <2>1, <2>2, <2>3, <2>4, Zenon DEF API
<1> QED BY <1>1, <1>2, <1>3, <1>4, <1>5, Zenon DEF Next

-----------------------------------------------------------------------------
(* Rule items. *)

(* Two versions of a rule item mean the same: only schedule and lease differ. *)
SameContent(a, b) ==
    /\ b.status = a.status /\ b.version = a.version /\ b.revision = a.revision
    /\ b.enabled = a.enabled /\ b.duration = a.duration /\ b.cooldown = a.cooldown
    /\ b.channels = a.channels /\ b.gen = a.gen
    /\ b.replaces = a.replaces /\ b.replacedBy = a.replacedBy

(* The ways a rule item changes: its schedule and lease, its creation, a   *)
(* PATCH or its retirement under a new version.                            *)
RuleStep(a, b) ==
    \/ SameContent(a, b)
    \/ a.status = "absent" /\ b.status = "active" /\ b.replacedBy = NoRule
    \/ /\ a.status = "active" /\ b.status \in {"active", "replaced"}
       /\ b.version = a.version + 1 /\ b.replaces = a.replaces

(* What update_rule writes leaves the identity of the rule alone. *)
LEMMA UpdatedFields ==
    ASSUME NEW item \in RuleItems, NEW patch \in Patches, NEW view, NEW due \in Nat
    PROVE  LET b == Updated(item, patch, view, due)
           IN  /\ b.status = item.status /\ b.version = item.version + 1
               /\ b.replaces = item.replaces /\ b.replacedBy = item.replacedBy
<1> DEFINE a == Rescheduled(item, patch, view, due)
<1>1. /\ a \in RuleItems
      /\ a.status = item.status /\ a.version = item.version
      /\ a.replaces = item.replaces /\ a.replacedBy = item.replacedBy
  <2>1. \/ a = item
        \/ a = [item EXCEPT !.nextDue = due, !.owner = NoOwner, !.live = FALSE]
        \/ a = Unscheduled(item)
    BY Zenon DEF Rescheduled
  <2>2. a \in RuleItems
    BY RescheduledType, Zenon
  <2> QED BY <2>1, <2>2, Zenon DEF Unscheduled, RuleItems
<1> HIDE DEF a
<1> QED BY <1>1, Zenon DEF Updated, RuleItems, a

(* What replace_rule writes into the replaced rule. *)
LEMMA RetiredFields ==
    ASSUME NEW item \in RuleItems, NEW view, NEW by
    PROVE  LET b == Retired(item, view, by)
           IN  /\ b.status = "replaced" /\ b.version = item.version + 1 /\ ~b.enabled
               /\ b.replaces = item.replaces /\ b.replacedBy = by /\ b.gen = item.gen + 1
BY Zenon DEF Retired, Unscheduled, RuleItems

(* What create_rule writes. *)
LEMMA NewRuleFields ==
    ASSUME NEW def, NEW due
    PROVE  LET b == NewRule(def, due)
           IN  /\ b.status = "active" /\ b.version = 1 /\ b.revision = 1 /\ b.gen = 0
               /\ b.enabled = def.enabled /\ b.duration = def.duration
               /\ b.cooldown = def.cooldown /\ b.channels = def.channels
               /\ b.nextDue = (IF def.enabled THEN due ELSE 0)
               /\ b.replaces = NoRule /\ b.replacedBy = NoRule
BY Zenon DEF NewRule, AbsentRule

(* A new rule is scheduled when it is enabled. *)
LEMMA NewRuleScheduled ==
    ASSUME NEW def, NEW due, NewRule(def, due).enabled
    PROVE  NewRule(def, due).nextDue = due
BY NewRuleFields

(* The transaction of replace_rule on the two rules it writes. *)
Replaces(q, key, r, by, def, view, due) ==
    /\ r = q.rule /\ by = q.by /\ view = q.view /\ def = q.def /\ due = q.due
    /\ rule[r].status = "active" /\ rule[by].status = "absent" /\ r # by
    /\ rule[r].version = q.expected
    /\ rule'[r] = Retired(rule[r], view, by)
    /\ rule'[by] = [NewRule(def, due) EXCEPT !.replaces = r]
    /\ \A x \in Rules \ {r, by} : rule'[x] = rule[x]
    /\ replays' = [replays EXCEPT ![key] = [live |-> TRUE, rule |-> r, by |-> by]]

(* replace_rule writes exactly the retired and the new rule. *)
LEMMA ReplaceWrites ==
    ASSUME IInv, NEW c \in Clients, NEW key \in Keys, CommitReplace(c, key)
    PROVE  \E r, by \in Rules, def \in Definitions, view \in Views, due \in Nat :
             Replaces(client[c], key, r, by, def, view, due)
<1> DEFINE q == client[c]
<1>1. q.rule \in Rules /\ q.by \in Rules /\ q.def \in Definitions /\ q.view \in Views
      /\ q.due \in Nat
  BY ClientFields, Zenon DEF IInv, CommitReplace
<1>2. /\ rule[q.rule].status = "active" /\ rule[q.by].status = "absent"
      /\ rule[q.rule].version = q.expected
      /\ rule' = [rule EXCEPT ![q.rule] = Retired(rule[q.rule], q.view, q.by),
                              ![q.by] = [NewRule(q.def, q.due) EXCEPT !.replaces = q.rule]]
      /\ replays' = [replays EXCEPT ![key] = [live |-> TRUE, rule |-> q.rule, by |-> q.by]]
  BY Zenon DEF CommitReplace, Conditioned
<1> HIDE DEF q
<1>3. q.rule # q.by
  BY <1>2, Zenon
<1>4. /\ rule'[q.rule] = Retired(rule[q.rule], q.view, q.by)
      /\ rule'[q.by] = [NewRule(q.def, q.due) EXCEPT !.replaces = q.rule]
      /\ \A x \in Rules \ {q.rule, q.by} : rule'[x] = rule[x]
  BY <1>1, <1>2, <1>3, Zenon DEF IInv, TypeOK
<1>5. Replaces(q, key, q.rule, q.by, q.def, q.view, q.due)
  BY <1>2, <1>3, <1>4, Zenon DEF Replaces
<1> QED BY <1>1, <1>5, Zenon DEF q

(* The transaction of update_rule on the rule it writes. *)
Updates(q, r, patch, view, due) ==
    /\ r = q.rule /\ patch = q.patch /\ view = q.view /\ due = q.due
    /\ rule[r].status = "active" /\ rule[r].version = q.expected
    /\ rule'[r] = Updated(rule[r], patch, view, due)
    /\ \A x \in Rules \ {r} : rule'[x] = rule[x]

(* update_rule writes exactly the patched rule. *)
LEMMA UpdateWrites ==
    ASSUME IInv, NEW c \in Clients, CommitUpdate(c)
    PROVE  \E r \in Rules, patch \in Patches, view \in Views, due \in Nat :
             Updates(client[c], r, patch, view, due)
<1> DEFINE q == client[c]
<1>1. q.rule \in Rules /\ q.patch \in Patches /\ q.view \in Views /\ q.due \in Nat
  BY ClientFields, Zenon DEF IInv, CommitUpdate
<1>2. /\ rule[q.rule].status = "active" /\ rule[q.rule].version = q.expected
      /\ rule' = [rule EXCEPT ![q.rule] = Updated(rule[q.rule], q.patch, q.view, q.due)]
  BY Zenon DEF CommitUpdate, Conditioned
<1> HIDE DEF q
<1>3. /\ rule'[q.rule] = Updated(rule[q.rule], q.patch, q.view, q.due)
      /\ \A x \in Rules \ {q.rule} : rule'[x] = rule[x]
  BY <1>1, <1>2, Zenon DEF IInv, TypeOK
<1>4. Updates(q, q.rule, q.patch, q.view, q.due)
  BY <1>2, <1>3, Zenon DEF Updates
<1> QED BY <1>1, <1>4, Zenon DEF q

(* The writers of schedules and leases leave the content of every rule alone. *)
LEMMA ScheduleSteps ==
    ASSUME IInv,
           \/ ItemsUnchanged
           \/ \E w \in Workers, o \in Owners, r \in Rules, slot \in 1..now : Claim(w, o, r, slot)
           \/ \E w \in Workers, result \in Results : Commit(w, result)
           \/ \E r \in Rules : ExpireLease(r)
           \/ \E r \in Rules, at \in BackfillTimes : BackfillSchedule(r, at)
           \/ \E e \in DOMAIN events : BackfillActiveAlertIndex(e) \/ Acknowledge(e)
           \/ \E c \in Clients : CommitResolve(c)
           \/ \E key \in Keys : ExpireReplay(key),
           NEW x \in Rules
    PROVE  SameContent(rule[x], rule'[x])
<1>0. rule \in [Rules -> RuleItems] /\ rule[x] \in RuleItems
  BY Zenon DEF IInv, TypeOK
<1>1. ASSUME rule' = rule PROVE SameContent(rule[x], rule'[x])
  BY <1>1, Zenon DEF SameContent
<1>2. ASSUME NEW w \in Workers, NEW o, NEW r \in Rules, NEW slot, Claim(w, o, r, slot)
      PROVE  SameContent(rule[x], rule'[x])
  <2>1. rule' = [rule EXCEPT ![r].owner = o, ![r].live = TRUE, ![r].epoch = @ + 1]
    BY <1>2, Zenon DEF Claim
  <2> QED BY <1>0, <2>1, Zenon DEF SameContent, RuleItems
<1>3. ASSUME NEW w \in Workers, NEW result, Commit(w, result)
      PROVE  SameContent(rule[x], rule'[x])
  <2>1. worker[w].rule \in Rules
    BY <1>3, WorkerFields, Zenon DEF IInv, Commit
  <2>2. PICK r \in Rules : rule' = [rule EXCEPT ![r].nextDue = worker[w].slot + 1,
                                                ![r].owner = NoOwner, ![r].live = FALSE]
    BY <1>3, <2>1, Zenon DEF Commit
  <2> QED BY <1>0, <2>2, Zenon DEF SameContent, RuleItems
<1>4. ASSUME NEW r \in Rules, ExpireLease(r) PROVE SameContent(rule[x], rule'[x])
  BY <1>0, <1>4, Zenon DEF ExpireLease, SameContent, RuleItems
<1>5. ASSUME NEW r \in Rules, NEW at, BackfillSchedule(r, at)
      PROVE  SameContent(rule[x], rule'[x])
  BY <1>0, <1>5 DEF BackfillSchedule, SameContent, RuleItems
<1> QED BY <1>1, <1>2, <1>3, <1>4, <1>5, Zenon
        DEF ItemsUnchanged, BackfillActiveAlertIndex, Acknowledge, CommitResolve, ExpireReplay

(* Every step moves every rule along RuleStep. *)
LEMMA RuleSteps ==
    ASSUME IInv, [Next]_vars, NEW x \in Rules
    PROVE  RuleStep(rule[x], rule'[x])
<1>0. rule[x] \in RuleItems
  BY Zenon DEF IInv, TypeOK
<1>1. ASSUME NEW r \in Rules, NEW def, NEW due, CreateRule(r, def, due)
      PROVE  RuleStep(rule[x], rule'[x])
  <2>1. rule[r].status = "absent" /\ rule' = [rule EXCEPT ![r] = NewRule(def, due)]
    BY <1>1, Zenon DEF CreateRule
  <2>2. NewRule(def, due).status = "active" /\ NewRule(def, due).replacedBy = NoRule
    BY NewRuleFields, Zenon
  <2>3. rule'[x] = IF x = r THEN NewRule(def, due) ELSE rule[x]
    BY <2>1, Zenon DEF IInv, TypeOK
  <2> QED BY <2>1, <2>2, <2>3, Zenon DEF RuleStep, SameContent
<1>2. ASSUME NEW c \in Clients, CommitUpdate(c) PROVE RuleStep(rule[x], rule'[x])
  <2>1. PICK r \in Rules, patch \in Patches, view \in Views, due \in Nat :
          Updates(client[c], r, patch, view, due)
    BY <1>2, UpdateWrites, Zenon
  <2>2. LET b == Updated(rule[r], patch, view, due)
        IN  b.status = rule[r].status /\ b.version = rule[r].version + 1
            /\ b.replaces = rule[r].replaces
    BY UpdatedFields DEF IInv, TypeOK
  <2> QED BY <2>1, <2>2, Zenon DEF RuleStep, SameContent, Updates
<1>3. ASSUME NEW c \in Clients, NEW key \in Keys, CommitReplace(c, key)
      PROVE  RuleStep(rule[x], rule'[x])
  <2>1. PICK r, by \in Rules, def \in Definitions, view \in Views, due \in Nat :
          Replaces(client[c], key, r, by, def, view, due)
    BY <1>3, ReplaceWrites, Zenon
  <2>2. LET b == Retired(rule[r], view, by)
        IN  b.status = "replaced" /\ b.version = rule[r].version + 1
            /\ b.replaces = rule[r].replaces
    BY RetiredFields DEF IInv, TypeOK
  <2>3. LET b == [NewRule(def, due) EXCEPT !.replaces = r]
        IN  b.status = "active" /\ b.replacedBy = NoRule
    BY NewRuleFields, NewRuleType DEF RuleItems
  <2>4. /\ rule[r].status = "active" /\ rule[by].status = "absent"
        /\ rule'[r].status = "replaced" /\ rule'[r].version = rule[r].version + 1
        /\ rule'[r].replaces = rule[r].replaces
        /\ rule'[by].status = "active" /\ rule'[by].replacedBy = NoRule
        /\ x \notin {r, by} => rule'[x] = rule[x]
    BY <2>1, <2>2, <2>3, ZenonT(30) DEF Replaces
  <2> QED BY <2>4, Zenon DEF RuleStep, SameContent
<1> QED BY <1>1, <1>2, <1>3, WriterCases, ScheduleSteps, Zenon DEF RuleStep

-----------------------------------------------------------------------------
(* Replacements. *)

(* Only a replaced rule names a successor, only a rule made by a           *)
(* replacement names a predecessor, and the two agree.                     *)
LinkInv ==
    /\ ReplacementLinked
    /\ \A r \in Rules : /\ rule[r].status # "replaced" => rule[r].replacedBy = NoRule
                        /\ rule[r].status = "absent" => rule[r].replaces = NoRule
    /\ \A k \in Keys : replays[k].live => replays[k].rule \in Rules

(* Steps that link no rules keep the links. *)
LEMMA LinksFramed ==
    ASSUME LinkInv,
           \A x \in Rules : /\ rule'[x].replaces = rule[x].replaces
                            /\ rule'[x].replacedBy = rule[x].replacedBy
                            /\ \/ rule'[x].status = rule[x].status
                               \/ rule[x].status = "absent" /\ rule'[x].status = "active",
           \A k \in Keys : replays'[k].live => replays'[k] = replays[k]
    PROVE  LinkInv'
<1>1. \A r, by \in Rules : rule'[by].replaces = r <=> rule'[r].replacedBy = by
  BY DEF LinkInv, ReplacementLinked
<1>2. \A r \in Rules : /\ rule'[r].status # "replaced" => rule'[r].replacedBy = NoRule
                       /\ rule'[r].status = "absent" => rule'[r].replaces = NoRule
  BY Zenon DEF LinkInv
<1>3. \A k \in Keys : replays'[k].live => /\ replays'[k].rule \in Rules
                                          /\ rule'[replays'[k].rule].replacedBy = replays'[k].by
                                          /\ rule'[replays'[k].rule].status = "replaced"
  BY DEF LinkInv, ReplacementLinked
<1> QED BY <1>1, <1>2, <1>3, Zenon DEF LinkInv, ReplacementLinked

(* The transaction of replace_rule links the two rules it writes. *)
LEMMA ReplaceLinks ==
    ASSUME IInv, LinkInv, NEW c \in Clients, NEW key \in Keys, CommitReplace(c, key)
    PROVE  LinkInv'
<1>1. PICK r, by \in Rules, def \in Definitions, view \in Views, due \in Nat :
        Replaces(client[c], key, r, by, def, view, due)
  BY ReplaceWrites, Zenon
<1>2. /\ rule[r].status = "active" /\ rule[by].status = "absent" /\ r # by
      /\ rule'[r].status = "replaced" /\ rule'[r].replacedBy = by
      /\ rule'[r].replaces = rule[r].replaces
  <2>1. rule[r] \in RuleItems
    BY Zenon DEF IInv, TypeOK
  <2> QED BY <1>1, <2>1, RetiredFields DEF Replaces
<1>3. rule'[by].status = "active" /\ rule'[by].replacedBy = NoRule /\ rule'[by].replaces = r
  BY <1>1, NewRuleFields, NewRuleType DEF Replaces, RuleItems
<1>4. \A x \in Rules \ {r, by} : rule'[x] = rule[x]
  BY <1>1, Zenon DEF Replaces
<1>5. rule[r].replacedBy = NoRule /\ rule[by].replacedBy = NoRule /\ rule[by].replaces = NoRule
      /\ NoRule \notin Rules
  BY <1>2, ParameterAssumption, Zenon DEF LinkInv
<1>6. \A x, y \in Rules : rule[y].replaces = x <=> rule[x].replacedBy = y
  BY Zenon DEF LinkInv, ReplacementLinked
<1>7. \A x, y \in Rules : rule'[y].replaces = x <=> rule'[x].replacedBy = y
  <2> SUFFICES ASSUME NEW x \in Rules, NEW y \in Rules
               PROVE  rule'[y].replaces = x <=> rule'[x].replacedBy = y
    BY Zenon
  <2>1. CASE x = r
    BY <1>2, <1>3, <1>4, <1>5, <1>6, <2>1
  <2>2. CASE x = by
    BY <1>2, <1>3, <1>4, <1>5, <1>6, <2>2
  <2>3. CASE x \notin {r, by}
    BY <1>2, <1>3, <1>4, <1>5, <1>6, <2>3
  <2> QED BY <2>1, <2>2, <2>3, Zenon
<1>8. \A x \in Rules : /\ rule'[x].status # "replaced" => rule'[x].replacedBy = NoRule
                       /\ rule'[x].status = "absent" => rule'[x].replaces = NoRule
  BY <1>2, <1>3, <1>4 DEF LinkInv
<1>9. \A k \in Keys : replays'[k].live => /\ replays'[k].rule \in Rules
                                          /\ rule'[replays'[k].rule].replacedBy = replays'[k].by
                                          /\ rule'[replays'[k].rule].status = "replaced"
  <2> SUFFICES ASSUME NEW k \in Keys, replays'[k].live
               PROVE  /\ replays'[k].rule \in Rules
                      /\ rule'[replays'[k].rule].replacedBy = replays'[k].by
                      /\ rule'[replays'[k].rule].status = "replaced"
    BY Zenon
  <2>1. CASE k = key
    <3>1. replays'[k].rule = r /\ replays'[k].by = by
      BY <1>1, <2>1, Zenon DEF Replaces, IInv, TypeOK
    <3> QED BY <1>2, <3>1, Zenon
  <2>2. CASE k # key
    <3>1. replays'[k] = replays[k]
      BY <1>1, <2>2, ZenonT(30) DEF Replaces, IInv, TypeOK
    <3>2. /\ replays[k].rule \in Rules /\ rule[replays[k].rule].status = "replaced"
          /\ rule[replays[k].rule].replacedBy = replays[k].by
      BY <3>1, Zenon DEF LinkInv, ReplacementLinked
    <3>3. replays[k].rule \notin {r, by}
      BY <1>2, <3>2, Zenon
    <3> QED BY <1>4, <3>1, <3>2, <3>3, ZenonT(30)
  <2> QED BY <2>1, <2>2, Zenon
<1> QED BY <1>7, <1>8, <1>9, Zenon DEF LinkInv, ReplacementLinked

(* Every step keeps the links. *)
LEMMA LinksKept == ASSUME IInv, LinkInv, [Next]_vars PROVE LinkInv'
<1>1. ASSUME \A x \in Rules : SameContent(rule[x], rule'[x]),
             \A k \in Keys : replays'[k].live => replays'[k] = replays[k]
      PROVE  LinkInv'
  BY <1>1, LinksFramed, Zenon DEF SameContent
<1>2. ASSUME NEW r \in Rules, NEW def, NEW due, CreateRule(r, def, due) PROVE LinkInv'
  <2>1. rule[r].status = "absent" /\ rule' = [rule EXCEPT ![r] = NewRule(def, due)]
        /\ replays' = replays
    BY <1>2, Zenon DEF CreateRule
  <2>2. NewRule(def, due).status = "active" /\ NewRule(def, due).replacedBy = NoRule
        /\ NewRule(def, due).replaces = NoRule
    BY NewRuleFields, ZenonT(30)
  <2>3. \A x \in Rules : rule'[x] = IF x = r THEN NewRule(def, due) ELSE rule[x]
    BY <2>1, Zenon DEF IInv, TypeOK
  <2>4. rule[r].replacedBy = NoRule /\ rule[r].replaces = NoRule
    BY <2>1, Zenon DEF LinkInv
  <2> QED BY <2>1, <2>2, <2>3, <2>4, LinksFramed, ZenonT(30)
<1>3. ASSUME NEW c \in Clients, CommitUpdate(c) PROVE LinkInv'
  <2>1. PICK r \in Rules, patch \in Patches, view \in Views, due \in Nat :
          Updates(client[c], r, patch, view, due)
    BY <1>3, UpdateWrites, Zenon
  <2>2. LET b == Updated(rule[r], patch, view, due)
        IN  b.status = rule[r].status /\ b.replaces = rule[r].replaces
            /\ b.replacedBy = rule[r].replacedBy
    BY UpdatedFields DEF IInv, TypeOK
  <2>3. \A x \in Rules : /\ rule'[x].replaces = rule[x].replaces
                         /\ rule'[x].replacedBy = rule[x].replacedBy
                         /\ rule'[x].status = rule[x].status
    BY <2>1, <2>2, Zenon DEF Updates
  <2>4. replays' = replays
    BY <1>3, Zenon DEF CommitUpdate
  <2> QED BY <2>3, <2>4, LinksFramed, Zenon
<1>4. ASSUME NEW key \in Keys, ExpireReplay(key) PROVE LinkInv'
  <2>1. rule' = rule /\ replays' = [replays EXCEPT ![key].live = FALSE]
    BY <1>4, Zenon DEF ExpireReplay
  <2>2. \A k \in Keys : replays'[k].live => replays'[k] = replays[k]
    BY <2>1, Zenon DEF IInv, TypeOK
  <2> QED BY <1>1, <2>1, <2>2, Zenon DEF SameContent
<1>5. \A w \in Workers, result \in Results : Commit(w, result) => replays' = replays
  BY Zenon DEF Commit
<1> QED
  BY <1>1, <1>2, <1>3, <1>4, <1>5, WriterCases, ScheduleSteps, ReplaceLinks, ZenonT(30)
  DEF ItemsUnchanged, Claim, ExpireLease, BackfillSchedule, BackfillActiveAlertIndex,
      Acknowledge, CommitResolve

(* Every initial tenant has no replaced rule. *)
LEMMA LinksInit == ASSUME Init PROVE LinkInv
<1>0. PICK used \in SUBSET Rules, incident \in BOOLEAN, def \in Definitions, due \in {0, 2} :
        Tenant(used, IF incident /\ def.enabled THEN used ELSE {}, def, NewRule(def, due))
  BY Zenon DEF Init
<1>1. /\ rule = [r \in Rules |-> IF r \in used THEN NewRule(def, due) ELSE AbsentRule]
      /\ replays = [k \in Keys |-> [live |-> FALSE, rule |-> NoRule, by |-> NoRule]]
  BY <1>0, Zenon DEF Tenant
<1>2. \A r \in Rules : rule[r].replaces = NoRule /\ rule[r].replacedBy = NoRule
  BY <1>1, NewRuleFields DEF AbsentRule
<1>3. \A k \in Keys : ~replays[k].live
  BY <1>1, Zenon
<1> QED BY <1>2, <1>3, ParameterAssumption, Zenon DEF LinkInv, ReplacementLinked

(* A rule is replaced at most once, by the rule that names it, whatever    *)
(* replace_rule requests race; and while the idempotency record of a       *)
(* request lives, the pair it answers with is the pair in the table.       *)
THEOREM ReplacementAlwaysLinked == Spec => []ReplacementLinked
<1>1. Init => LinkInv
  BY LinksInit, Zenon
<1>2. IInv /\ LinkInv /\ [Next]_vars => LinkInv'
  BY LinksKept, Zenon
<1>3. LinkInv => ReplacementLinked
  BY Zenon DEF LinkInv
<1> QED BY <1>1, <1>2, <1>3, Inductive, PTL DEF Spec

-----------------------------------------------------------------------------
(* What workers and requests still know of the rule they read. *)

(* A claim taken from an item: if the version has not moved since, the     *)
(* item still means what the worker evaluates.                             *)
WorkMatches(work, item) ==
    /\ item.status # "absent"
    /\ work.version <= item.version
    /\ work.version = item.version =>
         work.duration = item.duration /\ work.cooldown = item.cooldown
         /\ work.channels = item.channels

WorkersRead ==
    \A w \in Workers : worker[w].pc # "idle" => WorkMatches(worker[w].work, rule[worker[w].rule])

(* The view of a PATCH or replace is the item itself as long as its        *)
(* version has not moved, if rules are read consistently.                  *)
RequestMatches(q, item) ==
    /\ item.status # "absent"
    /\ q.expected \in Nat /\ q.expected <= item.version
    /\ q.expected = item.version => q.view = ViewOf(item)
    /\ q.due # 0

RequestsRead ==
    \A c \in Clients :
      client[c].pc \in {"update", "replace"} => RequestMatches(client[c], rule[client[c].rule])

(* A rule that moves leaves what was read of it true of its version. *)
LEMMA WorkStillMatches ==
    ASSUME NEW work \in Works, NEW a \in RuleItems, NEW b \in RuleItems,
           WorkMatches(work, a), RuleStep(a, b)
    PROVE  WorkMatches(work, b)
<1>1. work.version \in Nat /\ a.version \in Nat /\ b.version \in Nat
  BY Zenon DEF Works, RuleItems
<1> QED BY <1>1 DEF WorkMatches, RuleStep, SameContent

(* A rule that moves leaves what a request read of it true of its version. *)
LEMMA RequestStillMatches ==
    ASSUME NEW q, NEW a \in RuleItems, NEW b \in RuleItems,
           RequestMatches(q, a), RuleStep(a, b)
    PROVE  RequestMatches(q, b)
<1>1. a.version \in Nat /\ b.version \in Nat
  BY Zenon DEF RuleItems
<1> QED BY <1>1 DEF RequestMatches, RuleStep, SameContent, ViewOf

(* The rule and the claim of a busy worker, after a step. *)
LEMMA WorkerTyped ==
    ASSUME IInv', NEW w \in Workers, worker'[w].pc # "idle"
    PROVE  worker'[w].rule \in Rules /\ worker'[w].work \in Works
<1>1. worker'[w] \in WorkerStates
  BY Zenon DEF IInv, TypeOK
<1> QED BY <1>1 DEF WorkerStates, Idle

(* The ways a worker moves. *)
LEMMA WorkerMoves ==
    ASSUME IInv, [Next]_vars, NEW w \in Workers, worker'[w].pc # "idle"
    PROVE  \/ worker[w].pc # "idle" /\ worker'[w].rule = worker[w].rule
              /\ worker'[w].work = worker[w].work
           \/ \E r \in Rules, o \in Owners :
                /\ worker'[w].rule = r /\ worker'[w].work = WorkOf(rule[r], o)
                /\ rule[r].status = "active"
<1>0. worker \in [Workers -> WorkerStates]
  BY Zenon DEF IInv, TypeOK
<1>1. CASE worker' = worker
  BY <1>1, Zenon
<1>2. ASSUME NEW x \in Workers, worker' = [worker EXCEPT ![x] = Idle] PROVE worker'[w] = worker[w]
  BY <1>0, <1>2, Zenon DEF Idle
<1>3. ASSUME NEW x \in Workers, NEW o \in Owners, NEW r \in Rules, NEW slot,
             Claim(x, o, r, slot)
      PROVE  \/ worker'[w] = worker[w]
             \/ worker'[w].rule = r /\ worker'[w].work = WorkOf(rule[r], o)
                /\ rule[r].status = "active"
  BY <1>0, <1>3, Zenon DEF Claim, Active
<1>4. ASSUME NEW x \in Workers, LoadState(x)
      PROVE  worker[w].pc # "idle" /\ worker'[w].rule = worker[w].rule
             /\ worker'[w].work = worker[w].work
  BY <1>0, <1>4, Zenon DEF LoadState
<1>5. ASSUME Evaluator
      PROVE  \/ worker[w].pc # "idle" /\ worker'[w].rule = worker[w].rule
                /\ worker'[w].work = worker[w].work
             \/ \E r \in Rules, o \in Owners :
                  /\ worker'[w].rule = r /\ worker'[w].work = WorkOf(rule[r], o)
                  /\ rule[r].status = "active"
  <2>1. PICK x \in Workers :
          \/ \E o \in Owners, r \in Rules, slot \in 1..now : Claim(x, o, r, slot)
          \/ LoadState(x)
          \/ \E result \in Results : Commit(x, result) \/ LoseFence(x, result)
          \/ Crash(x)
    BY <1>5, Zenon DEF Evaluator
  <2>2. ASSUME (\E result \in Results : Commit(x, result) \/ LoseFence(x, result)) \/ Crash(x)
        PROVE  worker'[w] = worker[w]
    BY <1>2, <2>2, Zenon DEF Commit, LoseFence, Crash
  <2>3. worker'[w] = worker[w] => worker[w].pc # "idle"
    BY Zenon
  <2>4. CASE LoadState(x)
    BY <1>4, <2>4, Zenon
  <2>5. CASE \E o \in Owners, r \in Rules, slot \in 1..now : Claim(x, o, r, slot)
    BY <1>3, <2>3, <2>5, ZenonT(30)
  <2> QED BY <2>1, <2>2, <2>3, <2>4, <2>5, Zenon
<1>6. CASE API \/ Operator \/ Tick \/ (\E r \in Rules : ExpireLease(r)) \/ UNCHANGED vars
  <2>1. worker' = worker
    BY <1>6, Zenon DEF API, Operator, Tick, ExpireLease, vars, CreateRule, Acknowledge, BeginResolve,
                BeginUpdate, BeginReplace, CommitReplace, CommitResolve, CommitUpdate,
                EndRequest, ExpireReplay, BackfillSchedule, BackfillActiveAlertIndex
  <2> QED BY <1>1, <2>1, Zenon
<1> QED BY <1>5, <1>6, Zenon DEF Next

(* Every step keeps what the workers know. *)
LEMMA WorkersReadKept == ASSUME IInv, WorkersRead, [Next]_vars PROVE WorkersRead'
<1> SUFFICES ASSUME NEW w \in Workers, worker'[w].pc # "idle"
             PROVE  WorkMatches(worker'[w].work, rule'[worker'[w].rule])
  BY Zenon DEF WorkersRead
<1>0. IInv'
  BY NextKeeps, Zenon
<1>1. rule \in [Rules -> RuleItems] /\ rule' \in [Rules -> RuleItems]
  BY <1>0, Zenon DEF IInv, TypeOK
<1>2. worker'[w].rule \in Rules /\ worker'[w].work \in Works
  BY <1>0, WorkerTyped, Zenon
<1>3. CASE worker[w].pc # "idle" /\ worker'[w].rule = worker[w].rule
           /\ worker'[w].work = worker[w].work
  <2>1. WorkMatches(worker'[w].work, rule[worker'[w].rule])
    BY <1>3, Zenon DEF WorkersRead
  <2>2. RuleStep(rule[worker'[w].rule], rule'[worker'[w].rule])
    BY <1>2, RuleSteps, Zenon
  <2> QED BY <1>1, <1>2, <2>1, <2>2, WorkStillMatches, Zenon
<1>4. ASSUME NEW r \in Rules, NEW o \in Owners,
             worker'[w].rule = r, worker'[w].work = WorkOf(rule[r], o),
             rule[r].status = "active"
      PROVE  WorkMatches(worker'[w].work, rule'[worker'[w].rule])
  <2>1. WorkMatches(WorkOf(rule[r], o), rule[r])
    <3>1. LET work == WorkOf(rule[r], o)
          IN  /\ work.version = rule[r].version /\ work.duration = rule[r].duration
              /\ work.cooldown = rule[r].cooldown /\ work.channels = rule[r].channels
      BY Zenon DEF WorkOf
    <3>2. rule[r].version <= rule[r].version
      BY <1>1 DEF RuleItems
    <3> QED BY <1>4, <3>1, <3>2, Zenon DEF WorkMatches
  <2>2. RuleStep(rule[r], rule'[r])
    BY RuleSteps, Zenon
  <2> QED BY <1>1, <1>2, <1>4, <2>1, <2>2, WorkStillMatches, Zenon
<1> QED BY <1>3, <1>4, WorkerMoves, Zenon

-----------------------------------------------------------------------------
(* The decision, seen from the history: what each arm of Decide does to    *)
(* the fields of the state that an incident and its cooldown occupy.       *)

(* Two states record the same incident and the same last notification. *)
SameIncident(s, t) ==
    /\ t.mode = "active" <=> s.mode = "active"
    /\ t.active = s.active /\ t.activeStatus = s.activeStatus
    /\ t.opening = s.opening /\ t.source = s.source
    /\ t.cooldownUntil = s.cooldownUntil /\ t.lastNotified = s.lastNotified

(* The outboxes of one kind for an event. *)
Notices(e, channels, kind) == {OutboxID(e, ch, kind) : ch \in channels}

Recovers(s, d) ==
    /\ d.transition = "recovered" /\ s.mode = "active" /\ d.event = s.active
    /\ d.next.mode # "active"
    /\ d.next.cooldownUntil = s.cooldownUntil /\ d.next.lastNotified = s.lastNotified
    /\ d.outboxes = IF s.activeStatus = "suppressed" THEN {}
                    ELSE Notices(s.active, s.opening, "recovery")

Suppresses(s, d, slot) ==
    /\ d.transition = "suppressed" /\ s.mode # "active" /\ s.cooldownUntil > slot
    /\ d.event.slot = slot
    /\ d.next.mode = "active" /\ d.next.active = d.event
    /\ d.next.activeStatus = "suppressed" /\ d.next.source = s.lastNotified
    /\ d.next.cooldownUntil = s.cooldownUntil /\ d.next.lastNotified = s.lastNotified
    /\ d.outboxes = {}

Notifies(s, d, slot, work) ==
    /\ d.transition = "opened" /\ s.mode # "active" /\ s.cooldownUntil <= slot
    /\ d.event.slot = slot
    /\ d.next.mode = "active" /\ d.next.active = d.event
    /\ d.next.activeStatus = "open" /\ d.next.source = NoEvent
    /\ d.next.cooldownUntil = slot + work.cooldown /\ d.next.lastNotified = d.event
    /\ d.next.opening = work.channels
    /\ d.outboxes = Notices(d.event, work.channels, "opening")

(* Observing a slot leaves the incident alone. *)
LEMMA ObservedIncident ==
    ASSUME NEW s \in States, NEW ev
    PROVE  SameIncident(s, Observed(s, ev))
BY Zenon DEF Observed, ResetPending, SameIncident, States, Modes

(* Confirming a breach of a rule without an incident leaves it without. *)
LEMMA ConfirmIncident ==
    ASSUME NEW s \in States, s.mode # "active", NEW ev
    PROVE  SameIncident(s, Confirm(s, ev))
<1> DEFINE n == IF Consecutive(s, ev) THEN s.confirmed + 1 ELSE 1
           p == IF Consecutive(s, ev) THEN s.pendingSince ELSE ev.slot
<1>1. Confirm(s, ev) = [s EXCEPT !.mode = "pending", !.confirmed = n, !.pendingSince = p,
                                 !.lastBreach = ev.slot]
  BY Zenon DEF Confirm
<1> HIDE DEF n, p
<1> QED BY <1>1, Zenon DEF SameIncident, States

(* openIncident suppresses inside the cooldown and notifies after it. *)
LEMMA OpenIncidentHistory ==
    ASSUME NEW r \in Rules, NEW rl \in Works, NEW s \in States, s.mode # "active",
           NEW ev, ev.slot \in Nat
    PROVE  LET d == OpenIncident(r, rl, s, ev)
           IN  Suppresses(s, d, ev.slot) \/ Notifies(s, d, ev.slot, rl)
<1> DEFINE event == EventID(r, rl, ev.slot)
           o == Opened(s, event)
<1>1. event \in EventIds /\ event.slot = ev.slot
  BY EventIDType, Zenon DEF EventID
<1>2. o \in States /\ o.mode = "active" /\ o.active = event
      /\ o.cooldownUntil = s.cooldownUntil /\ o.lastNotified = s.lastNotified
  BY <1>1, OpenedType, Zenon DEF Opened, States
<1>3. s.cooldownUntil \in Nat /\ rl.cooldown \in Nat
  BY Zenon DEF States, Works
<1>4. CASE s.cooldownUntil > ev.slot
  <2> DEFINE n == [o EXCEPT !.activeStatus = "suppressed", !.source = s.lastNotified]
  <2>1. OpenIncident(r, rl, s, ev) = Decision(n, "suppressed", event, {})
    BY <1>4, Zenon DEF OpenIncident
  <2> HIDE DEF event, o
  <2>2. /\ n.mode = "active" /\ n.active = event
        /\ n.activeStatus = "suppressed" /\ n.source = s.lastNotified
        /\ n.cooldownUntil = s.cooldownUntil /\ n.lastNotified = s.lastNotified
    BY <1>2, Zenon DEF States
  <2> HIDE DEF n
  <2>3. LET d == Decision(n, "suppressed", event, {})
        IN  d.next = n /\ d.transition = "suppressed" /\ d.event = event /\ d.outboxes = {}
    BY Zenon DEF Decision
  <2> QED BY <1>1, <1>4, <2>1, <2>2, <2>3, Zenon DEF Suppresses
<1>5. CASE ~(s.cooldownUntil > ev.slot)
  <2> DEFINE until == ev.slot + rl.cooldown
             n == [o EXCEPT !.activeStatus = "open", !.source = NoEvent,
                            !.cooldownUntil = until, !.lastNotified = event,
                            !.opening = rl.channels]
             obs == Notices(event, rl.channels, "opening")
  <2>1. OpenIncident(r, rl, s, ev) = Decision(n, "opened", event, obs)
    BY <1>5, Zenon DEF OpenIncident, Notices
  <2>0. s.cooldownUntil <= ev.slot
    BY <1>3, <1>5
  <2> HIDE DEF event, o, until, obs
  <2>2. /\ n.mode = "active" /\ n.active = event
        /\ n.activeStatus = "open" /\ n.source = NoEvent
        /\ n.cooldownUntil = until /\ n.lastNotified = event /\ n.opening = rl.channels
    BY <1>2, Zenon DEF States
  <2> HIDE DEF n
  <2>3. LET d == Decision(n, "opened", event, obs)
        IN  d.next = n /\ d.transition = "opened" /\ d.event = event /\ d.outboxes = obs
    BY Zenon DEF Decision
  <2> QED BY <1>1, <2>0, <2>1, <2>2, <2>3, Zenon DEF Notifies, until, obs
<1> QED BY <1>4, <1>5, Zenon

(* recoverIncident keeps the cooldown and asks for the recovery notices of *)
(* the channels that were told of the opening.                             *)
LEMMA RecoverIncidentHistory ==
    ASSUME NEW s \in States, s.mode = "active"
    PROVE  Recovers(s, RecoverIncident(s))
<1>1. /\ Cleared(s).mode # "active"
      /\ Cleared(s).cooldownUntil = s.cooldownUntil /\ Cleared(s).lastNotified = s.lastNotified
  BY Zenon DEF Cleared, States
<1> QED BY <1>1, Zenon DEF RecoverIncident, Decision, Recovers, Notices

(* A quiet decision stores the state and nothing else. *)
LEMMA QuietFields ==
    ASSUME NEW n
    PROVE  Quiet(n).next = n /\ Quiet(n).transition = "none" /\ Quiet(n).outboxes = {}
BY Zenon DEF Quiet, Decision

(* Every arm of Decide. *)
LEMMA DecideHistory ==
    ASSUME NEW r \in Rules, NEW rl \in Works, NEW cur \in States, WellFormed(r, cur),
           NEW ev, ev.slot \in Nat, ev.result \in Results
    PROVE  LET d == Decide(r, rl, cur, ev)
           IN  \/ /\ d.transition = "none" /\ SameIncident(cur, d.next)
                  /\ d.outboxes = {}
               \/ Recovers(cur, d)
               \/ Suppresses(cur, d, ev.slot)
               \/ Notifies(cur, d, ev.slot, rl)
<1> DEFINE s == Observed(cur, ev)
           c == Confirm(s, ev)
           d == Decide(r, rl, cur, ev)
<1>1. s \in States /\ SameIncident(cur, s)
  BY ObservedType, ObservedIncident, Zenon
<1>2. c \in States
  BY <1>1, ConfirmType, Zenon
<1>3. s.mode # "active" => SameIncident(s, c) /\ SameIncident(s, ResetPending(s))
  BY <1>1, ConfirmIncident DEF ResetPending, SameIncident, States
<1>4. d = CASE ev.result = "indeterminate"               -> Quiet(s)
            [] ev.result = "breach" /\ s.mode = "active" -> Quiet(s)
            [] ev.result = "clean" /\ s.mode = "active"  -> RecoverIncident(s)
            [] ev.result = "clean" /\ s.mode # "active"  -> Quiet(ResetPending(s))
            [] ev.result = "breach" /\ s.mode # "active" ->
                 IF c.confirmed < RequiredSlots(rl.duration)
                 THEN Quiet(c) ELSE OpenIncident(r, rl, c, ev)
  BY Zenon DEF Decide
<1> HIDE DEF s, c
<1>5. ASSUME NEW n, d = Quiet(n), SameIncident(s, n)
      PROVE  d.transition = "none" /\ SameIncident(cur, d.next) /\ d.outboxes = {}
  <2>1. d.next = n /\ d.transition = "none" /\ d.outboxes = {}
    BY <1>5, QuietFields, Zenon
  <2> QED BY <1>1, <1>5, <2>1, Zenon DEF SameIncident
<1>6. CASE ev.result = "indeterminate" \/ (ev.result = "breach" /\ s.mode = "active")
  <2>1. d = Quiet(s)
    BY <1>4, <1>6, Zenon
  <2> QED BY <1>5, <2>1, Zenon DEF SameIncident
<1>7. CASE ev.result = "clean" /\ s.mode = "active"
  <2>1. d = RecoverIncident(s)
    BY <1>4, <1>7, Zenon
  <2>2. Recovers(s, d)
    BY <1>1, <1>7, <2>1, RecoverIncidentHistory, Zenon
  <2> QED BY <1>1, <2>2, Zenon DEF Recovers, SameIncident
<1>8. CASE ev.result = "clean" /\ s.mode # "active"
  <2>1. d = Quiet(ResetPending(s))
    BY <1>4, <1>8, Zenon
  <2> QED BY <1>3, <1>5, <1>8, <2>1, ZenonT(30)
<1>9. CASE ev.result = "breach" /\ s.mode # "active"
  <2>1. d = IF c.confirmed < RequiredSlots(rl.duration)
            THEN Quiet(c) ELSE OpenIncident(r, rl, c, ev)
    BY <1>4, <1>9, ZenonT(30)
  <2>2. SameIncident(s, c) /\ c.mode # "active"
    BY <1>3, <1>9, Zenon DEF SameIncident
  <2>3. CASE c.confirmed < RequiredSlots(rl.duration)
    BY <1>5, <2>1, <2>2, <2>3, Zenon
  <2>4. CASE ~(c.confirmed < RequiredSlots(rl.duration))
    <3>1. d = OpenIncident(r, rl, c, ev)
      BY <2>1, <2>4, Zenon
    <3>2. Suppresses(c, d, ev.slot) \/ Notifies(c, d, ev.slot, rl)
      BY <1>2, <2>2, <3>1, OpenIncidentHistory, Zenon
    <3>3. c.mode # "active" /\ cur.mode # "active"
          /\ c.cooldownUntil = cur.cooldownUntil /\ c.lastNotified = cur.lastNotified
      BY <1>1, <2>2, Zenon DEF SameIncident
    <3> QED BY <3>2, <3>3, Zenon DEF Suppresses, Notifies
  <2> QED BY <2>3, <2>4, Zenon
<1> QED BY <1>6, <1>7, <1>8, <1>9, Zenon DEF Results

-----------------------------------------------------------------------------
(***************************************************************************)
(* The history.  Seen from the events and the notifications, every step of *)
(* the system is one of three: it opens an incident, ends one, or notes    *)
(* something that changes neither.                                         *)
(***************************************************************************)

(* list_active_events finds this event exactly when it should. *)
IndexExact(e, item) ==
    /\ item.indexed => item.status \in {"open", "acknowledged"}
    /\ item.status \in {"open", "acknowledged"} /\ e.slot > LegacySlot => item.indexed

(* What an event says of its opening is never rewritten. *)
Kept(e, a, b) ==
    /\ b.source = a.source /\ b.cooldownUntil = a.cooldownUntil /\ b.channels = a.channels
    /\ b.duration = a.duration /\ b.gen = a.gen
    /\ IndexExact(e, a) => IndexExact(e, b)

Noted ==
    /\ outboxes' = outboxes
    /\ DOMAIN events' = DOMAIN events
    /\ \A e \in DOMAIN events : Kept(e, events[e], events'[e])
                                /\ events'[e].reason = events[e].reason
    /\ \A r \in Rules : SameIncident(state[r], state'[r])

Ends(r, e, reason) ==
    /\ state[r].mode = "active" /\ state[r].active = e /\ e \in DOMAIN events
    /\ reason \in {"recovered", "manual", "administrative"}
    /\ DOMAIN events' = DOMAIN events
    /\ \A f \in DOMAIN events :
         /\ Kept(f, events[f], events'[f])
         /\ events'[f].reason = IF f = e THEN reason ELSE events[f].reason
    /\ state'[r].mode # "active"
    /\ state'[r].cooldownUntil = state[r].cooldownUntil
    /\ state'[r].lastNotified = state[r].lastNotified
    /\ \A x \in Rules \ {r} : state'[x] = state[x]
    /\ outboxes' = outboxes \cup
                   (IF reason = "recovered" /\ state[r].activeStatus # "suppressed"
                    THEN Notices(e, state[r].opening, "recovery") ELSE {})

Opens(r, e) ==
    /\ state[r].mode # "active"
    /\ e \in EventIds /\ e.rule = r /\ e \notin DOMAIN events
    /\ DOMAIN events' = DOMAIN events \cup {e}
    /\ \A f \in DOMAIN events : events'[f] = events[f]
    /\ events'[e].reason = "none" /\ IndexExact(e, events'[e])
    /\ events'[e].source = state'[r].source
    /\ state'[r].mode = "active" /\ state'[r].active = e
    /\ \A x \in Rules \ {r} : state'[x] = state[x]
    /\ \/ /\ state[r].cooldownUntil > e.slot
          /\ state'[r].activeStatus = "suppressed" /\ state'[r].source = state[r].lastNotified
          /\ state'[r].cooldownUntil = state[r].cooldownUntil
          /\ state'[r].lastNotified = state[r].lastNotified
          /\ outboxes' = outboxes
       \/ /\ state[r].cooldownUntil <= e.slot
          /\ state'[r].activeStatus = "open" /\ state'[r].source = NoEvent
          /\ state'[r].cooldownUntil = events'[e].cooldownUntil
          /\ e.slot <= events'[e].cooldownUntil
          /\ state'[r].lastNotified = e
          /\ state'[r].opening = events'[e].channels
          /\ outboxes' = outboxes \cup Notices(e, events'[e].channels, "opening")

HistoryStep ==
    \/ Noted
    \/ \E r \in Rules, e \in DOMAIN events, reason \in {"recovered", "manual", "administrative"} :
         Ends(r, e, reason)
    \/ \E r \in Rules, e \in EventIds : Opens(r, e)

(* An opening inside the cooldown names its source, one after it none. *)
LEMMA OpensCooling ==
    ASSUME NEW r, NEW e, Opens(r, e), state[r].cooldownUntil \in Nat, e.slot \in Nat,
           state[r].cooldownUntil > e.slot
    PROVE  /\ state'[r].source = state[r].lastNotified
           /\ state'[r].cooldownUntil = state[r].cooldownUntil
           /\ state'[r].lastNotified = state[r].lastNotified
           /\ events'[e].source = state'[r].source
           /\ outboxes' = outboxes
<1>1. ~(state[r].cooldownUntil <= e.slot)
  OBVIOUS
<1> QED BY <1>1, Zenon DEF Opens

LEMMA OpensCooled ==
    ASSUME NEW r, NEW e, Opens(r, e), state[r].cooldownUntil \in Nat, e.slot \in Nat,
           state[r].cooldownUntil <= e.slot
    PROVE  /\ state'[r].source = NoEvent /\ events'[e].source = NoEvent
           /\ state'[r].cooldownUntil = events'[e].cooldownUntil
           /\ e.slot <= events'[e].cooldownUntil
           /\ state'[r].lastNotified = e
           /\ outboxes' = outboxes \cup Notices(e, events'[e].channels, "opening")
<1>1. ~(state[r].cooldownUntil > e.slot)
  OBVIOUS
<1> QED BY <1>1, Zenon DEF Opens

(* Resolving an event keeps what it says of its opening and takes it off the index. *)
LEMMA ResolutionKept ==
    ASSUME NEW e, NEW item \in Events, NEW reason
    PROVE  /\ Kept(e, item, Resolution(item, reason))
           /\ Resolution(item, reason).reason = reason
BY Zenon DEF Resolution, Kept, IndexExact, Events

(* A transaction that resolves the active event of a rule and clears its state ends it. *)
LEMMA ResolvedEnds ==
    ASSUME IInv, NEW r \in Rules, NEW e, NEW n, NEW reason,
           state[r].mode = "active", state[r].active = e,
           reason \in {"recovered", "manual", "administrative"},
           events' = [events EXCEPT ![e] = Resolution(@, reason)],
           state' = [state EXCEPT ![r] = n],
           n.mode # "active", n.cooldownUntil = state[r].cooldownUntil,
           n.lastNotified = state[r].lastNotified,
           outboxes' = outboxes \cup
                       (IF reason = "recovered" /\ state[r].activeStatus # "suppressed"
                        THEN Notices(e, state[r].opening, "recovery") ELSE {})
    PROVE  HistoryStep
<1>1. e \in Unresolved(r)
  BY Zenon DEF IInv, IncidentMatchesState
<1>2. e \in DOMAIN events /\ \A f \in DOMAIN events : events[f] \in Events
  BY <1>1, ZenonT(30) DEF Unresolved, EventsOf, IInv, TypeOK
<1>3. DOMAIN events' = DOMAIN events
  BY Zenon
<1>4. \A f \in DOMAIN events :
         events'[f] = IF f = e THEN Resolution(events[f], reason) ELSE events[f]
  BY Zenon
<1>5. \A f \in DOMAIN events :
         /\ Kept(f, events[f], events'[f])
         /\ events'[f].reason = IF f = e THEN reason ELSE events[f].reason
  <2> SUFFICES ASSUME NEW f \in DOMAIN events
               PROVE  /\ Kept(f, events[f], events'[f])
                      /\ events'[f].reason = IF f = e THEN reason ELSE events[f].reason
    BY Zenon
  <2>1. CASE f = e
    BY <1>2, <1>4, <2>1, ResolutionKept
  <2>2. CASE f # e
    BY <1>4, <2>2, Zenon DEF Kept
  <2> QED BY <2>1, <2>2, ZenonT(30)
<1>6. state'[r] = n /\ \A x \in Rules \ {r} : state'[x] = state[x]
  BY Zenon DEF IInv, TypeOK
<1>7. Ends(r, e, reason)
  BY <1>2, <1>3, <1>5, <1>6, Zenon DEF Ends
<1> QED BY <1>2, <1>7, ZenonT(30) DEF HistoryStep

(* The evaluator's commit, seen from the history. *)
LEMMA CommitHistory ==
    ASSUME IInv, WorkersRead, NEW w \in Workers, NEW result \in Results, Commit(w, result)
    PROVE  HistoryStep
<1> DEFINE wk == worker[w]
           ev == [slot |-> wk.slot, result |-> result,
                  missed |-> MissedSlots(wk.work.nextDue, wk.slot)]
           d == Evaluated(wk, result)
           n == [d.next EXCEPT !.rev = wk.snap.rev + 1]
<1>0. wk.rule \in Rules /\ wk.slot \in Nat /\ wk.work \in Works /\ wk.snap \in States
  BY WorkerFields, ZenonT(30) DEF IInv, Commit
<1>1. PICK r \in Rules : r = wk.rule
  BY <1>0, ZenonT(30)
<1>2. SnapshotOf(r, wk.snap, state[r])
  BY <1>1, ZenonT(30) DEF IInv, WorkerSnapshots, Snapshot, Commit
<1>3. wk.snap = state[r] /\ state[r] \in States
  BY <1>0, <1>1, <1>2, Zenon DEF SnapshotOf, Commit, Writable, IInv, TypeOK
<1>4. /\ Outcome(r, state[r], d)
      /\ \/ d.transition = "none" /\ SameIncident(state[r], d.next) /\ d.outboxes = {}
         \/ Recovers(state[r], d)
         \/ Suppresses(state[r], d, wk.slot)
         \/ Notifies(state[r], d, wk.slot, wk.work)
  <2>1. ev.slot \in Nat /\ ev.result \in Results /\ ev.slot = wk.slot
    BY <1>0, Zenon
  <2>2. d = Decide(r, wk.work, state[r], ev)
    BY <1>1, <1>3, Zenon DEF Evaluated
  <2>3. WellFormed(r, state[r])
    BY <1>2, <1>3, Zenon DEF SnapshotOf
  <2> HIDE DEF ev, d, wk
  <2> QED BY <1>0, <1>3, <2>1, <2>2, <2>3, DecideOutcome, DecideHistory, ZenonT(30)
<1>5. /\ Writable(r, wk.snap, d)
      /\ Fenced(rule[r], wk.work)
      /\ state' = [state EXCEPT ![r] = n]
      /\ events' = CommittedEvents(r, wk, d)
      /\ outboxes' = outboxes \cup d.outboxes
  BY <1>1, Zenon DEF Commit
<1>6. d.next \in States
  BY <1>4, Zenon DEF Outcome
<1> HIDE DEF d
<1>7. SameIncident(d.next, n)
  BY <1>6, Zenon DEF States, SameIncident
<1> HIDE DEF n
<1>8. state'[r] = n /\ \A x \in Rules \ {r} : state'[x] = state[x]
  BY <1>5, Zenon DEF IInv, TypeOK
<1>9. wk.work.cooldown = rule[r].cooldown /\ wk.work.channels = rule[r].channels
  BY <1>1, <1>5, Zenon DEF WorkersRead, WorkMatches, Commit, Fenced
<1>10. CASE d.transition = "none"
  <2>1. SameIncident(state[r], d.next) /\ d.outboxes = {}
    BY <1>4, <1>10, Zenon DEF Recovers, Suppresses, Notifies
  <2>2. events' = events
    BY <1>5, <1>10, Zenon DEF CommittedEvents
  <2>3. \A x \in Rules : SameIncident(state[x], state'[x])
    <3>1. SameIncident(state[r], state'[r])
      BY <1>7, <1>8, <2>1, Zenon DEF SameIncident
    <3>2. ASSUME NEW x \in Rules, x # r PROVE SameIncident(state[x], state'[x])
      BY <1>8, <3>2, Zenon DEF SameIncident
    <3> QED BY <3>1, <3>2, Zenon
  <2>4. outboxes' = outboxes
    BY <1>5, <2>1, Zenon
  <2> QED BY <2>2, <2>3, <2>4, ZenonT(30) DEF HistoryStep, Noted, Kept
<1>11. CASE d.transition = "recovered"
  <2>1. Recovers(state[r], d)
    BY <1>4, <1>11, Zenon DEF Suppresses, Notifies
  <2>2. events' = [events EXCEPT ![d.event] = Resolution(@, "recovered")]
    BY <1>5, <1>11, Zenon DEF CommittedEvents
  <2>3. /\ n.mode # "active" /\ n.cooldownUntil = state[r].cooldownUntil
        /\ n.lastNotified = state[r].lastNotified
    BY <1>7, <2>1, Zenon DEF Recovers, SameIncident
  <2>4. /\ state[r].mode = "active" /\ state[r].active = d.event
        /\ outboxes' = outboxes \cup
                       (IF "recovered" = "recovered" /\ state[r].activeStatus # "suppressed"
                        THEN Notices(d.event, state[r].opening, "recovery") ELSE {})
    BY <1>5, <2>1, Zenon DEF Recovers
  <2>5. "recovered" \in {"recovered", "manual", "administrative"}
    BY Zenon
  <2>6. state' = [state EXCEPT ![r] = n]
    BY <1>5, Zenon
  <2> QED BY <2>2, <2>3, <2>4, <2>5, <2>6, ResolvedEnds, Zenon
<1>12. CASE d.transition \in {"opened", "suppressed"}
  <2> DEFINE v == EventItem(rule[r], d.next.activeStatus, d.transition = "opened",
                            d.next.source, wk.slot)
  <2>1. /\ d.event \in EventIds /\ d.event.rule = r /\ d.event \notin DOMAIN events
        /\ state[r].mode # "active"
    BY <1>4, <1>5, <1>12, Zenon DEF Outcome, Writable
  <2>2. events' = With(events, d.event, v)
    BY <1>5, <1>12, Zenon DEF CommittedEvents
  <2>3. /\ v.reason = "none" /\ v.source = d.next.source
        /\ v.status = d.next.activeStatus /\ v.indexed = (d.transition = "opened")
        /\ v.cooldownUntil = wk.slot + rule[r].cooldown /\ v.channels = rule[r].channels
    BY Zenon DEF EventItem
  <2> HIDE DEF v
  <2>4. /\ DOMAIN events' = DOMAIN events \cup {d.event}
        /\ events'[d.event] = v
        /\ \A f \in DOMAIN events : events'[f] = events[f]
    BY <2>1, <2>2, Zenon DEF With
  <2>5. CASE d.transition = "suppressed"
    <3>1. Suppresses(state[r], d, wk.slot)
      BY <1>4, <2>5, ZenonT(30) DEF Recovers, Notifies
    <3>2. IndexExact(d.event, v)
      BY <2>3, <2>5, <3>1, Zenon DEF IndexExact, Suppresses
    <3>3. Opens(r, d.event)
      BY <1>5, <1>7, <1>8, <2>1, <2>3, <2>4, <3>1, <3>2, Zenon DEF Opens, Suppresses, SameIncident
    <3> QED BY <2>1, <3>3, Zenon DEF HistoryStep
  <2>6. CASE d.transition = "opened"
    <3>1. Notifies(state[r], d, wk.slot, wk.work)
      BY <1>4, <2>6, Zenon DEF Recovers, Suppresses
    <3>2. IndexExact(d.event, v)
      BY <2>3, <2>6, <3>1, Zenon DEF IndexExact, Notifies
    <3>3. v.cooldownUntil = d.next.cooldownUntil /\ d.event.slot <= v.cooldownUntil
          /\ v.channels = d.next.opening
      <4>1. rule[r].cooldown \in Nat
        BY Zenon DEF IInv, TypeOK, RuleItems
      <4> QED BY <1>0, <1>9, <2>3, <3>1, <4>1 DEF Notifies
    <3>4. d.outboxes = Notices(d.event, v.channels, "opening")
      BY <1>9, <2>3, <3>1, Zenon DEF Notifies
    <3>5. /\ n.mode = "active" /\ n.active = d.event /\ n.activeStatus = "open"
          /\ n.source = NoEvent /\ n.lastNotified = d.event /\ state[r].cooldownUntil <= d.event.slot
          /\ n.cooldownUntil = v.cooldownUntil /\ n.opening = v.channels /\ v.source = NoEvent
      BY <1>7, <2>3, <3>1, <3>3, Zenon DEF Notifies, SameIncident
    <3>6. Opens(r, d.event)
      BY <1>5, <1>8, <2>1, <2>3, <2>4, <3>2, <3>3, <3>4, <3>5, Zenon DEF Opens
    <3> QED BY <2>1, <3>6, Zenon DEF HistoryStep
  <2> QED BY <1>12, <2>5, <2>6, ZenonT(30)
<1> QED BY <1>4, <1>10, <1>11, <1>12, ZenonT(30) DEF Outcome

(* What the API writes when it ends an incident keeps the cooldown. *)
LEMMA ResolvedStateFields ==
    ASSUME NEW s \in States
    PROVE  LET n == Rewritten(ResolvedState(s), s)
           IN  n.mode # "active" /\ n.cooldownUntil = s.cooldownUntil
               /\ n.lastNotified = s.lastNotified
BY Zenon DEF Rewritten, ResolvedState, Cleared, States

(* resolve_event, seen from the history. *)
LEMMA CommitResolveHistory ==
    ASSUME IInv, NEW c \in Clients, CommitResolve(c)
    PROVE  HistoryStep
<1> DEFINE q == client[c]
           n == Rewritten(ResolvedState(q.snap), q.snap)
<1>1. q.event \in EventIds /\ q.snap \in States
  BY ClientFields, Zenon DEF IInv, CommitResolve
<1>2. PICK e \in EventIds : e = q.event
  BY <1>1, Zenon
<1>3. e.rule \in Rules
  BY Zenon DEF EventIds
<1>4. PICK r \in Rules : r = e.rule
  BY <1>3, Zenon
<1>5. /\ SnapshotOf(r, q.snap, state[r])
      /\ q.writesState /\ q.snap.mode = "active" /\ q.snap.active = e
  BY <1>2, <1>4, Zenon DEF IInv, ClientSnapshots, Snapshot, CommitResolve
<1>6. /\ events' = [events EXCEPT ![e] = Resolution(@, "manual")]
      /\ state' = [state EXCEPT ![r] = n]
      /\ state[r].rev = q.snap.rev /\ outboxes' = outboxes
  BY <1>2, <1>4, <1>5, Zenon DEF CommitResolve
<1>7. q.snap = state[r]
  BY <1>5, <1>6, Zenon DEF SnapshotOf
<1>8. /\ n.mode # "active" /\ n.cooldownUntil = state[r].cooldownUntil
      /\ n.lastNotified = state[r].lastNotified
  BY <1>1, <1>7, ResolvedStateFields, Zenon
<1> HIDE DEF q, n
<1>9. outboxes' = outboxes \cup
                  (IF "manual" = "recovered" /\ state[r].activeStatus # "suppressed"
                   THEN Notices(e, state[r].opening, "recovery") ELSE {})
  BY <1>6, Zenon
<1>10. "manual" \in {"recovered", "manual", "administrative"}
  BY Zenon
<1> QED BY <1>5, <1>6, <1>7, <1>8, <1>9, <1>10, ResolvedEnds, Zenon

(* The resolution a PATCH or a replacement carries, seen from the history. *)
LEMMA AdministrativeHistory ==
    ASSUME IInv, NEW r \in Rules, NEW snap \in States, SnapshotOf(r, snap, state[r]),
           NEW view, AdministrativeResolution(r, snap, view), outboxes' = outboxes
    PROVE  HistoryStep
<1> DEFINE n == AdministrativelyResolved(snap)
<1>1. snap = state[r]
  BY Zenon DEF AdministrativeResolution, SnapshotOf
<1>2. state' = [state EXCEPT ![r] = n]
  BY Zenon DEF AdministrativeResolution
<1>3. CASE snap.mode = "active"
  <2>1. n = Rewritten(ResolvedState(snap), snap)
    BY <1>3, Zenon DEF AdministrativelyResolved
  <2>2. /\ n.mode # "active" /\ n.cooldownUntil = state[r].cooldownUntil
        /\ n.lastNotified = state[r].lastNotified
    BY <1>1, <2>1, ResolvedStateFields, Zenon
  <2> HIDE DEF n
  <2>3. events' = [events EXCEPT ![snap.active] = Resolution(@, "administrative")]
    BY <1>3, Zenon DEF AdministrativeResolution
  <2>4. outboxes' = outboxes \cup
                    (IF "administrative" = "recovered" /\ state[r].activeStatus # "suppressed"
                     THEN Notices(snap.active, state[r].opening, "recovery") ELSE {})
    BY Zenon
  <2>5. "administrative" \in {"recovered", "manual", "administrative"}
    BY Zenon
  <2>6. state[r].mode = "active" /\ state[r].active = snap.active
    BY <1>1, <1>3, Zenon
  <2> QED BY <1>2, <2>2, <2>3, <2>4, <2>5, <2>6, ResolvedEnds, Zenon
<1>4. CASE snap.mode # "active"
  <2>1. events' = events
    BY <1>4, Zenon DEF AdministrativeResolution
  <2>2. SameIncident(snap, n)
    BY <1>4, Zenon DEF AdministrativelyResolved, Rewritten, ResetPending, States, Modes, SameIncident
  <2> HIDE DEF n
  <2>3. \A x \in Rules : SameIncident(state[x], state'[x])
    <3>1. \A x \in Rules : state'[x] = IF x = r THEN n ELSE state[x]
      BY <1>2, Zenon DEF IInv, TypeOK
    <3> QED BY <1>1, <2>2, <3>1, Zenon DEF SameIncident
  <2> QED BY <2>1, <2>3, Zenon DEF HistoryStep, Noted, Kept
<1> QED BY <1>3, <1>4, Zenon

(* update_rule and replace_rule, seen from the history. *)
LEMMA RuleWriteHistory ==
    ASSUME IInv, NEW c \in Clients,
           CommitUpdate(c) \/ \E key \in Keys : CommitReplace(c, key)
    PROVE  HistoryStep
<1> DEFINE q == client[c]
<1>1. q.rule \in Rules /\ q.snap \in States
  BY ClientFields, Zenon DEF IInv, CommitUpdate, CommitReplace
<1>2. PICK r \in Rules : r = q.rule
  BY <1>1, Zenon
<1>3. SnapshotOf(r, q.snap, state[r])
  BY <1>2, Zenon DEF IInv, ClientSnapshots, Snapshot, CommitUpdate, CommitReplace
<1>4. outboxes' = outboxes
  BY Zenon DEF CommitUpdate, CommitReplace
<1>5. \/ AdministrativeResolution(r, q.snap, q.view)
      \/ UNCHANGED <<state, events>>
  BY <1>2, Zenon DEF CommitUpdate, CommitReplace
<1> HIDE DEF q
<1>6. CASE AdministrativeResolution(r, q.snap, q.view)
  BY <1>1, <1>3, <1>4, <1>6, AdministrativeHistory, Zenon
<1>7. CASE UNCHANGED <<state, events>>
  BY <1>4, <1>7, Zenon DEF HistoryStep, Noted, Kept, SameIncident
<1> QED BY <1>5, <1>6, <1>7, Zenon

(* Acknowledging an event or indexing an old one only notes it. *)
LEMMA EventNoted ==
    ASSUME IInv, NEW e \in DOMAIN events, BackfillActiveAlertIndex(e) \/ Acknowledge(e)
    PROVE  HistoryStep
<1>1. outboxes' = outboxes /\ state' = state /\ DOMAIN events' = DOMAIN events
  BY Zenon DEF BackfillActiveAlertIndex, Acknowledge
<1>2. \A f \in DOMAIN events : f # e => events'[f] = events[f]
  BY Zenon DEF BackfillActiveAlertIndex, Acknowledge
<1>3. events[e] \in Events
  BY Zenon DEF IInv, TypeOK
<1>4. Kept(e, events[e], events'[e]) /\ events'[e].reason = events[e].reason
  <2>1. CASE BackfillActiveAlertIndex(e)
    <3>1. events'[e] = [events[e] EXCEPT !.indexed = TRUE]
          /\ events[e].status \in {"open", "acknowledged"}
      BY <2>1, Zenon DEF BackfillActiveAlertIndex
    <3> QED BY <1>3, <3>1, ZenonT(30) DEF Kept, IndexExact, Events
  <2>2. CASE Acknowledge(e)
    <3>1. events'[e] = [events[e] EXCEPT !.status = "acknowledged", !.version = @ + 1]
          /\ events[e].status = "open"
      BY <2>2, Zenon DEF Acknowledge
    <3> QED BY <1>3, <3>1 DEF Kept, IndexExact, Events
  <2> QED BY <2>1, <2>2, Zenon
<1>5. \A f \in DOMAIN events : Kept(f, events[f], events'[f]) /\ events'[f].reason = events[f].reason
  BY <1>2, <1>4, Zenon DEF Kept
<1> QED BY <1>1, <1>5, Zenon DEF HistoryStep, Noted, SameIncident

(* Every step opens an incident, ends one or changes nothing of the history. *)
LEMMA HistorySteps == ASSUME IInv, WorkersRead, [Next]_vars PROVE HistoryStep
<1>1. ASSUME outboxes' = outboxes, events' = events, state' = state PROVE HistoryStep
  BY <1>1, Zenon DEF HistoryStep, Noted, Kept, SameIncident
<1>2. ASSUME \/ ItemsUnchanged
             \/ \E w \in Workers, o \in Owners, r \in Rules, slot \in 1..now : Claim(w, o, r, slot)
             \/ \E r \in Rules : ExpireLease(r)
             \/ \E r \in Rules, at \in BackfillTimes : BackfillSchedule(r, at)
             \/ \E r \in Rules, def \in Definitions, due \in NextCompleteSlot(now) :
                  CreateRule(r, def, due)
             \/ \E key \in Keys : ExpireReplay(key)
      PROVE  HistoryStep
  <2>1. outboxes' = outboxes /\ events' = events /\ state' = state
    BY <1>2, ZenonT(30) DEF ItemsUnchanged, Claim, ExpireLease, BackfillSchedule, CreateRule, ExpireReplay
  <2> QED BY <1>1, <2>1, Zenon
<1>3. ASSUME NEW w \in Workers, NEW result \in Results, Commit(w, result) PROVE HistoryStep
  BY <1>3, CommitHistory, Zenon
<1>4. ASSUME NEW c \in Clients, CommitResolve(c) \/ CommitUpdate(c) PROVE HistoryStep
  BY <1>4, CommitResolveHistory, RuleWriteHistory, Zenon
<1>5. ASSUME NEW c \in Clients, NEW key \in Keys, CommitReplace(c, key) PROVE HistoryStep
  BY <1>5, RuleWriteHistory, Zenon
<1>6. ASSUME NEW e \in DOMAIN events, BackfillActiveAlertIndex(e) \/ Acknowledge(e)
      PROVE  HistoryStep
  BY <1>6, EventNoted, Zenon
<1> QED BY <1>2, <1>3, <1>4, <1>5, <1>6, WriterCases, Zenon

-----------------------------------------------------------------------------
(* Cooldowns, the active index and notifications. *)

(* The incident in a state is the one its event describes. *)
IncidentDescribed(r) ==
    state[r].mode = "active" =>
      LET e == state[r].active
      IN  /\ events[e].reason = "none"
          /\ events[e].source = state[r].source
          /\ state[r].activeStatus = "suppressed" <=> state[r].source # NoEvent
          /\ state[r].source = NoEvent => state[r].opening = events[e].channels

(* The cooldown in a state is that of the last notified event of its rule, *)
(* and no notified event of the rule cools down later.                     *)
CooldownKept(r) ==
    /\ \A f \in EventsOf(r) :
         Notified(f) => /\ f.slot <= events[f].cooldownUntil
                        /\ events[f].cooldownUntil <= state[r].cooldownUntil
    /\ state[r].cooldownUntil > 0 =>
         /\ state[r].lastNotified \in EventsOf(r)
         /\ Notified(state[r].lastNotified)
         /\ events[state[r].lastNotified].cooldownUntil = state[r].cooldownUntil

(* A notification an event owes its subscribers. *)
Promised(o) ==
    /\ o \in OutboxIds
    /\ o.event \in DOMAIN events /\ Notified(o.event)
    /\ o.channel \in events[o.event].channels
    /\ o.kind = "opening" \/ events[o.event].reason = "recovered"

(* The inductive invariant of the history. *)
HistInv ==
    /\ WorkersRead
    /\ \A r \in Rules : IncidentDescribed(r) /\ CooldownKept(r)
    /\ CooldownRespected
    /\ \A e \in DOMAIN events : IndexExact(e, events[e])
    /\ \A o : o \in outboxes <=> Promised(o)

(* The active event of a rule is one of its events. *)
LEMMA ActiveEvent ==
    ASSUME IInv, NEW r \in Rules, state[r].mode = "active"
    PROVE  state[r].active \in EventsOf(r) /\ state[r].active \in DOMAIN events
           /\ state[r].active.rule = r
<1>1. state[r].active \in Unresolved(r)
  BY Zenon DEF IInv, IncidentMatchesState
<1> QED BY <1>1, Zenon DEF Unresolved, EventsOf

(* Membership in the notifications of one event and kind. *)
LEMMA NoticeMember ==
    ASSUME NEW e \in EventIds, NEW channels \in SUBSET Channels, NEW kind \in Kinds, NEW o
    PROVE  o \in Notices(e, channels, kind)
           <=> o \in OutboxIds /\ o.event = e /\ o.channel \in channels /\ o.kind = kind
BY DEF Notices, OutboxID, OutboxIds

(* What an event says of its opening, after a step. *)
Lasting ==
    /\ DOMAIN events \subseteq DOMAIN events'
    /\ \A e \in DOMAIN events : Kept(e, events[e], events'[e])

(* No step drops an event or rewrites its opening. *)
LEMMA HistoryLasts == ASSUME HistoryStep PROVE Lasting
<1>1. CASE Noted
  BY <1>1, Zenon DEF Noted, Lasting
<1>2. ASSUME NEW r, NEW e, NEW reason, Ends(r, e, reason) PROVE Lasting
  BY <1>2, Zenon DEF Ends, Lasting
<1>3. ASSUME NEW r, NEW e, Opens(r, e) PROVE Lasting
  BY <1>3, Zenon DEF Opens, Lasting, Kept
<1> QED BY <1>1, <1>2, <1>3, Zenon DEF HistoryStep

(* The described incidents stay described: a step that only notes something. *)
LEMMA DescribedNoted ==
    ASSUME IInv, NEW r \in Rules, IncidentDescribed(r), Noted
    PROVE  IncidentDescribed(r)'
<1> SUFFICES ASSUME state'[r].mode = "active" PROVE IncidentDescribed(r)'
  BY Zenon DEF IncidentDescribed
<1>1. SameIncident(state[r], state'[r])
  BY Zenon DEF Noted
<1>2. state[r].mode = "active" /\ state[r].active \in DOMAIN events
  BY <1>1, ActiveEvent, Zenon DEF SameIncident
<1>3. events'[state[r].active].reason = events[state[r].active].reason
      /\ Kept(state[r].active, events[state[r].active], events'[state[r].active])
  BY <1>2, Zenon DEF Noted
<1> QED BY <1>1, <1>2, <1>3, ZenonT(30) DEF IncidentDescribed, SameIncident, Kept

(* Ending the incident of one rule leaves those of the others described. *)
LEMMA DescribedEnds ==
    ASSUME IInv, NEW x \in Rules, IncidentDescribed(x),
           NEW r \in Rules, NEW e, NEW reason, Ends(r, e, reason)
    PROVE  IncidentDescribed(x)'
<1>1. CASE x = r
  <2>1. ~(state'[x].mode = "active")
    BY <1>1, Zenon DEF Ends
  <2> QED BY <2>1, Zenon DEF IncidentDescribed
<1>2. CASE x # r
  <2>1. state'[x] = state[x]
    BY <1>2, Zenon DEF Ends
  <2> SUFFICES ASSUME state[x].mode = "active" PROVE IncidentDescribed(x)'
    BY <2>1, Zenon DEF IncidentDescribed
  <2>2. state[x].active \in DOMAIN events /\ state[x].active.rule = x
    BY ActiveEvent, Zenon
  <2>3. state[x].active # e
    BY <1>2, <2>2, ActiveEvent, Zenon DEF Ends
  <2>4. events'[state[x].active].reason = events[state[x].active].reason
        /\ Kept(state[x].active, events[state[x].active], events'[state[x].active])
    BY <2>2, <2>3, Zenon DEF Ends
  <2> QED BY <2>1, <2>4, ZenonT(30) DEF IncidentDescribed, Kept
<1> QED BY <1>1, <1>2, Zenon

(* A rule in its cooldown names the notified event it cools down from. *)
LEMMA CoolingSource ==
    ASSUME IInv, NEW r \in Rules, CooldownKept(r), NEW slot \in Nat, state[r].cooldownUntil > slot
    PROVE  /\ state[r].lastNotified \in EventsOf(r)
           /\ Notified(state[r].lastNotified)
           /\ events[state[r].lastNotified].cooldownUntil = state[r].cooldownUntil
           /\ state[r].lastNotified # NoEvent
<1>1. state[r].cooldownUntil \in Nat
  BY Zenon DEF IInv, TypeOK, States
<1>2. state[r].cooldownUntil > 0
  BY <1>1
<1>3. EventsOf(r) \subseteq EventIds
  BY Zenon DEF EventsOf, IInv, TypeOK
<1> QED BY <1>2, <1>3, NoEventAssumption, Zenon DEF CooldownKept

(* Opening an incident describes it. *)
LEMMA DescribedOpens ==
    ASSUME IInv, NEW x \in Rules, IncidentDescribed(x), CooldownKept(x),
           NEW r \in Rules, NEW e, Opens(r, e)
    PROVE  IncidentDescribed(x)'
<1>1. CASE x = r
  <2>1. state'[x].active = e /\ events'[e].reason = "none" /\ events'[e].source = state'[x].source
    BY <1>1, Zenon DEF Opens
  <2>2. CASE /\ state[x].cooldownUntil > e.slot
             /\ state'[x].activeStatus = "suppressed"
             /\ state'[x].source = state[x].lastNotified
    <3>1. e.slot \in Nat
      BY Zenon DEF Opens, EventIds
    <3>2. state[x].lastNotified # NoEvent
      BY <2>2, <3>1, CoolingSource, Zenon
    <3> QED BY <2>1, <2>2, <3>2, Zenon DEF IncidentDescribed
  <2>3. CASE /\ state'[x].activeStatus = "open" /\ state'[x].source = NoEvent
             /\ state'[x].opening = events'[e].channels
    BY <2>1, <2>3, Zenon DEF IncidentDescribed
  <2> QED BY <1>1, <2>2, <2>3, Zenon DEF Opens
<1>2. CASE x # r
  <2>1. state'[x] = state[x]
    BY <1>2, Zenon DEF Opens
  <2> SUFFICES ASSUME state[x].mode = "active" PROVE IncidentDescribed(x)'
    BY <2>1, Zenon DEF IncidentDescribed
  <2>2. state[x].active \in DOMAIN events
    BY ActiveEvent, Zenon
  <2>3. events'[state[x].active] = events[state[x].active]
    BY <2>2, Zenon DEF Opens
  <2> QED BY <2>1, <2>3, Zenon DEF IncidentDescribed
<1> QED BY <1>1, <1>2, Zenon

(* As long as no event is added, cooldowns are those of the same events. *)
LEMMA CooldownFramed ==
    ASSUME NEW x \in Rules, CooldownKept(x), Lasting, EventsOf(x)' = EventsOf(x),
           state'[x].cooldownUntil = state[x].cooldownUntil,
           state'[x].lastNotified = state[x].lastNotified
    PROVE  CooldownKept(x)'
<1>1. \A f \in EventsOf(x) : /\ Notified(f)' <=> Notified(f)
                             /\ events'[f].cooldownUntil = events[f].cooldownUntil
  BY Zenon DEF Lasting, Kept, Notified, EventsOf
<1> QED BY <1>1, Zenon DEF CooldownKept

(* Notified events stay notified, with the cooldown they started. *)
LEMMA NotifiedLasts ==
    ASSUME Lasting, NEW f \in DOMAIN events
    PROVE  /\ f \in DOMAIN events'
           /\ Notified(f)' <=> Notified(f)
           /\ events'[f].cooldownUntil = events[f].cooldownUntil
BY Zenon DEF Lasting, Kept, Notified

(* Opening an incident keeps the cooldown of its rule or starts a new one. *)
LEMMA CooldownOpens ==
    ASSUME IInv, IInv', NEW x \in Rules, CooldownKept(x),
           NEW r \in Rules, NEW e, Opens(r, e), Lasting
    PROVE  CooldownKept(x)'
<1>0. e \in EventIds /\ e.rule = r /\ e \notin DOMAIN events /\ e.slot \in Nat
      /\ DOMAIN events' = DOMAIN events \cup {e}
  BY Zenon DEF Opens, EventIds
<1>1. CASE x # r
  <2>1. EventsOf(x)' = EventsOf(x)
    BY <1>0, <1>1, Zenon DEF EventsOf
  <2>2. state'[x] = state[x]
    BY <1>1, Zenon DEF Opens
  <2> QED BY <2>1, <2>2, CooldownFramed, Zenon
<1>2. CASE x = r
  <2>1. EventsOf(x)' = EventsOf(x) \cup {e}
    BY <1>0, <1>2, Zenon DEF EventsOf
  <2>2. \A f \in EventsOf(x) : /\ Notified(f)' <=> Notified(f)
                               /\ events'[f].cooldownUntil = events[f].cooldownUntil
                               /\ events[f].cooldownUntil \in Nat
    BY NotifiedLasts, Zenon DEF EventsOf, IInv, TypeOK, Events
  <2>3. state[x].cooldownUntil \in Nat /\ state'[x].cooldownUntil \in Nat
    BY Zenon DEF IInv, TypeOK, States
  <2>4. CASE state[x].cooldownUntil > e.slot
    <3>1. /\ state'[x].source = state[x].lastNotified
          /\ state'[x].cooldownUntil = state[x].cooldownUntil
          /\ state'[x].lastNotified = state[x].lastNotified
          /\ events'[e].source = state'[x].source
      BY <1>0, <1>2, <2>3, <2>4, OpensCooling, Zenon
    <3>2. /\ state[x].lastNotified \in EventsOf(x) /\ Notified(state[x].lastNotified)
          /\ events[state[x].lastNotified].cooldownUntil = state[x].cooldownUntil
          /\ state[x].lastNotified # NoEvent
      BY <1>0, <2>4, CoolingSource, Zenon
    <3>3. ~Notified(e)'
      BY <3>1, <3>2, ZenonT(30) DEF Notified
    <3>4. \A f \in EventsOf(x)' :
             Notified(f)' => /\ f.slot <= events'[f].cooldownUntil
                             /\ events'[f].cooldownUntil <= state'[x].cooldownUntil
      BY <2>1, <2>2, <3>1, <3>3, Zenon DEF CooldownKept
    <3>5. /\ state'[x].lastNotified \in EventsOf(x)'
          /\ events'[state'[x].lastNotified].source = NoEvent
          /\ events'[state'[x].lastNotified].cooldownUntil = state'[x].cooldownUntil
      BY <2>1, <2>2, <3>1, <3>2, Zenon DEF Notified
    <3> QED BY <3>4, <3>5, ZenonT(30) DEF CooldownKept, Notified
  <2>5. CASE state[x].cooldownUntil <= e.slot
    <3>1. /\ state'[x].source = NoEvent /\ events'[e].source = NoEvent
          /\ state'[x].cooldownUntil = events'[e].cooldownUntil
          /\ e.slot <= events'[e].cooldownUntil
          /\ state'[x].lastNotified = e
      BY <1>0, <1>2, <2>3, <2>5, OpensCooled, Zenon
    <3>2. \A f \in EventsOf(x) :
             Notified(f)' => /\ f.slot <= events'[f].cooldownUntil
                             /\ events'[f].cooldownUntil <= state'[x].cooldownUntil
      <4> SUFFICES ASSUME NEW f \in EventsOf(x), Notified(f)'
                   PROVE  /\ f.slot <= events'[f].cooldownUntil
                          /\ events'[f].cooldownUntil <= state'[x].cooldownUntil
        BY Zenon
      <4>1. /\ f.slot <= events'[f].cooldownUntil
            /\ events'[f].cooldownUntil <= state[x].cooldownUntil
            /\ events'[f].cooldownUntil \in Nat
        BY <2>2, Zenon DEF CooldownKept
      <4>2. e.slot <= state'[x].cooldownUntil
        BY <3>1, Zenon
      <4>3. \A a, b, c, d \in Nat : a <= b /\ b <= c /\ c <= d => a <= d
        OBVIOUS
      <4> QED BY <1>0, <2>3, <2>5, <4>1, <4>2, <4>3, Zenon
    <3>3. \A f \in EventsOf(x)' :
             Notified(f)' => /\ f.slot <= events'[f].cooldownUntil
                             /\ events'[f].cooldownUntil <= state'[x].cooldownUntil
      BY <2>1, <2>3, <3>1, <3>2
    <3>4. e \in EventsOf(x)' /\ Notified(e)'
      BY <2>1, <3>1, Zenon DEF Notified
    <3> QED BY <3>1, <3>3, <3>4, Zenon DEF CooldownKept
  <2> QED BY <1>0, <2>3, <2>4, <2>5
<1> QED BY <1>1, <1>2, Zenon

(* As long as no event is added, openings respect the same cooldowns. *)
LEMMA RespectedFramed ==
    ASSUME CooldownRespected, Lasting, DOMAIN events' = DOMAIN events
    PROVE  CooldownRespected'
<1>1. \A f \in DOMAIN events :
         /\ Notified(f)' <=> Notified(f)
         /\ events'[f].cooldownUntil = events[f].cooldownUntil
         /\ events'[f].source = events[f].source
  BY Zenon DEF Lasting, Kept, Notified
<1>2. \A x : EventsOf(x)' = EventsOf(x) /\ EventsOf(x) \subseteq DOMAIN events
  BY Zenon DEF EventsOf
<1> SUFFICES ASSUME NEW e \in DOMAIN events
             PROVE  IF Notified(e)'
                    THEN \A f \in EventsOf(e.rule)' :
                           Notified(f)' /\ f.slot < e.slot => events'[f].cooldownUntil <= e.slot
                    ELSE /\ events'[e].source \in EventsOf(e.rule)'
                         /\ events'[events'[e].source].source = NoEvent
                         /\ e.slot < events'[events'[e].source].cooldownUntil
  BY ZenonT(30) DEF CooldownRespected, Notified
<1>3. IF Notified(e)
      THEN \A f \in EventsOf(e.rule) :
             Notified(f) /\ f.slot < e.slot => events[f].cooldownUntil <= e.slot
      ELSE /\ events[e].source \in EventsOf(e.rule)
           /\ Notified(events[e].source)
           /\ e.slot < events[events[e].source].cooldownUntil
  BY Zenon DEF CooldownRespected
<1>4. CASE Notified(e)
  BY <1>1, <1>2, <1>3, <1>4, Zenon
<1>5. CASE ~Notified(e)
  <2>1. events[e].source \in DOMAIN events /\ events'[e].source = events[e].source
    BY <1>1, <1>2, <1>3, <1>5, Zenon
  <2>2. Notified(events[e].source)'
        /\ events'[events[e].source].cooldownUntil = events[events[e].source].cooldownUntil
    BY <1>1, <1>3, <1>5, <2>1, Zenon
  <2> QED BY <1>1, <1>2, <1>3, <1>5, <2>1, <2>2, Zenon DEF Notified
<1> QED BY <1>4, <1>5, Zenon

(* An opening of an event that every notified opening before it has cooled *)
(* down for, or that names the one that has not, respects the cooldowns.   *)
LEMMA RespectedOpens ==
    ASSUME IInv, \A x \in Rules : CooldownKept(x), CooldownRespected, Lasting,
           NEW r \in Rules, NEW e, Opens(r, e)
    PROVE  CooldownRespected'
<1>0. e \in EventIds /\ e.rule = r /\ e \notin DOMAIN events /\ e.slot \in Nat
      /\ DOMAIN events' = DOMAIN events \cup {e}
  BY Zenon DEF Opens, EventIds
<1>1. \A f \in DOMAIN events :
         /\ Notified(f)' <=> Notified(f)
         /\ events'[f].cooldownUntil = events[f].cooldownUntil
         /\ events'[f].source = events[f].source
         /\ events[f].cooldownUntil \in Nat /\ f.slot \in Nat
  BY Zenon DEF Lasting, Kept, Notified, IInv, TypeOK, Events, EventIds
<1>2. \A x : EventsOf(x) \subseteq DOMAIN events
             /\ EventsOf(x)' = IF x = r THEN EventsOf(x) \cup {e} ELSE EventsOf(x)
  BY <1>0, Zenon DEF EventsOf
<1>3. state[r].cooldownUntil \in Nat
  BY Zenon DEF IInv, TypeOK, States
<1>4. \A f \in EventsOf(r) :
         Notified(f) => /\ f.slot <= events[f].cooldownUntil
                        /\ events[f].cooldownUntil <= state[r].cooldownUntil
  BY Zenon DEF CooldownKept
<1>5. Notified(e)' => state[r].cooldownUntil <= e.slot
  <2> SUFFICES ASSUME state[r].cooldownUntil > e.slot PROVE ~Notified(e)'
    BY <1>0, <1>3
  <2>1. state[r].lastNotified # NoEvent
    BY <1>0, CoolingSource, Zenon
  <2>2. events'[e].source = state[r].lastNotified
    BY <1>0, <1>3, OpensCooling, Zenon
  <2> QED BY <2>1, <2>2, Zenon DEF Notified
<1>6. ~Notified(e)' => state[r].cooldownUntil > e.slot /\ events'[e].source = state[r].lastNotified
  BY <1>0, <1>3, Zenon DEF Opens, Notified
<1> SUFFICES ASSUME NEW g \in DOMAIN events'
             PROVE  IF Notified(g)'
                    THEN \A f \in EventsOf(g.rule)' :
                           Notified(f)' /\ f.slot < g.slot => events'[f].cooldownUntil <= g.slot
                    ELSE /\ events'[g].source \in EventsOf(g.rule)'
                         /\ events'[events'[g].source].source = NoEvent
                         /\ g.slot < events'[events'[g].source].cooldownUntil
  BY Zenon DEF CooldownRespected, Notified
<1>7. CASE g = e /\ Notified(e)'
  <2>1. SUFFICES ASSUME NEW f \in EventsOf(r)', Notified(f)', f.slot < e.slot
                 PROVE  events'[f].cooldownUntil <= e.slot
    BY <1>0, <1>7, Zenon
  <2>2. f \in EventsOf(r)
    <3>1. EventsOf(r)' = EventsOf(r) \cup {e}
      BY <1>2, Zenon
    <3>2. f # e
      BY <1>0, <2>1, SMT DEF EventIds
    <3> QED BY <2>1, <3>1, <3>2, Zenon
  <2>3. Notified(f) /\ events'[f].cooldownUntil = events[f].cooldownUntil
        /\ events[f].cooldownUntil \in Nat
    BY <1>1, <1>2, <2>1, <2>2, Zenon
  <2>4. events[f].cooldownUntil <= state[r].cooldownUntil
    BY <1>4, <2>2, <2>3, Zenon
  <2>5. state[r].cooldownUntil <= e.slot
    BY <1>5, <1>7, Zenon
  <2> QED BY <1>0, <1>3, <2>3, <2>4, <2>5, SMT
<1>8. CASE g = e /\ ~Notified(e)'
  <2>1. /\ state[r].lastNotified \in EventsOf(r) /\ Notified(state[r].lastNotified)
        /\ events[state[r].lastNotified].cooldownUntil = state[r].cooldownUntil
    BY <1>0, <1>6, <1>8, CoolingSource, Zenon
  <2>2. /\ state[r].lastNotified \in EventsOf(r)'
        /\ events'[state[r].lastNotified].source = NoEvent
        /\ events'[state[r].lastNotified].cooldownUntil = state[r].cooldownUntil
    BY <1>1, <1>2, <2>1, Zenon DEF Notified
  <2> QED BY <1>0, <1>6, <1>8, <2>2, Zenon
<1>9. CASE g \in DOMAIN events
  <2>1. IF Notified(g)
        THEN \A f \in EventsOf(g.rule) :
               Notified(f) /\ f.slot < g.slot => events[f].cooldownUntil <= g.slot
        ELSE /\ events[g].source \in EventsOf(g.rule)
             /\ Notified(events[g].source)
             /\ g.slot < events[events[g].source].cooldownUntil
    BY <1>9, Zenon DEF CooldownRespected
  <2>2. CASE Notified(g)
    <3>1. SUFFICES ASSUME NEW f \in EventsOf(g.rule)', Notified(f)', f.slot < g.slot
                   PROVE  events'[f].cooldownUntil <= g.slot
      BY <1>1, <1>9, <2>2, Zenon
    <3>2. CASE f \in EventsOf(g.rule)
      BY <1>1, <1>2, <2>1, <2>2, <3>1, <3>2, Zenon
    <3>3. CASE f = e /\ g.rule = r
      <4>1. g \in EventsOf(r)
        BY <1>9, <3>3, Zenon DEF EventsOf
      <4>2. g.slot <= events[g].cooldownUntil /\ events[g].cooldownUntil <= state[r].cooldownUntil
            /\ state[r].cooldownUntil <= e.slot
        BY <1>4, <1>5, <2>2, <3>1, <3>3, <4>1, Zenon
      <4>3. g.slot \in Nat /\ events[g].cooldownUntil \in Nat
        BY <1>1, <1>9, Zenon
      <4>4. g.slot <= e.slot
        BY <1>0, <1>3, <4>2, <4>3, SMTT(30)
      <4> QED BY <1>0, <3>1, <3>3, <4>3, <4>4
    <3> QED BY <1>2, <3>1, <3>2, <3>3, Zenon
  <2>3. CASE ~Notified(g)
    <3>1. events[g].source \in DOMAIN events /\ events'[g].source = events[g].source
          /\ events[g].source \in EventsOf(g.rule)'
      BY <1>1, <1>2, <1>9, <2>1, <2>3, Zenon
    <3>2. Notified(events[g].source)'
          /\ events'[events[g].source].cooldownUntil = events[events[g].source].cooldownUntil
      BY <1>1, <2>1, <2>3, <3>1, ZenonT(30)
    <3> QED BY <1>1, <1>9, <2>1, <2>3, <3>1, <3>2, ZenonT(30) DEF Notified
  <2> QED BY <2>2, <2>3, Zenon
<1> QED BY <1>0, <1>7, <1>8, <1>9, Zenon

(* A step that opens and ends nothing leaves what is promised. *)
LEMMA PromisedNoted ==
    ASSUME Noted, NEW o PROVE Promised(o)' <=> Promised(o)
BY Zenon DEF Noted, Kept, Promised, Notified

(* Ending an incident promises a recovery on the channels of its opening,  *)
(* if the evaluator saw it recover and its opening was notified.           *)
LEMMA PromisedEnds ==
    ASSUME IInv, NEW r \in Rules, IncidentDescribed(r), NEW e, NEW reason, Ends(r, e, reason), NEW o
    PROVE  Promised(o)' <=> \/ Promised(o)
                            \/ /\ reason = "recovered" /\ state[r].activeStatus # "suppressed"
                               /\ o \in Notices(e, state[r].opening, "recovery")
<1>1. e \in DOMAIN events /\ e \in EventIds /\ state[r].mode = "active" /\ state[r].active = e
  BY Zenon DEF Ends, IInv, TypeOK
<1>2. /\ events[e].reason = "none"
      /\ state[r].activeStatus = "suppressed" <=> ~Notified(e)
      /\ Notified(e) => state[r].opening = events[e].channels
  BY <1>1, Zenon DEF IncidentDescribed, Notified
<1>3. state[r].opening \in SUBSET Channels
  BY Zenon DEF IInv, TypeOK, States
<1>4. o \in Notices(e, state[r].opening, "recovery")
      <=> o \in OutboxIds /\ o.event = e /\ o.channel \in state[r].opening /\ o.kind = "recovery"
  BY <1>1, <1>3, NoticeMember DEF Kinds
<1>5. \A f \in DOMAIN events :
         /\ Notified(f)' <=> Notified(f)
         /\ events'[f].channels = events[f].channels
         /\ events'[f].reason = IF f = e THEN reason ELSE events[f].reason
  BY Zenon DEF Ends, Kept, Notified
<1>6. DOMAIN events' = DOMAIN events
  BY Zenon DEF Ends
<1>7. o \in OutboxIds => o.kind \in {"opening", "recovery"}
  BY Zenon DEF OutboxIds, Kinds
<1>8. CASE o.event = e
  BY <1>1, <1>2, <1>4, <1>5, <1>6, <1>7, <1>8, Zenon DEF Promised
<1>9. CASE o.event # e
  BY <1>4, <1>5, <1>6, <1>9, Zenon DEF Promised
<1> QED BY <1>8, <1>9, Zenon

(* Opening an incident promises its opening notifications, if notified. *)
LEMMA PromisedOpens ==
    ASSUME IInv, IInv', NEW r \in Rules, NEW e, Opens(r, e), NEW o
    PROVE  Promised(o)' <=> \/ Promised(o)
                            \/ Notified(e)' /\ o \in Notices(e, events'[e].channels, "opening")
<1>1. /\ e \in EventIds /\ e \notin DOMAIN events /\ DOMAIN events' = DOMAIN events \cup {e}
      /\ \A f \in DOMAIN events : events'[f] = events[f]
      /\ events'[e].reason = "none"
  BY Zenon DEF Opens
<1>2. events'[e].channels \in SUBSET Channels
  BY <1>1, Zenon DEF IInv, TypeOK, Events
<1>3. o \in Notices(e, events'[e].channels, "opening")
      <=> o \in OutboxIds /\ o.event = e /\ o.channel \in events'[e].channels /\ o.kind = "opening"
  BY <1>1, <1>2, NoticeMember, Zenon DEF Kinds
<1>4. CASE o.event = e
  <2>1. ~Promised(o)
    BY <1>1, <1>4, Zenon DEF Promised
  <2>2. Promised(o)' <=> /\ o \in OutboxIds /\ events'[e].source = NoEvent
                         /\ o.channel \in events'[e].channels /\ o.kind = "opening"
    <3>1. o.event \in DOMAIN events' /\ events'[o.event] = events'[e]
      BY <1>1, <1>4, Zenon
    <3>2. events'[o.event].reason # "recovered"
      BY <1>1, <3>1, Zenon
    <3> QED BY <3>1, <3>2, Zenon DEF Promised, Notified
  <2> QED BY <1>3, <1>4, <2>1, <2>2, Zenon DEF Notified
<1>5. CASE o.event # e
  BY <1>1, <1>3, <1>5, ZenonT(30) DEF Promised, Notified
<1> QED BY <1>4, <1>5, Zenon

(* Every step keeps the outboxes exactly the promised ones. *)
LEMMA PromisesKept ==
    ASSUME IInv, IInv', \A r \in Rules : IncidentDescribed(r) /\ CooldownKept(r), HistoryStep,
           \A o : o \in outboxes <=> Promised(o)
    PROVE  \A o : o \in outboxes' <=> Promised(o)'
<1>1. CASE Noted
  BY <1>1, PromisedNoted, Zenon DEF Noted
<1>2. ASSUME NEW r \in Rules, NEW e, NEW reason, Ends(r, e, reason), NEW o
      PROVE  o \in outboxes' <=> Promised(o)'
  <2>1. Promised(o)' <=> \/ Promised(o)
                         \/ /\ reason = "recovered" /\ state[r].activeStatus # "suppressed"
                            /\ o \in Notices(e, state[r].opening, "recovery")
    BY <1>2, PromisedEnds, Zenon
  <2>2. o \in outboxes' <=> \/ o \in outboxes
                            \/ /\ reason = "recovered" /\ state[r].activeStatus # "suppressed"
                               /\ o \in Notices(e, state[r].opening, "recovery")
    BY <1>2, Zenon DEF Ends
  <2> QED BY <2>1, <2>2, Zenon
<1>3. ASSUME NEW r \in Rules, NEW e, Opens(r, e), NEW o
      PROVE  o \in outboxes' <=> Promised(o)'
  <2>1. Promised(o)' <=> \/ Promised(o)
                         \/ Notified(e)' /\ o \in Notices(e, events'[e].channels, "opening")
    BY <1>3, PromisedOpens, ZenonT(30)
  <2>2. e.slot \in Nat /\ state[r].cooldownUntil \in Nat
    BY <1>3, Zenon DEF Opens, EventIds, IInv, TypeOK, States
  <2>3. CASE state[r].cooldownUntil > e.slot
    <3>1. state[r].lastNotified # NoEvent
      BY <2>2, <2>3, CoolingSource, Zenon
    <3>2. outboxes' = outboxes /\ events'[e].source = state[r].lastNotified
      BY <1>3, <2>2, <2>3, OpensCooling, Zenon
    <3> QED BY <2>1, <3>1, <3>2, Zenon DEF Notified
  <2>4. CASE state[r].cooldownUntil <= e.slot
    <3>1. /\ outboxes' = outboxes \cup Notices(e, events'[e].channels, "opening")
          /\ events'[e].source = NoEvent
      BY <1>3, <2>2, <2>4, OpensCooled, Zenon
    <3> QED BY <2>1, <3>1, Zenon DEF Notified
  <2> QED BY <2>2, <2>3, <2>4
<1> QED BY <1>1, <1>2, <1>3, Zenon DEF HistoryStep

(* Every step keeps the invariant of the history. *)
LEMMA HistoryKept == ASSUME IInv, HistInv, [Next]_vars PROVE HistInv'
<1>1. IInv' /\ WorkersRead'
  BY NextKeeps, WorkersReadKept, Zenon DEF HistInv
<1>2. HistoryStep /\ Lasting
  BY HistorySteps, HistoryLasts, Zenon DEF HistInv
<1>3. \A r \in Rules : IncidentDescribed(r) /\ CooldownKept(r)
  BY Zenon DEF HistInv
<1>4. \A r \in Rules : IncidentDescribed(r)'
  BY <1>2, <1>3, DescribedNoted, DescribedEnds, DescribedOpens, Zenon DEF HistoryStep
<1>5. ASSUME Noted \/ \E r \in Rules, e \in DOMAIN events,
                        reason \in {"recovered", "manual", "administrative"} : Ends(r, e, reason)
      PROVE  /\ DOMAIN events' = DOMAIN events
             /\ \A x \in Rules : /\ state'[x].cooldownUntil = state[x].cooldownUntil
                                 /\ state'[x].lastNotified = state[x].lastNotified
  <2>1. CASE Noted
    BY <2>1, Zenon DEF Noted, SameIncident
  <2>2. ASSUME NEW r \in Rules, NEW e, NEW reason, Ends(r, e, reason)
        PROVE  /\ DOMAIN events' = DOMAIN events
               /\ \A x \in Rules : /\ state'[x].cooldownUntil = state[x].cooldownUntil
                                   /\ state'[x].lastNotified = state[x].lastNotified
    BY <2>2, Zenon DEF Ends
  <2> QED BY <1>5, <2>1, <2>2, Zenon
<1>6. ASSUME Noted \/ \E r \in Rules, e \in DOMAIN events,
                        reason \in {"recovered", "manual", "administrative"} : Ends(r, e, reason)
      PROVE  /\ \A x \in Rules : CooldownKept(x)'
             /\ CooldownRespected'
             /\ \A f \in DOMAIN events' : IndexExact(f, events'[f])
  <2>1. \A x : EventsOf(x)' = EventsOf(x)
    BY <1>5, <1>6, Zenon DEF EventsOf
  <2>2. \A x \in Rules : CooldownKept(x)'
    BY <1>2, <1>3, <1>5, <1>6, <2>1, CooldownFramed, Zenon
  <2>3. CooldownRespected'
    BY <1>2, <1>5, <1>6, RespectedFramed, Zenon DEF HistInv
  <2>4. \A e \in DOMAIN events' : IndexExact(e, events'[e])
    BY <1>2, <1>5, <1>6, Zenon DEF Lasting, Kept, HistInv
  <2> QED BY <2>2, <2>3, <2>4, Zenon
<1>7. ASSUME NEW r \in Rules, NEW e \in EventIds, Opens(r, e)
      PROVE  /\ \A x \in Rules : CooldownKept(x)'
             /\ CooldownRespected'
             /\ \A f \in DOMAIN events' : IndexExact(f, events'[f])
  <2>1. \A x \in Rules : CooldownKept(x)'
    BY <1>1, <1>2, <1>3, <1>7, CooldownOpens, Zenon
  <2>2. CooldownRespected'
    BY <1>2, <1>3, <1>7, RespectedOpens, Zenon DEF HistInv
  <2>3. \A f \in DOMAIN events' : IndexExact(f, events'[f])
    BY <1>7, Zenon DEF Opens, HistInv
  <2> QED BY <2>1, <2>2, <2>3, Zenon
<1>8. \A o : o \in outboxes' <=> Promised(o)'
  BY <1>1, <1>2, <1>3, PromisesKept, Zenon DEF HistInv
<1>9. /\ \A x \in Rules : CooldownKept(x)'
      /\ CooldownRespected'
      /\ \A f \in DOMAIN events' : IndexExact(f, events'[f])
  BY <1>2, <1>6, <1>7, Zenon DEF HistoryStep
<1> QED BY <1>1, <1>4, <1>8, <1>9, Zenon DEF HistInv

(* The initial outboxes are the opening notices of the open incidents. *)
LEMMA TenantOutboxes ==
    ASSUME NEW used, NEW open, NEW def, NEW item, Tenant(used, open, def, item), NEW o
    PROVE  o \in outboxes <=> \E r \in open, ch \in def.channels :
                                 o = OutboxID(LegacyEvent(r), ch, "opening")
BY DEF Tenant

(* An open incident was preceded by the breaches its duration asks for. *)
LEMMA TenantBreaches ==
    ASSUME NEW used, NEW open, NEW def, NEW item, Tenant(used, open, def, item),
           NEW r \in open, NEW k \in 0..RequiredSlots(def.duration)
    PROVE  <<r, LegacySlot - k, 0>> \in breaches
BY DEF Tenant

(* Every initial tenant has the history of its open incidents. *)
LEMMA HistoryInit == ASSUME Init PROVE HistInv
<1>0. PICK used \in SUBSET Rules, incident \in BOOLEAN, def \in Definitions, due \in {0, 2} :
        Tenant(used, IF incident /\ def.enabled THEN used ELSE {}, def, NewRule(def, due))
  BY Zenon DEF Init
<1> DEFINE item == NewRule(def, due)
           open == IF incident /\ def.enabled THEN used ELSE {}
<1>a. open \subseteq Rules /\ Tenant(used, open, def, item)
  BY <1>0, Zenon
<1>1. /\ open \subseteq Rules
      /\ state = [r \in Rules |-> IF r \in open THEN LegacyState(r, item) ELSE ZeroState]
      /\ events = [e \in {LegacyEvent(r) : r \in open} |->
                     EventItem(item, "open", FALSE, NoEvent, LegacySlot)]
      /\ worker = [w \in Workers |-> Idle]
  <2> HIDE DEF item, open
  <2> QED BY <1>a, Zenon DEF Tenant
<1>2. item.channels = def.channels /\ item.cooldown \in Nat /\ item.channels \in SUBSET Channels
  BY NewRuleFields, ParameterAssumption, SMTT(40) DEF DefinitionRecords
<1> HIDE DEF item, open
<1>3. \A e \in DOMAIN events :
        /\ events[e].reason = "none" /\ events[e].source = NoEvent
        /\ events[e].cooldownUntil = 1 + item.cooldown /\ events[e].channels = item.channels
        /\ events[e].status = "open" /\ events[e].indexed = FALSE
        /\ e.slot = 1 /\ e.rule \in open /\ e = LegacyEvent(e.rule)
  BY <1>1 DEF EventItem, LegacyEvent, LegacySlot
<1>4. \A r \in open : LegacyEvent(r) \in EventsOf(r) /\ LegacyEvent(r).rule = r
  BY <1>1, Zenon DEF EventsOf, LegacyEvent
<1>5. \A r \in open : /\ state[r].mode = "active" /\ state[r].active = LegacyEvent(r)
                      /\ state[r].activeStatus = "open" /\ state[r].source = NoEvent
                      /\ state[r].opening = item.channels
                      /\ state[r].cooldownUntil = 1 + item.cooldown
                      /\ state[r].lastNotified = LegacyEvent(r)
  BY <1>1, Zenon DEF LegacyState, ZeroState
<1>6. \A r \in Rules \ open : state[r].mode = "healthy" /\ state[r].cooldownUntil = 0
                              /\ EventsOf(r) = {}
  BY <1>1, <1>3, Zenon DEF ZeroState, EventsOf
<1>7. \A r \in Rules : IncidentDescribed(r)
  <2> SUFFICES ASSUME NEW r \in Rules PROVE IncidentDescribed(r)
    BY Zenon
  <2>1. CASE r \in open
    <3>1. LegacyEvent(r) \in DOMAIN events
      BY <1>4, <2>1, Zenon DEF EventsOf
    <3> QED BY <1>3, <1>5, <2>1, <3>1, Zenon DEF IncidentDescribed
  <2>2. CASE r \notin open
    BY <1>6, <2>2, Zenon DEF IncidentDescribed
  <2> QED BY <2>1, <2>2, Zenon
<1>8. \A r \in Rules : CooldownKept(r)
  <2> SUFFICES ASSUME NEW r \in Rules PROVE CooldownKept(r)
    BY Zenon
  <2>1. CASE r \in open
    <3>1. LegacyEvent(r) \in DOMAIN events /\ EventsOf(r) \subseteq DOMAIN events
      BY <1>4, <2>1, Zenon DEF EventsOf
    <3>2. events[LegacyEvent(r)].source = NoEvent
          /\ events[LegacyEvent(r)].cooldownUntil = state[r].cooldownUntil
      BY <1>3, <1>5, <2>1, <3>1, ZenonT(30)
    <3>3. \A f \in EventsOf(r) : f.slot <= events[f].cooldownUntil
                                 /\ events[f].cooldownUntil <= state[r].cooldownUntil
      BY <1>2, <1>3, <1>5, <2>1, <3>1, SMTT(40)
    <3> QED BY <1>4, <1>5, <2>1, <3>2, <3>3, ZenonT(30) DEF CooldownKept, Notified
  <2>2. CASE r \notin open
    BY <1>6, <2>2 DEF CooldownKept
  <2> QED BY <2>1, <2>2, Zenon
<1>9. CooldownRespected
  <2>1. \A e \in DOMAIN events : Notified(e) /\ e.slot = 1
    BY <1>3, Zenon DEF Notified
  <2> QED BY <2>1 DEF CooldownRespected, EventsOf
<1>10. \A e \in DOMAIN events : IndexExact(e, events[e])
  BY <1>3 DEF IndexExact, LegacySlot
<1>11. \A o : o \in outboxes <=> Promised(o)
  <2> SUFFICES ASSUME NEW o PROVE o \in outboxes <=> Promised(o)
    BY Zenon
  <2>1. o \in outboxes <=> \E r \in open, ch \in item.channels : o = OutboxID(LegacyEvent(r), ch, "opening")
    BY <1>a, <1>2, TenantOutboxes, SMT
  <2>2. ASSUME NEW r \in open, NEW ch \in item.channels, o = OutboxID(LegacyEvent(r), ch, "opening")
        PROVE  Promised(o)
    <3>1. LegacyEvent(r) \in DOMAIN events /\ LegacyEvent(r) \in EventIds
      BY <1>1, <1>4, Zenon DEF EventsOf, LegacyEvent, LegacySlot, EventIds
    <3>2. o.event = LegacyEvent(r) /\ o.channel = ch /\ o.kind = "opening" /\ o \in OutboxIds
      BY <1>2, <2>2, <3>1, Zenon DEF OutboxID, OutboxIds, Kinds
    <3> QED BY <1>3, <3>1, <3>2, Zenon DEF Promised, Notified
  <2>3. ASSUME Promised(o)
        PROVE  \E r \in open, ch \in item.channels : o = OutboxID(LegacyEvent(r), ch, "opening")
    <3>1. o.event \in DOMAIN events /\ o.channel \in events[o.event].channels
          /\ o \in OutboxIds /\ (o.kind = "opening" \/ events[o.event].reason = "recovered")
      BY <2>3, Zenon DEF Promised
    <3>2. o.kind = "opening" /\ o.channel \in item.channels /\ o.event.rule \in open
          /\ o.event = LegacyEvent(o.event.rule)
      BY <1>3, <3>1, ZenonT(30)
    <3>3. o = OutboxID(o.event, o.channel, "opening")
      BY <3>1, <3>2, Zenon DEF OutboxID, OutboxIds
    <3> QED BY <3>2, <3>3, Zenon
  <2> QED BY <2>1, <2>2, <2>3, ZenonT(30)
<1>12. WorkersRead
  BY <1>1, Zenon DEF WorkersRead, Idle
<1> QED BY <1>7, <1>8, <1>9, <1>10, <1>11, <1>12, Zenon DEF HistInv

(* An event is of its type. *)
LEMMA EventTyped ==
    ASSUME IInv, NEW e \in DOMAIN events
    PROVE  e \in EventIds /\ events[e] \in Events /\ events[e].channels \subseteq Channels
<1>1. e \in EventIds /\ events[e] \in Events
  BY Zenon DEF IInv, TypeOK
<1> QED BY <1>1, Zenon DEF Events

(* What the events promise, promised one by one, is what OutboxesMatchEvents lists. *)
LEMMA PromisesListed ==
    ASSUME IInv, \A o : o \in outboxes <=> Promised(o)
    PROVE  OutboxesMatchEvents
<1> DEFINE L(e) == {OutboxID(e, ch, kind) :
                      ch \in IF Notified(e) THEN events[e].channels ELSE {},
                      kind \in IF events[e].reason = "recovered" THEN Kinds ELSE {"opening"}}
           U == UNION {L(e) : e \in DOMAIN events}
<1>1. ASSUME NEW e \in DOMAIN events, NEW o \in L(e) PROVE Promised(o)
  <2>1. PICK ch \in IF Notified(e) THEN events[e].channels ELSE {},
             kind \in IF events[e].reason = "recovered" THEN Kinds ELSE {"opening"} :
          o = OutboxID(e, ch, kind)
    BY <1>1, SMTT(30)
  <2> HIDE DEF L, U
  <2>2. e \in EventIds /\ events[e].channels \subseteq Channels
    BY EventTyped, Zenon
  <2>3. Notified(e) /\ ch \in events[e].channels /\ kind \in Kinds
        /\ (kind = "opening" \/ events[e].reason = "recovered")
    BY Zenon DEF Kinds
  <2>4. o \in OutboxIds /\ o.event = e /\ o.channel = ch /\ o.kind = kind
    <3>1. ch \in Channels
      BY <2>2, <2>3, Zenon
    <3> QED BY <2>1, <2>2, <2>3, <3>1, Zenon DEF OutboxID, OutboxIds
  <2> QED BY <2>3, <2>4, ZenonT(30) DEF Promised
<1>2. ASSUME NEW o, Promised(o) PROVE o.event \in DOMAIN events /\ o \in L(o.event)
  <2>1. o.event \in DOMAIN events /\ Notified(o.event) /\ o.channel \in events[o.event].channels
        /\ (o.kind = "opening" \/ events[o.event].reason = "recovered") /\ o \in OutboxIds
    BY <1>2, Zenon DEF Promised
  <2>2. o = OutboxID(o.event, o.channel, o.kind) /\ o.kind \in Kinds
    BY <2>1, Zenon DEF OutboxIds, OutboxID
  <2>3. o.channel \in IF Notified(o.event) THEN events[o.event].channels ELSE {}
    BY <2>1, Zenon
  <2>4. o.kind \in IF events[o.event].reason = "recovered" THEN Kinds ELSE {"opening"}
    BY <2>1, <2>2, Zenon
  <2> QED BY <2>1, <2>2, <2>3, <2>4, SMTT(30)
<1> HIDE DEF L
<1>3. \A o : o \in outboxes <=> o \in U
  BY <1>1, <1>2, Zenon
<1>4. outboxes = U
  BY <1>3, Zenon
<1> QED BY <1>4, SMTT(30) DEF OutboxesMatchEvents, L

(* The invariant of the history holds in every reachable state. *)
LEMMA HistoryInductive == Spec => []HistInv
<1>1. Init => HistInv
  BY HistoryInit, Zenon
<1>2. IInv /\ HistInv /\ [Next]_vars => HistInv'
  BY HistoryKept, Zenon
<1> QED BY <1>1, <1>2, Inductive, PTL DEF Spec

(* However commits, resolutions, PATCHes and replacements interleave, and  *)
(* however stale the rules they read: an opening is notified only after    *)
(* every notified opening of its rule before it has cooled down, and a     *)
(* suppressed one names the notified opening whose cooldown covers it.     *)
THEOREM CooldownAlwaysRespected == Spec => []CooldownRespected
<1>1. HistInv => CooldownRespected
  BY Zenon DEF HistInv
<1> QED BY <1>1, HistoryInductive, PTL

(* The outbox items are at all times exactly the notifications the events  *)
(* owe: no opening or recovery is lost, invented or queued for a           *)
(* suppressed, manually resolved or administratively resolved incident.    *)
THEOREM OutboxesAlwaysMatch == Spec => []OutboxesMatchEvents
<1>1. IInv /\ HistInv => OutboxesMatchEvents
  BY PromisesListed, Zenon DEF HistInv
<1> QED BY <1>1, Inductive, HistoryInductive, PTL

(* list_active_events finds exactly the unresolved notified events, except *)
(* those of before the index that the operator has not backfilled.         *)
THEOREM ActiveIndexAlwaysExact == Spec => []ActiveIndexExact
<1>1. HistInv => ActiveIndexExact
  BY Zenon DEF HistInv, ActiveIndexExact, IndexExact
<1> QED BY <1>1, HistoryInductive, PTL

-----------------------------------------------------------------------------
(***************************************************************************)
(* What also needs the API to read rules consistently: confirmation of     *)
(* openings, quiet inactive rules and schedules.                           *)
(***************************************************************************)

(* A streak of confirmed breaches, each of them evaluated under meaning gen. *)
Streak(r, s, gen, evaluated) ==
    s.mode = "pending" =>
      \A j \in 0..(s.confirmed - 1) : <<r, s.lastBreach - j, gen>> \in evaluated

(* The slots a breach must last: every slot less than the duration before. *)
LEMMA RequiredSlotsCover ==
    ASSUME NEW d \in Nat, NEW k \in Nat, k = 0 \/ k * Cadence < d
    PROVE  k < RequiredSlots(d)
<1>0. Cadence \in Nat \ {0}
  BY CadenceAssumption, Zenon
<1>1. CASE d <= Cadence
  <2>1. RequiredSlots(d) = 1
    BY <1>1, Zenon DEF RequiredSlots
  <2>2. k = 0
    <3> SUFFICES ASSUME k >= 1 PROVE FALSE
      OBVIOUS
    <3>1. k * Cadence >= Cadence
      BY <1>0
    <3>2. k * Cadence \in Nat
      BY <1>0
    <3> QED BY <1>0, <1>1, <3>1, <3>2
  <2> QED BY <2>1, <2>2
<1>2. CASE d > Cadence
  <2> DEFINE q == (d + Cadence - 1) \div Cadence
             m == (d + Cadence - 1) % Cadence
  <2>1. RequiredSlots(d) = q
    BY <1>0, <1>2 DEF RequiredSlots
  <2>2. /\ q \in Nat /\ m \in 0..(Cadence - 1)
        /\ d + Cadence - 1 = Cadence * q + m
    BY <1>0
  <2> HIDE DEF q, m
  <2> SUFFICES ASSUME q <= k PROVE FALSE
    BY <2>1, <2>2
  <2>3. Cadence * q <= Cadence * k /\ Cadence * k = k * Cadence /\ k * Cadence \in Nat
    BY <1>0, <2>2
  <2>4. k * Cadence < d
    BY <1>0, <1>2, <2>3
  <2> QED BY <1>0, <2>2, <2>3, <2>4
<1> QED BY <1>0, <1>1, <1>2

(* Observing a slot keeps or forgets the streak. *)
LEMMA ObservedStreak ==
    ASSUME NEW r, NEW s \in States, NEW ev, NEW gen, NEW evaluated, Streak(r, s, gen, evaluated)
    PROVE  Streak(r, Observed(s, ev), gen, evaluated)
BY Zenon DEF Streak, Observed, ResetPending, States

(* A breach extends the streak, or starts one of its own. *)
LEMMA ConfirmStreak ==
    ASSUME NEW r, NEW s \in States, NEW ev, ev.slot \in Nat, NEW gen, NEW before, NEW after,
           Streak(r, s, gen, before), before \subseteq after, <<r, ev.slot, gen>> \in after
    PROVE  LET c == Confirm(s, ev)
           IN  /\ c.confirmed \in Nat /\ c.lastBreach = ev.slot
               /\ \A j \in 0..(c.confirmed - 1) : <<r, ev.slot - j, gen>> \in after
<1> DEFINE n == IF Consecutive(s, ev) THEN s.confirmed + 1 ELSE 1
           p == IF Consecutive(s, ev) THEN s.pendingSince ELSE ev.slot
<1>1. Confirm(s, ev) = [s EXCEPT !.mode = "pending", !.confirmed = n, !.pendingSince = p,
                                 !.lastBreach = ev.slot]
  BY Zenon DEF Confirm
<1>2. s.confirmed \in Nat /\ s.lastBreach \in Nat
  BY Zenon DEF States
<1>3. n \in Nat
  BY <1>2
<1>4. \A j \in 0..(n - 1) : <<r, ev.slot - j, gen>> \in after
  <2> SUFFICES ASSUME NEW j \in 0..(n - 1) PROVE <<r, ev.slot - j, gen>> \in after
    BY Zenon
  <2>1. CASE j = 0
    <3>1. ev.slot - j = ev.slot
      BY <2>1
    <3> QED BY <3>1, Zenon
  <2>2. CASE j # 0
    <3>1. Consecutive(s, ev) /\ j \in 1..s.confirmed
      BY <1>2, <2>2
    <3>2. j - 1 \in 0..(s.confirmed - 1) /\ s.mode = "pending" /\ s.lastBreach + 1 = ev.slot
      BY <1>2, <3>1 DEF Consecutive
    <3>3. <<r, s.lastBreach - (j - 1), gen>> \in before
      BY <3>2, Zenon DEF Streak
    <3>4. s.lastBreach - (j - 1) = ev.slot - j
      BY <1>2, <3>1, <3>2
    <3> QED BY <3>3, <3>4, Zenon
  <2> QED BY <2>1, <2>2, Zenon
<1> HIDE DEF n, p
<1>5. Confirm(s, ev).confirmed = n /\ Confirm(s, ev).lastBreach = ev.slot
  BY <1>1, Zenon DEF States
<1> QED BY <1>3, <1>4, <1>5, Zenon

Confirms(d, r, duration, slot, gen, evaluated) ==
    /\ Streak(r, d.next, gen, evaluated)
    /\ d.transition \in {"opened", "suppressed"} =>
         /\ d.event.rule = r /\ d.event.slot = slot
         /\ \A k \in Nat : k < RequiredSlots(duration) => <<r, slot - k, gen>> \in evaluated

(* An incident that is opened makes the state active. *)
LEMMA OpenedActive ==
    ASSUME NEW r \in Rules, NEW rl \in Works, NEW s \in States, NEW ev, ev.slot \in Nat
    PROVE  OpenIncident(r, rl, s, ev).next.mode = "active"
BY OpenIncidentOutcome

(* A decision keeps a true streak true, and opens an incident only after a *)
(* streak of as many slots as the duration asks for.                       *)
LEMMA DecideStreak ==
    ASSUME NEW r \in Rules, NEW rl \in Works, NEW s \in States, NEW ev,
           ev.slot \in Nat, ev.result \in Results,
           NEW gen, NEW before, NEW after, Streak(r, s, gen, before), before \subseteq after,
           ev.result = "breach" => <<r, ev.slot, gen>> \in after
    PROVE  Confirms(Decide(r, rl, s, ev), r, rl.duration, ev.slot, gen, after)
<1> DEFINE o == Observed(s, ev)
           c == Confirm(o, ev)
           d == Decide(r, rl, s, ev)
<1>1. o \in States /\ Streak(r, o, gen, before)
  BY ObservedType, ObservedStreak, Zenon
<1>2. Streak(r, o, gen, after)
  BY <1>1, Zenon DEF Streak
<1>3. c \in States
  BY <1>1, ConfirmType, Zenon
<1>4. ev.result = "breach" =>
        /\ c.confirmed \in Nat /\ c.lastBreach = ev.slot
        /\ \A j \in 0..(c.confirmed - 1) : <<r, ev.slot - j, gen>> \in after
  BY <1>1, ConfirmStreak, Zenon
<1> SUFFICES /\ Streak(r, d.next, gen, after)
             /\ d.transition \in {"opened", "suppressed"} =>
                  /\ d.event.rule = r /\ d.event.slot = ev.slot
                  /\ \A k \in Nat : k < RequiredSlots(rl.duration) =>
                                      <<r, ev.slot - k, gen>> \in after
  BY Zenon DEF Confirms
<1> HIDE DEF o, c, d
<1>5. CASE d = Quiet(o)
  BY <1>2, <1>5, Zenon DEF Quiet, Decision
<1>6. CASE d = RecoverIncident(o)
  <2>1. d.next = Cleared(o) /\ d.transition = "recovered"
    BY <1>6, Zenon DEF RecoverIncident, Decision
  <2>2. Cleared(o).mode = "healthy"
    BY <1>1, Zenon DEF Cleared, States
  <2> QED BY <2>1, <2>2, Zenon DEF Streak
<1>7. CASE d = Quiet(ResetPending(o))
  <2>1. d.next = ResetPending(o) /\ d.transition = "none"
    BY <1>7, Zenon DEF Quiet, Decision
  <2>2. ResetPending(o).mode = "healthy"
    BY <1>1, Zenon DEF ResetPending, States
  <2> QED BY <2>1, <2>2, Zenon DEF Streak
<1>8. CASE ev.result = "breach" /\ d = Quiet(c)
  BY <1>3, <1>4, <1>8, Zenon DEF Quiet, Decision, Streak
<1>9. CASE ev.result = "breach" /\ d = OpenIncident(r, rl, c, ev)
           /\ ~(c.confirmed < RequiredSlots(rl.duration))
  <2>1. d.next.mode = "active"
    BY <1>3, <1>9, OpenedActive, Zenon
  <2>2. d.event.rule = r /\ d.event.slot = ev.slot
    BY <1>9, Zenon DEF OpenIncident, Decision, EventID
  <2>3. \A k \in Nat : k < RequiredSlots(rl.duration) => <<r, ev.slot - k, gen>> \in after
    <3>1. RequiredSlots(rl.duration) \in Int
      BY CadenceAssumption DEF RequiredSlots, Works
    <3> SUFFICES ASSUME NEW k \in Nat, k < RequiredSlots(rl.duration)
                 PROVE  <<r, ev.slot - k, gen>> \in after
      BY Zenon
    <3>2. k \in 0..(c.confirmed - 1)
      BY <1>4, <1>9, <3>1
    <3> QED BY <1>4, <1>9, <3>2, Zenon
  <2> QED BY <2>1, <2>2, <2>3, Zenon DEF Streak
<1>10. \/ d = Quiet(o) \/ d = RecoverIncident(o) \/ d = Quiet(ResetPending(o))
       \/ ev.result = "breach" /\ d = Quiet(c)
       \/ ev.result = "breach" /\ d = OpenIncident(r, rl, c, ev)
          /\ ~(c.confirmed < RequiredSlots(rl.duration))
  BY Zenon DEF Decide, Results, o, c, d
<1> QED BY <1>5, <1>6, <1>7, <1>8, <1>9, <1>10, Zenon

(* The inductive invariant of consistent reads. *)
FreshInv ==
    /\ RequestsRead
    /\ \A r \in Rules : views[r] = {}
    /\ \A r \in Rules : ~Active(rule[r]) => state[r].mode = "healthy"
    /\ \A r \in Rules : Streak(r, state[r], rule[r].gen, breaches)
    /\ OpeningConfirmed

(* The ways a PATCH or replace request comes about. *)
LEMMA RequestMoves ==
    ASSUME IInv, [Next]_vars, NEW c \in Clients, client'[c].pc \in {"update", "replace"}
    PROVE  \/ client'[c] = client[c]
           \/ /\ client'[c].rule \in Rules /\ rule[client'[c].rule].status # "absent"
              /\ client'[c].expected = rule[client'[c].rule].version
              /\ client'[c].view \in Readable(client'[c].rule)
              /\ client'[c].due \in NextCompleteSlot(now) /\ rule' = rule
<1>0. client \in [Clients -> ClientStates]
  BY Zenon DEF IInv, TypeOK
<1> DEFINE Fresh == /\ client'[c].rule \in Rules /\ rule[client'[c].rule].status # "absent"
                    /\ client'[c].expected = rule[client'[c].rule].version
                    /\ client'[c].view \in Readable(client'[c].rule)
                    /\ client'[c].due \in NextCompleteSlot(now) /\ rule' = rule
<1>1. CASE Tick \/ Evaluator \/ Operator \/ (\E r \in Rules : ExpireLease(r)) \/ UNCHANGED vars
  <2>1. Evaluator => client' = client
    <3>1. \A w, o, r, slot : Claim(w, o, r, slot) => client' = client
      BY DEF Claim
    <3>2. \A w : LoadState(w) \/ Crash(w) => client' = client
      BY Zenon DEF LoadState, Crash
    <3>3. \A w, result : Commit(w, result) \/ LoseFence(w, result) => client' = client
      BY ZenonT(30) DEF Commit, LoseFence
    <3> QED BY <3>1, <3>2, <3>3, Zenon DEF Evaluator
  <2>2. Tick \/ Operator \/ (\E r \in Rules : ExpireLease(r)) \/ UNCHANGED vars
        => client' = client
    BY Zenon DEF Tick, Operator, ExpireLease, vars, BackfillSchedule, BackfillActiveAlertIndex
  <2> QED BY <1>1, <2>1, <2>2, Zenon
<1>2. ASSUME NEW x \in Clients, client' = [client EXCEPT ![x] = Idle] PROVE client'[c] = client[c]
  BY <1>0, <1>2, Zenon DEF Idle
<1>3. ASSUME NEW x \in Clients, NEW e, BeginResolve(x, e) PROVE client'[c] = client[c]
  BY <1>0, <1>3, Zenon DEF BeginResolve
<1>4. ASSUME NEW x \in Clients, NEW r \in Rules, NEW patch, BeginUpdate(x, r, patch)
      PROVE  client'[c] = client[c] \/ Fresh
  <2>1. PICK view \in Readable(r), due \in NextCompleteSlot(now) :
          client' = [client EXCEPT ![x] =
                      [pc |-> "update", rule |-> r, expected |-> rule[r].version,
                       patch |-> patch, view |-> view, due |-> due, snap |-> state[r]]]
    BY <1>4, Zenon DEF BeginUpdate
  <2>2. rule' = rule /\ rule[r].status # "absent"
    BY <1>4, Zenon DEF BeginUpdate
  <2> QED BY <1>0, <2>1, <2>2, Zenon
<1>5. ASSUME NEW x \in Clients, NEW r \in Rules, NEW by, NEW def, NEW key,
             BeginReplace(x, r, by, def, key)
      PROVE  client'[c] = client[c] \/ Fresh
  <2>1. PICK view \in Readable(r), due \in NextCompleteSlot(now) :
          client' = [client EXCEPT ![x] =
                      [pc |-> "replace", rule |-> r, expected |-> rule[r].version, by |-> by,
                       def |-> def, key |-> key, view |-> view, due |-> due, snap |-> state[r]]]
    BY <1>5, Zenon DEF BeginReplace
  <2>2. rule' = rule /\ rule[r].status # "absent"
    BY <1>5, Zenon DEF BeginReplace
  <2> QED BY <1>0, <2>1, <2>2, Zenon
<1>6. ASSUME NEW x \in Clients,
             CommitResolve(x) \/ CommitUpdate(x) \/ EndRequest(x)
             \/ \E key \in Keys : CommitReplace(x, key)
      PROVE  client'[c] = client[c]
  BY <1>2, <1>6, Zenon DEF CommitResolve, CommitUpdate, EndRequest, CommitReplace
<1>7. CASE (\E r \in Rules, def \in Definitions, due \in NextCompleteSlot(now) :
              CreateRule(r, def, due))
           \/ (\E e \in DOMAIN events : Acknowledge(e)) \/ \E key \in Keys : ExpireReplay(key)
  BY <1>7, Zenon DEF CreateRule, Acknowledge, ExpireReplay
<1>8. CASE API
  BY <1>3, <1>4, <1>5, <1>6, <1>7, <1>8, Zenon DEF API
<1> QED BY <1>1, <1>8, Zenon DEF Next

(* Consistent reads stay what the requests know of their rule. *)
LEMMA RequestsReadKept ==
    ASSUME IInv, FreshInv, [Next]_vars PROVE RequestsRead'
<1> SUFFICES ASSUME NEW c \in Clients, client'[c].pc \in {"update", "replace"}
             PROVE  RequestMatches(client'[c], rule'[client'[c].rule])
  BY Zenon DEF RequestsRead
<1>0. IInv'
  BY NextKeeps, Zenon
<1>1. rule \in [Rules -> RuleItems] /\ rule' \in [Rules -> RuleItems] /\ now \in Nat
  BY <1>0, Zenon DEF IInv, TypeOK
<1>2. client'[c].rule \in Rules
  <2>1. client'[c] \in ClientStates
    BY <1>0, Zenon DEF IInv, TypeOK
  <2> QED BY <2>1 DEF ClientStates, Idle
<1>3. CASE client'[c] = client[c]
  <2>1. RequestMatches(client'[c], rule[client'[c].rule])
    BY <1>3, Zenon DEF FreshInv, RequestsRead
  <2>2. RuleStep(rule[client'[c].rule], rule'[client'[c].rule])
    BY <1>2, RuleSteps, ZenonT(30)
  <2> QED BY <1>1, <1>2, <2>1, <2>2, RequestStillMatches, Zenon
<1>4. CASE /\ client'[c].rule \in Rules /\ rule[client'[c].rule].status # "absent"
           /\ client'[c].expected = rule[client'[c].rule].version
           /\ client'[c].view \in Readable(client'[c].rule)
           /\ client'[c].due \in NextCompleteSlot(now) /\ rule' = rule
  <2>1. client'[c].view = ViewOf(rule[client'[c].rule])
    BY <1>4, Zenon DEF Readable, FreshInv
  <2>2. client'[c].due # 0
    BY <1>1, <1>4, SMTT(40) DEF NextCompleteSlot
  <2>3. rule[client'[c].rule].version \in Nat
    BY <1>1, <1>2, Zenon DEF RuleItems
  <2> QED BY <1>4, <2>1, <2>2, <2>3, SMTT(40) DEF RequestMatches
<1> QED BY <1>3, <1>4, RequestMoves, Zenon

(* No older version is remembered when reads are consistent. *)
LEMMA ViewsKept ==
    ASSUME IInv, ~StaleRuleReads, [Next]_vars PROVE views' = views
<1>1. ASSUME NEW c \in Clients, CommitUpdate(c) \/ \E key \in Keys : CommitReplace(c, key)
      PROVE  views' = views
  BY <1>1, Zenon DEF CommitUpdate, CommitReplace, Remember
<1>2. ASSUME \/ ItemsUnchanged
             \/ \E w \in Workers, o \in Owners, r \in Rules, slot \in 1..now : Claim(w, o, r, slot)
             \/ \E w \in Workers, result \in Results : Commit(w, result)
             \/ \E r \in Rules : ExpireLease(r)
             \/ \E r \in Rules, at \in BackfillTimes : BackfillSchedule(r, at)
             \/ \E e \in DOMAIN events : BackfillActiveAlertIndex(e) \/ Acknowledge(e)
             \/ \E r \in Rules, def \in Definitions, due \in NextCompleteSlot(now) :
                  CreateRule(r, def, due)
             \/ \E c \in Clients : CommitResolve(c)
             \/ \E key \in Keys : ExpireReplay(key)
      PROVE  views' = views
  BY <1>2, Zenon DEF ItemsUnchanged, Claim, Commit, ExpireLease, BackfillSchedule,
              BackfillActiveAlertIndex, Acknowledge, CreateRule, CommitResolve, ExpireReplay
<1> QED BY <1>1, <1>2, WriterCases, Zenon

(* A step that lets a rule mean the same and its state be, or makes the    *)
(* state healthy.                                                          *)
Settled(x) ==
    \/ state'[x].mode = "healthy"
    \/ /\ state'[x] = state[x]
       /\ rule'[x].gen = rule[x].gen /\ rule'[x].enabled = rule[x].enabled
       /\ rule'[x].status = rule[x].status

(* Ending an incident or a streak leaves the rule healthy. *)
LEMMA ResolutionSettles ==
    ASSUME IInv, NEW r \in Rules, NEW snap \in States, SnapshotOf(r, snap, state[r]),
           NEW view, AdministrativeResolution(r, snap, view)
    PROVE  /\ state'[r].mode = "healthy"
           /\ \A x \in Rules \ {r} : state'[x] = state[x]
<1> DEFINE n == AdministrativelyResolved(snap)
<1>1. state' = [state EXCEPT ![r] = n]
  BY Zenon DEF AdministrativeResolution
<1>2. n.mode = "healthy"
  BY Zenon DEF AdministrativelyResolved, Rewritten, ResolvedState, Cleared, ResetPending, States, Modes
<1> HIDE DEF n
<1> QED BY <1>1, <1>2, Zenon DEF IInv, TypeOK

(* The view a PATCH read, as long as it is the item, decides as the item does. *)
LEMMA ViewDecides ==
    ASSUME NEW patch, NEW item \in RuleItems
    PROVE  SemanticChange(patch, ViewOf(item)) <=> SemanticChange(patch, item)
BY ZenonT(30) DEF SemanticChange, Field, ViewOf

(* What update_rule writes into what a rule means, from a consistent read. *)
LEMMA UpdatedMeaning ==
    ASSUME NEW item \in RuleItems, NEW patch \in Patches, NEW due \in Nat
    PROVE  LET b == Updated(item, patch, ViewOf(item), due)
           IN  /\ b.enabled = Field(patch, "enabled", item.enabled)
               /\ ~SemanticChange(patch, item) =>
                    b.gen = item.gen /\ b.enabled = item.enabled /\ b.nextDue = item.nextDue
               /\ SemanticChange(patch, item) /\ b.enabled => b.nextDue = due
<1> DEFINE view == ViewOf(item)
           a == Rescheduled(item, patch, view, due)
<1>1. /\ a \in RuleItems
      /\ a.enabled = item.enabled /\ a.gen = item.gen /\ a.status = item.status
  <2>1. \/ a = item
        \/ a = [item EXCEPT !.nextDue = due, !.owner = NoOwner, !.live = FALSE]
        \/ a = Unscheduled(item)
    BY Zenon DEF Rescheduled
  <2>2. a \in RuleItems
    BY RescheduledType, Zenon
  <2> QED BY <2>1, <2>2, Zenon DEF Unscheduled, RuleItems
<1>2. /\ ~SemanticChange(patch, item) => a.nextDue = item.nextDue
      /\ SemanticChange(patch, item) /\ Field(patch, "enabled", item.enabled) => a.nextDue = due
  <2>1. view.enabled = item.enabled
    BY Zenon DEF ViewOf
  <2>2. SemanticChange(patch, view) <=> SemanticChange(patch, item)
    BY ViewDecides, Zenon
  <2> QED BY <2>1, <2>2, Zenon DEF Rescheduled, RuleItems
<1>3. ~SemanticChange(patch, item) => Field(patch, "enabled", item.enabled) = item.enabled
  BY Zenon DEF SemanticChange
<1> DEFINE b == Updated(item, patch, view, due)
<1>4. /\ b.enabled = Field(patch, "enabled", a.enabled)
      /\ b.nextDue = a.nextDue
      /\ b.gen = a.gen + (IF SemanticChange(patch, item) THEN 1 ELSE 0)
  <2> HIDE DEF a, view
  <2> QED BY <1>1, Zenon DEF Updated, RuleItems, a
<1>5. item.gen \in Nat
  BY Zenon DEF RuleItems
<1> SUFFICES /\ b.enabled = Field(patch, "enabled", item.enabled)
             /\ ~SemanticChange(patch, item) =>
                  b.gen = item.gen /\ b.enabled = item.enabled /\ b.nextDue = item.nextDue
             /\ SemanticChange(patch, item) /\ b.enabled => b.nextDue = due
  BY Zenon
<1> HIDE DEF a, b, view
<1> QED BY <1>1, <1>2, <1>3, <1>4, <1>5, SMTT(40)

(* A PATCH that changes what is evaluated schedules the rule it leaves       *)
(* enabled, any other leaves the schedule alone.                             *)
LEMMA UpdatedSchedule ==
    ASSUME NEW item \in RuleItems, NEW patch \in Patches, NEW due \in Nat,
           Updated(item, patch, ViewOf(item), due).enabled
    PROVE  /\ SemanticChange(patch, item) =>
                 Updated(item, patch, ViewOf(item), due).nextDue = due
           /\ ~SemanticChange(patch, item) =>
                 /\ item.enabled
                 /\ Updated(item, patch, ViewOf(item), due).nextDue = item.nextDue
BY UpdatedMeaning

(* A PATCH settles every rule: it ends what the old meaning produced. *)
LEMMA UpdateSettles ==
    ASSUME IInv, FreshInv, NEW c \in Clients, CommitUpdate(c), NEW x \in Rules
    PROVE  Settled(x)
<1>1. PICK r \in Rules, patch \in Patches, view \in Views, due \in Nat :
        Updates(client[c], r, patch, view, due)
  BY UpdateWrites, Zenon
<1>2. client[c].pc = "update" /\ client[c].rule = r /\ client[c].patch = patch
      /\ client[c].view = view /\ rule[r].version = client[c].expected
  BY <1>1, Zenon DEF Updates, CommitUpdate
<1>3. view = ViewOf(rule[r])
  BY <1>2, Zenon DEF FreshInv, RequestsRead, RequestMatches
<1>4. client[c].snap \in States /\ SnapshotOf(r, client[c].snap, state[r])
  BY <1>2, ClientFields, Zenon DEF IInv, ClientSnapshots, Snapshot
<1>5. rule[r] \in RuleItems
  BY Zenon DEF IInv, TypeOK
<1>6. CASE SemanticChange(patch, view)
  <2>1. AdministrativeResolution(r, client[c].snap, view)
    BY <1>2, <1>6, Zenon DEF CommitUpdate
  <2>2. state'[r].mode = "healthy" /\ \A y \in Rules \ {r} : state'[y] = state[y]
    BY <1>4, <2>1, ResolutionSettles, Zenon
  <2>3. x # r => rule'[x] = rule[x]
    BY <1>1, Zenon DEF Updates
  <2> QED BY <2>2, <2>3, Zenon DEF Settled
<1>7. CASE ~SemanticChange(patch, view)
  <2>1. state' = state
    BY <1>2, <1>7, Zenon DEF CommitUpdate
  <2>2. rule'[r] = Updated(rule[r], patch, ViewOf(rule[r]), due)
        /\ (x # r => rule'[x] = rule[x])
    BY <1>1, <1>3, Zenon DEF Updates
  <2>3. ~SemanticChange(patch, rule[r])
    BY <1>3, <1>5, <1>7, ViewDecides, Zenon
  <2>4. rule'[r].gen = rule[r].gen /\ rule'[r].enabled = rule[r].enabled
    BY <1>5, <2>2, <2>3, UpdatedMeaning, ZenonT(30)
  <2>5. rule'[r].status = rule[r].status
    <3>1. Updated(rule[r], patch, view, due).status = rule[r].status
      BY <1>5, UpdatedFields, ZenonT(30)
    <3> QED BY <1>3, <2>2, <3>1, Zenon
  <2> QED BY <2>1, <2>2, <2>4, <2>5, Zenon DEF Settled
<1> QED BY <1>6, <1>7, Zenon

(* Every step but an evaluator's commit settles every rule and opens nothing. *)
LEMMA StepSettles ==
    ASSUME IInv, FreshInv, [Next]_vars,
           ~\E w \in Workers, result \in Results : Commit(w, result)
    PROVE  /\ \A x \in Rules : Settled(x)
           /\ DOMAIN events' = DOMAIN events /\ breaches' = breaches
<1>1. ASSUME \/ ItemsUnchanged
             \/ \E w \in Workers, o \in Owners, r \in Rules, slot \in 1..now : Claim(w, o, r, slot)
             \/ \E r \in Rules : ExpireLease(r)
             \/ \E r \in Rules, at \in BackfillTimes : BackfillSchedule(r, at)
             \/ \E e \in DOMAIN events : BackfillActiveAlertIndex(e) \/ Acknowledge(e)
             \/ \E key \in Keys : ExpireReplay(key)
      PROVE  /\ \A x \in Rules : Settled(x)
             /\ DOMAIN events' = DOMAIN events /\ breaches' = breaches
  <2>1. \A x \in Rules : SameContent(rule[x], rule'[x])
    BY <1>1, ScheduleSteps, Zenon
  <2>2. state' = state /\ DOMAIN events' = DOMAIN events /\ breaches' = breaches
    BY <1>1, Zenon DEF ItemsUnchanged, Claim, ExpireLease, BackfillSchedule, BackfillActiveAlertIndex,
                Acknowledge, ExpireReplay
  <2> QED BY <2>1, <2>2, Zenon DEF Settled, SameContent
<1>2. ASSUME NEW r \in Rules, NEW def, NEW due, CreateRule(r, def, due)
      PROVE  /\ \A x \in Rules : Settled(x)
             /\ DOMAIN events' = DOMAIN events /\ breaches' = breaches
  <2>1. rule[r].status = "absent" /\ rule' = [rule EXCEPT ![r] = NewRule(def, due)]
        /\ state' = state /\ events' = events /\ breaches' = breaches
    BY <1>2, Zenon DEF CreateRule
  <2>2. state[r].mode = "healthy"
    BY <2>1, Zenon DEF FreshInv, Active
  <2>3. \A x \in Rules \ {r} : rule'[x] = rule[x]
    BY <2>1, Zenon DEF IInv, TypeOK
  <2> QED BY <2>1, <2>2, <2>3, Zenon DEF Settled
<1>3. ASSUME NEW c \in Clients, CommitResolve(c)
      PROVE  /\ \A x \in Rules : Settled(x)
             /\ DOMAIN events' = DOMAIN events /\ breaches' = breaches
  <2>1. /\ client[c].event \in EventIds /\ client[c].writesState
        /\ client[c].snap \in States
    BY <1>3, ClientFields, Zenon DEF IInv, ClientSnapshots, CommitResolve
  <2>2. PICK r \in Rules : r = client[c].event.rule
    BY <2>1, Zenon DEF EventIds
  <2>3. state' = [state EXCEPT ![r] = Rewritten(ResolvedState(client[c].snap), client[c].snap)]
        /\ DOMAIN events' = DOMAIN events /\ breaches' = breaches /\ rule' = rule
    BY <1>3, <2>1, <2>2, Zenon DEF CommitResolve
  <2>4. Rewritten(ResolvedState(client[c].snap), client[c].snap).mode = "healthy"
    BY <2>1, Zenon DEF Rewritten, ResolvedState, Cleared, States
  <2>5. state'[r].mode = "healthy" /\ \A x \in Rules \ {r} : state'[x] = state[x]
    BY <2>3, <2>4, Zenon DEF IInv, TypeOK
  <2> QED BY <2>3, <2>5, Zenon DEF Settled
<1>4. ASSUME NEW c \in Clients, CommitUpdate(c)
      PROVE  /\ \A x \in Rules : Settled(x)
             /\ DOMAIN events' = DOMAIN events /\ breaches' = breaches
  <2>1. DOMAIN events' = DOMAIN events /\ breaches' = breaches
    BY <1>4, Zenon DEF CommitUpdate, AdministrativeResolution
  <2> QED BY <1>4, <2>1, UpdateSettles, ZenonT(30)
<1>5. ASSUME NEW c \in Clients, NEW key \in Keys, CommitReplace(c, key)
      PROVE  /\ \A x \in Rules : Settled(x)
             /\ DOMAIN events' = DOMAIN events /\ breaches' = breaches
  <2>1. PICK r, by \in Rules, def \in Definitions, view \in Views, due \in Nat :
          Replaces(client[c], key, r, by, def, view, due)
    BY <1>5, ReplaceWrites, Zenon
  <2>2. client[c].pc = "replace" /\ client[c].rule = r /\ client[c].view = view
    BY <1>5, <2>1, Zenon DEF CommitReplace, Replaces
  <2>3. client[c].snap \in States /\ SnapshotOf(r, client[c].snap, state[r])
    BY <2>2, ClientFields, Zenon DEF IInv, ClientSnapshots, Snapshot
  <2>4. AdministrativeResolution(r, client[c].snap, view)
        /\ DOMAIN events' = DOMAIN events /\ breaches' = breaches
    BY <1>5, <2>2, Zenon DEF CommitReplace, AdministrativeResolution
  <2>5. state'[r].mode = "healthy" /\ \A x \in Rules \ {r} : state'[x] = state[x]
    BY <2>3, <2>4, ResolutionSettles, Zenon
  <2>6. state[by].mode = "healthy" /\ by # r
    BY <2>1, Zenon DEF FreshInv, Active, Replaces
  <2>7. \A x \in Rules \ {r, by} : rule'[x] = rule[x]
    BY <2>1, Zenon DEF Replaces
  <2>8. state'[by].mode = "healthy"
    BY <2>5, <2>6, Zenon
  <2> QED BY <2>4, <2>5, <2>7, <2>8, Zenon DEF Settled
<1> QED BY <1>1, <1>2, <1>3, <1>4, <1>5, WriterCases, Zenon

(* The evaluator's commit keeps streaks and confirms what it opens. *)
LEMMA CommitConfirms ==
    ASSUME IInv, HistInv, FreshInv, NEW w \in Workers, NEW result \in Results, Commit(w, result)
    PROVE  /\ \A x \in Rules : ~Active(rule'[x]) => state'[x].mode = "healthy"
           /\ \A x \in Rules : Streak(x, state'[x], rule'[x].gen, breaches')
           /\ OpeningConfirmed'
<1> DEFINE wk == worker[w]
           ev == [slot |-> wk.slot, result |-> result,
                  missed |-> MissedSlots(wk.work.nextDue, wk.slot)]
           d == Evaluated(wk, result)
           n == [d.next EXCEPT !.rev = wk.snap.rev + 1]
<1>0. wk.rule \in Rules /\ wk.slot \in Nat /\ wk.work \in Works /\ wk.snap \in States
  BY WorkerFields, Zenon DEF IInv, Commit
<1>1. PICK r \in Rules : r = wk.rule
  BY <1>0, Zenon
<1>2. SnapshotOf(r, wk.snap, state[r])
  BY <1>1, Zenon DEF IInv, WorkerSnapshots, Snapshot, Commit
<1>3. wk.snap = state[r] /\ state[r] \in States
  BY <1>0, <1>1, <1>2, Zenon DEF SnapshotOf, Commit, Writable, IInv, TypeOK
<1>4. /\ Fenced(rule[r], wk.work)
      /\ state' = [state EXCEPT ![r] = n]
      /\ events' = CommittedEvents(r, wk, d)
      /\ breaches' = IF result = "breach"
                     THEN breaches \cup {<<r, wk.slot, rule[r].gen>>} ELSE breaches
  BY <1>1, Zenon DEF Commit
<1>5. \A x \in Rules : SameContent(rule[x], rule'[x])
  BY ScheduleSteps, Zenon
<1>6. Outcome(r, state[r], d)
      /\ Streak(r, d.next, rule[r].gen, breaches')
      /\ (d.transition \in {"opened", "suppressed"} =>
            /\ d.event.rule = r /\ d.event.slot = wk.slot
            /\ \A k \in Nat : k < RequiredSlots(wk.work.duration) =>
                                <<r, wk.slot - k, rule[r].gen>> \in breaches')
  <2>1. ev.slot \in Nat /\ ev.result \in Results /\ ev.slot = wk.slot /\ ev.result = result
    BY <1>0, Zenon
  <2>2. d = Decide(r, wk.work, state[r], ev)
    BY <1>1, <1>3, Zenon DEF Evaluated
  <2>3. WellFormed(r, state[r])
    BY <1>2, <1>3, Zenon DEF SnapshotOf
  <2>4. Streak(r, state[r], rule[r].gen, breaches)
    BY Zenon DEF FreshInv
  <2>5. breaches \subseteq breaches' /\ (result = "breach" => <<r, wk.slot, rule[r].gen>> \in breaches')
    BY <1>4, Zenon
  <2> HIDE DEF ev, d, wk
  <2>6. Outcome(r, state[r], d)
    BY <1>0, <1>3, <2>1, <2>2, <2>3, DecideOutcome, Zenon
  <2>7. ev.result = "breach" => <<r, ev.slot, rule[r].gen>> \in breaches'
    BY <2>1, <2>5, Zenon
  <2>8. Confirms(Decide(r, wk.work, state[r], ev), r, wk.work.duration, ev.slot,
                 rule[r].gen, breaches')
    BY <1>0, <1>3, <2>1, <2>4, <2>5, <2>7, DecideStreak, Zenon
  <2> QED BY <2>1, <2>2, <2>6, <2>8, Zenon DEF Confirms
<1>7. d.next \in States /\ d.transition \in {"none", "recovered", "opened", "suppressed"}
  BY <1>6, Zenon DEF Outcome
<1> HIDE DEF d
<1>8. n.mode = d.next.mode /\ n.confirmed = d.next.confirmed /\ n.lastBreach = d.next.lastBreach
  BY <1>7, Zenon DEF States
<1> HIDE DEF n
<1>9. state'[r] = n /\ \A x \in Rules \ {r} : state'[x] = state[x]
  BY <1>4, Zenon DEF IInv, TypeOK
<1>10. ASSUME NEW x \in Rules
       PROVE  /\ ~Active(rule'[x]) => state'[x].mode = "healthy"
              /\ Streak(x, state'[x], rule'[x].gen, breaches')
  <2>1. rule'[x].gen = rule[x].gen /\ (Active(rule'[x]) <=> Active(rule[x]))
    BY <1>5, Zenon DEF SameContent, Active
  <2>2. CASE x = r
    <3>1. Active(rule[r])
      BY <1>4, Zenon DEF Fenced
    <3> QED BY <1>6, <1>8, <1>9, <2>1, <2>2, <3>1, Zenon DEF Streak
  <2>3. CASE x # r
    <3>1. breaches \subseteq breaches'
      BY <1>4, Zenon
    <3> QED BY <1>9, <2>1, <2>3, <3>1, Zenon DEF FreshInv, Streak
  <2> QED BY <2>2, <2>3, Zenon
<1>11. HistoryStep /\ Lasting
  BY CommitHistory, HistoryLasts, Zenon DEF HistInv
<1>12. ASSUME NEW e \in DOMAIN events', NEW k \in 0..(events'[e].duration \div Cadence),
              k = 0 \/ k * Cadence < events'[e].duration
       PROVE  <<e.rule, e.slot - k, events'[e].gen>> \in breaches'
  <2>1. CASE e \in DOMAIN events
    <3>1. events'[e].duration = events[e].duration /\ events'[e].gen = events[e].gen
      BY <1>11, <2>1, Zenon DEF Lasting, Kept
    <3>2. <<e.rule, e.slot - k, events[e].gen>> \in breaches
      BY <1>12, <2>1, <3>1, Zenon DEF FreshInv, OpeningConfirmed
    <3>3. breaches \subseteq breaches'
      BY <1>4, Zenon
    <3> QED BY <3>1, <3>2, <3>3, Zenon
  <2>2. CASE e \notin DOMAIN events
    <3>1. d.transition \in {"opened", "suppressed"}
      <4>1. d.transition \in {"none", "recovered"} => DOMAIN events' = DOMAIN events
        BY <1>4, Zenon DEF CommittedEvents
      <4> QED BY <1>7, <1>12, <2>2, <4>1, Zenon
    <3>2. events' = With(events, d.event, EventItem(rule[r], d.next.activeStatus,
                           d.transition = "opened", d.next.source, wk.slot))
      BY <1>4, <3>1, Zenon DEF CommittedEvents
    <3>3. e = d.event /\ events'[e].duration = rule[r].duration /\ events'[e].gen = rule[r].gen
      BY <1>12, <2>2, <3>2, Zenon DEF With, EventItem
    <3>4. wk.work.duration = rule[r].duration
      BY <1>1, <1>4, Zenon DEF HistInv, WorkersRead, WorkMatches, Commit, Fenced
    <3>5. rule[r].duration \in Nat /\ k \in Nat
      BY <1>12, CadenceAssumption DEF IInv, TypeOK, RuleItems
    <3>6. k < RequiredSlots(rule[r].duration)
      BY <1>12, <3>3, <3>5, RequiredSlotsCover, Zenon
    <3> QED BY <1>6, <3>1, <3>3, <3>4, <3>5, <3>6, Zenon
  <2> QED BY <2>1, <2>2, Zenon
<1> QED BY <1>10, <1>12, Zenon DEF OpeningConfirmed

(* Every step keeps the invariant of consistent reads. *)
LEMMA FreshKept ==
    ASSUME IInv, HistInv, FreshInv, ~StaleRuleReads, [Next]_vars PROVE FreshInv'
<1>1. RequestsRead' /\ \A r \in Rules : views'[r] = {}
  BY RequestsReadKept, ViewsKept, Zenon DEF FreshInv
<1>2. CASE \E w \in Workers, result \in Results : Commit(w, result)
  <2>1. PICK w \in Workers, result \in Results : Commit(w, result)
    BY <1>2, Zenon
  <2> QED BY <1>1, <2>1, CommitConfirms, Zenon DEF FreshInv
<1>3. CASE ~\E w \in Workers, result \in Results : Commit(w, result)
  <2>1. /\ \A x \in Rules : Settled(x)
        /\ DOMAIN events' = DOMAIN events /\ breaches' = breaches
    BY <1>3, StepSettles, Zenon
  <2>2. Lasting
    BY HistorySteps, HistoryLasts, Zenon DEF HistInv
  <2>3. ASSUME NEW x \in Rules
        PROVE  /\ ~Active(rule'[x]) => state'[x].mode = "healthy"
               /\ Streak(x, state'[x], rule'[x].gen, breaches')
    <3>1. CASE state'[x].mode = "healthy"
      BY <3>1, Zenon DEF Streak
    <3>2. CASE /\ state'[x] = state[x]
               /\ rule'[x].gen = rule[x].gen /\ rule'[x].enabled = rule[x].enabled
               /\ rule'[x].status = rule[x].status
      BY <2>1, <3>2, Zenon DEF FreshInv, Active
    <3> QED BY <2>1, <3>1, <3>2, Zenon DEF Settled
  <2>4. \A e \in DOMAIN events :
          events'[e].duration = events[e].duration /\ events'[e].gen = events[e].gen
    BY <2>2, Zenon DEF Lasting, Kept
  <2>5. OpeningConfirmed'
    BY <2>1, <2>4, Zenon DEF FreshInv, OpeningConfirmed
  <2> QED BY <1>1, <2>3, <2>5, Zenon DEF FreshInv
<1> QED BY <1>2, <1>3, Zenon

(* The slots up to a rule's required number reach back over its duration. *)
LEMMA FreshInit == ASSUME Init PROVE FreshInv
<1>0. PICK used \in SUBSET Rules, incident \in BOOLEAN, def \in Definitions, due \in {0, 2} :
        Tenant(used, IF incident /\ def.enabled THEN used ELSE {}, def, NewRule(def, due))
  BY Zenon DEF Init
<1> DEFINE item == NewRule(def, due)
           open == IF incident /\ def.enabled THEN used ELSE {}
<1>1. /\ open \subseteq used
      /\ open # {} => item.enabled /\ item.status = "active"
  BY NewRuleFields, ZenonT(30)
<1>2. item.gen = 0 /\ item.duration = def.duration /\ def.duration \in Nat
  BY NewRuleFields, ParameterAssumption, SMTT(40) DEF DefinitionRecords
<1>a. Tenant(used, open, def, item)
  BY <1>0, Zenon
<1>3. /\ rule = [r \in Rules |-> IF r \in used THEN item ELSE AbsentRule]
      /\ views = [r \in Rules |-> {}]
      /\ state = [r \in Rules |-> IF r \in open THEN LegacyState(r, item) ELSE ZeroState]
      /\ events = [e \in {LegacyEvent(r) : r \in open} |->
                     EventItem(item, "open", FALSE, NoEvent, LegacySlot)]
      /\ client = [c \in Clients |-> Idle]
  <2> HIDE DEF item, open
  <2> QED BY <1>a, Zenon DEF Tenant
<1> HIDE DEF item, open
<1>4. \A r \in Rules : /\ r \in open => state[r].mode = "active"
                       /\ r \notin open => state[r].mode = "healthy"
  BY <1>3, ZenonT(30) DEF LegacyState, ZeroState
<1>5. \A r \in Rules : r \in open => Active(rule[r])
  BY <1>1, <1>3, ZenonT(30) DEF Active
<1>6. RequestsRead /\ \A r \in Rules : views[r] = {}
  BY <1>3, Zenon DEF RequestsRead, Idle
<1>7. OpeningConfirmed
  <2> SUFFICES ASSUME NEW e \in DOMAIN events,
                      NEW k \in 0..(events[e].duration \div Cadence),
                      k = 0 \/ k * Cadence < events[e].duration
               PROVE  <<e.rule, e.slot - k, events[e].gen>> \in breaches
    BY Zenon DEF OpeningConfirmed
  <2>1. PICK r \in open : e = LegacyEvent(r)
    BY <1>3, Zenon
  <2>2. events[e].gen = 0 /\ events[e].duration = def.duration
    BY <1>2, <1>3, ZenonT(30) DEF EventItem
  <2>3. k \in Nat /\ RequiredSlots(def.duration) \in Int
    BY <1>2, <2>2, CadenceAssumption, SMTT(30) DEF RequiredSlots
  <2>4. k < RequiredSlots(def.duration)
    BY <1>2, <2>2, <2>3, RequiredSlotsCover, Zenon
  <2>5. k \in 0..RequiredSlots(def.duration)
    BY <2>3, <2>4, SMTT(30)
  <2>6. e.rule = r /\ e.slot = LegacySlot
    BY <2>1, Zenon DEF LegacyEvent
  <2>7. <<r, LegacySlot - k, 0>> \in breaches
    BY <1>a, <2>5, TenantBreaches, Zenon
  <2> QED BY <2>2, <2>6, <2>7, ZenonT(30)
<1> QED BY <1>4, <1>5, <1>6, <1>7, Zenon DEF FreshInv, Streak

(* The invariant of consistent reads holds in every reachable state. *)
LEMMA FreshInductive == ASSUME ~StaleRuleReads PROVE Spec => []FreshInv
<1>1. Init => FreshInv
  BY FreshInit, Zenon
<1>2. IInv /\ HistInv /\ FreshInv /\ [Next]_vars => FreshInv'
  BY FreshKept, Zenon
<1> QED BY <1>1, <1>2, Inductive, HistoryInductive, PTL DEF Spec

(* With consistent rule reads, whatever PATCHes, disablings, crashes and   *)
(* duplicate claims come between: an incident opens only after every slot  *)
(* of its rule's duration was evaluated as a breach under one meaning.     *)
THEOREM OpeningAlwaysConfirmed == ASSUME ~StaleRuleReads PROVE Spec => []OpeningConfirmed
<1>1. FreshInv => OpeningConfirmed
  BY Zenon DEF FreshInv
<1> QED BY <1>1, FreshInductive, PTL

(* With consistent rule reads, a disabled or replaced rule has no streak   *)
(* and no unresolved event, and no worker in flight gives it one.          *)
THEOREM InactiveAlwaysQuiet == ASSUME ~StaleRuleReads PROVE Spec => []InactiveRuleIsQuiet
<1>1. IInv /\ FreshInv => InactiveRuleIsQuiet
  BY ZenonT(30) DEF IInv, FreshInv, IncidentMatchesState, InactiveRuleIsQuiet
<1> QED BY <1>1, Inductive, FreshInductive, PTL

(* The schedule after a step: an enabled rule that was scheduled, or was   *)
(* not enabled before, has one.                                            *)
LEMMA ScheduleKept ==
    ASSUME IInv, FreshInv, [Next]_vars, NEW r \in Rules,
           Active(rule'[r]), ~Active(rule[r]) \/ rule[r].nextDue # 0
    PROVE  rule'[r].nextDue # 0
<1>0. rule \in [Rules -> RuleItems] /\ now \in Nat
  BY Zenon DEF IInv, TypeOK
<1>1. ASSUME rule' = rule PROVE rule'[r].nextDue # 0
  BY <1>1, Zenon
<1>2. ASSUME NEW w \in Workers, NEW o, NEW x \in Rules, NEW slot, Claim(w, o, x, slot)
      PROVE  rule'[r].nextDue # 0
  <2>1. rule' = [rule EXCEPT ![x].owner = o, ![x].live = TRUE, ![x].epoch = @ + 1]
    BY <1>2, Zenon DEF Claim
  <2> QED BY <1>0, <2>1 DEF RuleItems, Active
<1>3. ASSUME NEW w \in Workers, NEW result, Commit(w, result) PROVE rule'[r].nextDue # 0
  <2>1. worker[w].rule \in Rules /\ worker[w].slot \in Nat
    BY <1>3, WorkerFields, Zenon DEF IInv, Commit
  <2>2. PICK x \in Rules : rule' = [rule EXCEPT ![x].nextDue = worker[w].slot + 1,
                                                ![x].owner = NoOwner, ![x].live = FALSE]
    BY <1>3, <2>1, Zenon DEF Commit
  <2> QED BY <1>0, <2>1, <2>2, SMTT(30) DEF RuleItems, Active
<1>4. ASSUME NEW x \in Rules, ExpireLease(x) PROVE rule'[r].nextDue # 0
  BY <1>0, <1>4, ZenonT(30) DEF ExpireLease, RuleItems, Active
<1>5. ASSUME NEW x \in Rules, NEW at \in BackfillTimes, BackfillSchedule(x, at)
      PROVE  rule'[r].nextDue # 0
  <2>1. PICK due \in NextCompleteSlot(at) : rule' = [rule EXCEPT ![x].nextDue = due]
    BY <1>5, Zenon DEF BackfillSchedule
  <2>2. due # 0
    BY ParameterAssumption, SMTT(30) DEF NextCompleteSlot
  <2> QED BY <1>0, <2>1, <2>2, Zenon DEF RuleItems, Active
<1>6. ASSUME NEW x \in Rules, NEW def, NEW due \in NextCompleteSlot(now), CreateRule(x, def, due)
      PROVE  rule'[r].nextDue # 0
  <2>1. rule'[r] = IF r = x THEN NewRule(def, due) ELSE rule[r]
    BY <1>0, <1>6, Zenon DEF CreateRule
  <2>2. due # 0
    BY <1>0 DEF NextCompleteSlot
  <2>3. CASE r = x
    <3>1. rule'[r].enabled /\ rule'[r] = NewRule(def, due)
      BY <2>1, <2>3, Zenon DEF Active
    <3> QED BY <2>2, <3>1, NewRuleScheduled, Zenon
  <2>4. CASE r # x
    BY <2>1, <2>4, Zenon
  <2> QED BY <2>3, <2>4, Zenon
<1>7. ASSUME NEW c \in Clients, CommitUpdate(c) PROVE rule'[r].nextDue # 0
  <2>1. PICK x \in Rules, patch \in Patches, view \in Views, due \in Nat :
          Updates(client[c], x, patch, view, due)
    BY <1>7, UpdateWrites, ZenonT(30)
  <2>2. view = ViewOf(rule[x]) /\ due # 0
    BY <1>7, <2>1, Zenon DEF FreshInv, RequestsRead, RequestMatches, Updates, CommitUpdate
  <2>3. CASE r # x
    <3>1. rule'[r] = rule[r]
      BY <2>1, <2>3, Zenon DEF Updates
    <3> QED BY <3>1, Zenon
  <2>4. CASE r = x
    <3>1. rule'[r] = Updated(rule[r], patch, ViewOf(rule[r]), due) /\ rule[r].status = "active"
      BY <2>1, <2>2, <2>4, ZenonT(30) DEF Updates
    <3>2. rule'[r].enabled
      BY Zenon DEF Active
    <3>a. rule[r] \in RuleItems
      BY <1>0, Zenon
    <3>b. Updated(rule[r], patch, ViewOf(rule[r]), due).enabled
      BY <3>1, <3>2, Zenon
    <3>3. CASE SemanticChange(patch, rule[r])
      <4>1. Updated(rule[r], patch, ViewOf(rule[r]), due).nextDue = due
        BY <3>a, <3>b, <3>3, UpdatedSchedule, Zenon
      <4> QED BY <2>2, <3>1, <4>1, Zenon
    <3>4. CASE ~SemanticChange(patch, rule[r])
      <4>1. rule[r].enabled
            /\ Updated(rule[r], patch, ViewOf(rule[r]), due).nextDue = rule[r].nextDue
        BY <3>a, <3>b, <3>4, UpdatedSchedule, Zenon
      <4> QED BY <3>1, <3>2, <4>1, Zenon DEF Active
    <3> QED BY <3>3, <3>4, Zenon
  <2> QED BY <2>3, <2>4, Zenon
<1>8. ASSUME NEW c \in Clients, NEW key \in Keys, CommitReplace(c, key)
      PROVE  rule'[r].nextDue # 0
  <2>1. PICK x, by \in Rules, def \in Definitions, view \in Views, due \in Nat :
          Replaces(client[c], key, x, by, def, view, due)
    BY <1>8, ReplaceWrites, Zenon
  <2>2. due # 0
    BY <1>8, <2>1, Zenon DEF FreshInv, RequestsRead, RequestMatches, Replaces, CommitReplace
  <2>3. CASE r = x
    <3>1. rule'[r].status = "replaced"
      BY <1>0, <2>1, <2>3, RetiredFields, SMTT(30) DEF Replaces
    <3> QED BY <3>1, Zenon DEF Active
  <2>4. CASE r = by
    <3>1. rule'[r] = [NewRule(def, due) EXCEPT !.replaces = x]
      BY <2>1, <2>4, Zenon DEF Replaces
    <3>2. rule'[r].enabled = NewRule(def, due).enabled /\ rule'[r].nextDue = NewRule(def, due).nextDue
      BY <3>1, NewRuleType, SMTT(30) DEF RuleItems
    <3> QED BY <2>2, <3>2, NewRuleFields, SMTT(40) DEF Active
  <2>5. CASE r \notin {x, by}
    <3>1. rule'[r] = rule[r]
      BY <2>1, <2>5, Zenon DEF Replaces
    <3> QED BY <3>1, Zenon
  <2> QED BY <2>3, <2>4, <2>5, ZenonT(30)
<1> QED BY <1>1, <1>2, <1>3, <1>4, <1>5, <1>6, <1>7, <1>8, WriterCases, ZenonT(30)
        DEF ItemsUnchanged, BackfillActiveAlertIndex, Acknowledge, CommitResolve, ExpireReplay

(* With consistent rule reads, no step takes an enabled rule out of        *)
(* evaluation, and every step that enables or creates one schedules it.    *)
THEOREM EnabledAlwaysScheduled == ASSUME ~StaleRuleReads PROVE Spec => EnabledStaysScheduled
<1>1. IInv /\ FreshInv /\ [Next]_vars =>
        [\A r \in Rules : Active(rule[r])' /\ (~Active(rule[r]) \/ rule[r].nextDue # 0)
                            => rule[r].nextDue' # 0]_vars
  BY ScheduleKept, Zenon
<1> QED BY <1>1, Inductive, FreshInductive, PTL DEF Spec, EnabledStaysScheduled
=============================================================================
