---------------------- MODULE NotificationStoreProofs ----------------------
(***************************************************************************)
(* Proofs about the notification pipeline, for every number of recipients, *)
(* relays, handlers and feedback consumers, every page size and call       *)
(* limit, and whatever the bounds.  This part has the inductive invariant  *)
(* PipelineInv, what a write to the store leaves of it, and the steps of   *)
(* the relays, of the environment and of time.                             *)
(*                                                                         *)
(* What carries the argument is what a process still knows of a row it     *)
(* read earlier.  A row's revision moves with everything but its leases,   *)
(* so a process whose condition on the revision holds acts on the row it   *)
(* read; a row never goes back to absent or waiting, so a dependency read  *)
(* as needless stays so; a page's plan for an opening is fenced by the     *)
(* opening's state unless the opening can no longer move.                  *)
(***************************************************************************)
EXTENDS NotificationPipeline, FiniteSetTheorems, WellFoundedInduction, TLAPS

(* The types of what is kept between the steps of a process. *)
Outboxes ==
    [status : {"absent", "pending", "expanded"}, channel : Channels, rev : Nat, cursor : Nat,
     lease : Leases(Relays)]

AttemptRows ==
    [outcome : AttemptOutcomes, provider : ProviderOutcomes, accepted : BOOLEAN]

Calls == 1 .. MaxProviderCalls

PageRows == UNION {[page -> Rows] : page \in SUBSET Recipients}

RelayStates ==
    {Idle}
    \cup [pc : {"claimed", "retry"}, item : Kinds \X {0}, work : Outboxes]
    \cup [pc : {"planned"}, item : Kinds \X {0}, work : Outboxes, rows : PageRows,
          seen : PageRows]
    \cup [pc : {"publish", "published"}, item : Deliveries, work : Rows]

EndStates == {"succeeded", "permanent_failed", "cancelled", "unknown", "retryable_failed"}

(* A call that succeeded ends its delivery. *)
Completions ==
    {completion \in [outcome : (AttemptOutcomes \ {"started"}) \cup {"none"}, next : EndStates,
                     possibly : BOOLEAN, exhausted : BOOLEAN] :
       completion.outcome = "succeeded" => completion.next = "succeeded"}

Dependencies == [op : {"none", "absent", "release"}, rev : Nat]

Fences == [version : Nat, suppressed : BOOLEAN, resolved : BOOLEAN]

WorkerStates ==
    {Resting}
    \cup [pc : {"interrupted", "claimed", "ready", "limited", "begun"}, d : Deliveries,
          record : Rows]
    \cup [pc : {"fenced"}, d : Deliveries, record : Rows, fence : Fences]
    \cup [pc : {"finish"}, d : Deliveries, record : Rows,
          by : {"attempt", "preflight", "cancel"}, completion : Completions,
          merge : BOOLEAN, retry : BOOLEAN]
    \cup [pc : {"commit"}, d : Deliveries, record : Rows,
          by : {"attempt", "preflight", "cancel"}, completion : Completions,
          merge : BOOLEAN, retry : BOOLEAN, dep : Dependencies]

SesReports == [d : Deliveries, n : Calls, semantic : SesEvents]

FeedbackStates ==
    {Resting}
    \cup [pc : {"reconcile"}, event : SesReports, row : Rows, attempt : AttemptRows,
          dep : Dependencies, rank : 0 .. 3]

TypeInv ==
    /\ status \in {"open", "resolved"}
    /\ outbox \in [Kinds -> Outboxes]
    /\ delivery \in [Deliveries -> Rows]
    /\ attempt \in [Deliveries -> Seq(AttemptRows)]
    /\ gate \in [Recipients -> [member : BOOLEAN, preference : BOOLEAN, version : Nat]]
    /\ suppression \in [Recipients -> 0 .. 3]
    /\ queue \subseteq Deliveries
    /\ relay \in [Relays -> RelayStates]
    /\ worker \in [Workers -> WorkerStates]
    /\ provider \in
         [Deliveries -> [calls : Nat, accepted : SUBSET Calls, misread : SUBSET Calls]]
    /\ feedback \in [Consumers -> FeedbackStates]
    /\ deduped \subseteq Deliveries \X Calls \X ProviderOutcomes
-----------------------------------------------------------------------------
Unfinished == {"queued", "processing", "retryable_failed"}

Unstarted == {"absent", "waiting_dependency"}

Failed == {"permanent_failed", "cancelled"}

(* All of a row but its leases: what its revision stands for. *)
Core(row) ==
    <<row.state, row.rev, row.count, row.possibly, row.exhausted, row.outcome, row.owner,
      row.accepted, row.indexed>>

(* A delivery's row is the one its state, its attempts and its opening ask for. *)
RowSound(d) ==
    /\ delivery[d].state = "absent" => delivery[d] = NoRow
    /\ Len(attempt[d]) = delivery[d].count
    /\ provider[d].accepted \subseteq 1 .. delivery[d].count
    /\ delivery[d].state \notin TerminalStates => delivery[d].outcome \in {"none", "delayed"}
    /\ delivery[d].state = "pending" => delivery[d].indexed
    /\ delivery[d].state \in Unfinished => d \in queue

PairSound(r) ==
    /\ delivery[Opening(r)].state # "waiting_dependency"
    /\ delivery[<<"recovery", r>>].state # "absent" => delivery[Opening(r)].state # "absent"
    /\ delivery[<<"recovery", r>>].state = "waiting_dependency" =>
         Unsettled(delivery[Opening(r)].state)

(* What is left of a row read as old: a later revision, or the same row. *)
Remembers(old, d) ==
    /\ delivery[d].state \notin Unstarted
    /\ old.count <= delivery[d].count
    /\ old.rev <= delivery[d].rev
    /\ old.rev = delivery[d].rev => Core(old) = Core(delivery[d])

(* The dependency a transaction carries is all that its move to next asks for. *)
DependencyFits(d, next, dep) ==
    /\ dep.op # "none" => Settles(d, next)
    /\ dep.op = "none" /\ Settles(d, next) => delivery[Recovery(d)].state \notin Unstarted

FenceSound(d, fence) ==
    /\ fence.version <= gate[d[2]].version
    /\ fence.version = gate[d[2]].version => gate[d[2]].member /\ gate[d[2]].preference
    /\ ~fence.suppressed
    /\ Channel = "telegram" => (d[1] = "recovery" <=> fence.resolved)

(* What a handler at x may still rely on. *)
PlaceSound(x) ==
    x.pc # "idle" =>
      /\ x.record.state = "processing"
      /\ Remembers(x.record, x.d)
      /\ x.pc \in {"limited", "fenced"} => ~CallsOver(x.record) /\ ~LastCall(x.record)
      /\ x.pc \in {"interrupted", "begun"} => x.record.count > 0
      /\ x.pc = "fenced" => FenceSound(x.d, x.fence)
      /\ x.pc \in {"finish", "commit"} /\ x.by = "attempt" =>
           x.record.count > 0 /\ x.completion.outcome # "none"
      /\ x.pc = "commit" => DependencyFits(x.d, x.completion.next, x.dep)

WorkerSound(w) == PlaceSound(worker[w])

FeedbackSound(c) ==
    LET read == feedback[c]
        event == read.event
        next == NextState(read.row, event.n, event.semantic)
    IN read.pc # "idle" =>
         /\ Channel = "email"
         /\ Reconcilable(read.row.state)
         /\ Remembers(read.row, event.d)
         /\ event.n <= delivery[event.d].count
         /\ read.rank <= suppression[event.d[2]]
         /\ ~Unsettled(read.row.state) => read.dep.op = "none"
         /\ OwnsAggregate(read.row, event.n, event.semantic) /\ Unsettled(read.row.state) =>
              DependencyFits(event.d, next, read.dep)

(* The states in which DeliveryLifecycle lets a recovery follow an opening. *)
Recoveries(opening) ==
    CASE opening = "succeeded" -> {"pending", "cancelled"}
      [] opening \in Failed -> {"cancelled"}
      [] OTHER -> {IF Channel = "telegram" THEN "cancelled" ELSE "waiting_dependency"}

PlannedRecovery(p, r) ==
    /\ delivery[Opening(r)].state # "absent"
    /\ relay[p].rows[r] \in {Row(in) : in \in {"pending", "cancelled", "waiting_dependency"}}
    /\ r \in DOMAIN relay[p].seen =>
         relay[p].rows[r].state \in Recoveries(relay[p].seen[r].state)
    /\ r \notin DOMAIN relay[p].seen =>
         /\ relay[p].rows[r].state = "cancelled"
         /\ Channel = "telegram" \/ delivery[Opening(r)].state \in Failed

RelaySound(p) ==
    /\ relay[p].pc = "planned" =>
         \A r \in DOMAIN relay[p].rows :
           IF relay[p].item[1] = "opening"
           THEN relay[p].rows[r] \in {NoRow, Row("pending"), Row("cancelled")}
           ELSE PlannedRecovery(p, r)
    /\ relay[p].pc \in {"publish", "published"} =>
         delivery[relay[p].item].state \notin Unstarted
    /\ relay[p].pc = "published" /\ delivery[relay[p].item].state = "pending" =>
         relay[p].item \in queue

(* The inductive invariant. *)
PipelineInv ==
    /\ TypeInv
    /\ \A d \in Deliveries : RowSound(d)
    /\ \A r \in Recipients : PairSound(r)
    /\ \A w \in Workers : WorkerSound(w)
    /\ \A c \in Consumers : FeedbackSound(c)
    /\ \A p \in Relays : RelaySound(p)
    /\ outbox["recovery"].channel = Channel
    /\ deduped # {} => Channel = "email"
    /\ SuppressionRecorded
-----------------------------------------------------------------------------
(* The provider outcomes, listed. *)
LEMMA OutcomeList ==
    /\ ProviderOutcomes = {"none", "accepted", "delayed", "soft_bounced", "delivered",
                           "rejected", "hard_bounced", "complained"}
    /\ \A o \in ProviderOutcomes : OutcomeRank[o] \in Nat
  BY DEF ProviderOutcomes, OutcomeRank

(* The two outcomes of a delivery that is not finished rank below all others. *)
LEMMA SemanticList ==
    ASSUME NEW semantic \in Semantics
    PROVE  /\ SemanticOutcome[semantic] \in ProviderOutcomes \ {"none"}
           /\ SuppressionRank(semantic) \in 0 .. 3
  BY OutcomeList DEF Semantics, SemanticOutcome, SuppressionRank

(* A missing row, and a row as it is created. *)
LEMMA NewRow ==
    ASSUME NEW state \in DeliveryStates \cup {"absent"}
    PROVE  /\ Row(state) \in Rows
           /\ Row(state).state = state /\ Row(state).rev = 1 /\ Row(state).count = 0
           /\ Row(state).outcome = "none" /\ Row(state).owner = 0
           /\ Row(state).indexed = (state = "pending")
           /\ ~Row(state).lease.live /\ ~Row(state).relay.live
  BY StoreAssumption, OutcomeList DEF Row, Rows, Leases, NoLease

(* A write of worker or feedback moves the revision and nothing else. *)
LEMMA BumpedRow ==
    ASSUME NEW row \in Rows
    PROVE  /\ Bumped(row) \in Rows /\ Bumped(row).rev = row.rev + 1
           /\ Bumped(row).state = row.state /\ Bumped(row).count = row.count
           /\ Bumped(row).outcome = row.outcome /\ Bumped(row).indexed = row.indexed
           /\ Bumped(row).lease = row.lease /\ Bumped(row).relay = row.relay
           /\ Bumped(row).possibly = row.possibly /\ Bumped(row).owner = row.owner
           /\ Bumped(row).accepted = row.accepted /\ Bumped(row).exhausted = row.exhausted
  BY DEF Bumped, Rows

(* Publishing a delivery's job: the row leaves the relay index. *)
LEMMA QueuedRow ==
    ASSUME NEW row \in Rows
    PROVE  /\ Queued(row) \in Rows
           /\ Queued(row).state = "queued" /\ Queued(row).rev = row.rev + 1
           /\ Queued(row).count = row.count /\ Queued(row).outcome = row.outcome
  <1> DEFINE b == Bumped(row)
  <1>1. b \in Rows /\ b.rev = row.rev + 1 /\ b.count = row.count /\ b.outcome = row.outcome
    BY BumpedRow, Zenon
  <1>2. Queued(row) = [b EXCEPT !.state = "queued", !.indexed = FALSE, !.relay = NoLease]
    BY Zenon DEF Queued
  <1>3. NoLease \in Leases(Relays) /\ "queued" \in DeliveryStates \cup {"absent"}
    BY Zenon DEF Leases, NoLease, DeliveryStates, NonterminalStates
  <1> HIDE DEF b
  <1>4. Queued(row) \in Rows
    BY <1>1, <1>2, <1>3, Zenon DEF Rows
  <1>5. Queued(row).state = "queued" /\ Queued(row).rev = b.rev
    BY <1>1, <1>2, Zenon DEF Rows
  <1>6. Queued(row).count = b.count /\ Queued(row).outcome = b.outcome
    BY <1>1, <1>2, Zenon DEF Rows
  <1> QED  BY <1>1, <1>4, <1>5, <1>6, Zenon

(* A new lease, a released one and none are leases. *)
LEMMA LeaseTypes ==
    /\ NoLease \in Leases(Relays) /\ NoLease \in Leases(Workers)
    /\ \A p \in Relays, lease \in Leases(Relays) : Claimed(lease, p) \in Leases(Relays)
    /\ \A lease \in Leases(Relays) : [lease EXCEPT !.live = FALSE] \in Leases(Relays)
    /\ \A lease \in Leases(Workers) :
         /\ Released(lease) \in Leases(Workers)
         /\ [lease EXCEPT !.live = FALSE] \in Leases(Workers)
         /\ \A w \in Workers :
              [owner |-> w, epoch |-> lease.epoch + 1, live |-> TRUE] \in Leases(Workers)
  <1>1. NoLease \in Leases(Relays) /\ NoLease \in Leases(Workers)
    BY Zenon DEF Leases, NoLease
  <1>2. \A p \in Relays, lease \in Leases(Relays) : Claimed(lease, p) \in Leases(Relays)
    BY DEF Leases, Claimed
  <1>3. \A lease \in Leases(Relays) : [lease EXCEPT !.live = FALSE] \in Leases(Relays)
    BY Zenon DEF Leases
  <1>4. \A lease \in Leases(Workers) : [lease EXCEPT !.live = FALSE] \in Leases(Workers)
    BY Zenon DEF Leases
  <1>5. \A lease \in Leases(Workers) : Released(lease) \in Leases(Workers)
    BY Zenon DEF Leases, Released
  <1>6. \A lease \in Leases(Workers), w \in Workers :
          [owner |-> w, epoch |-> lease.epoch + 1, live |-> TRUE] \in Leases(Workers)
    BY DEF Leases
  <1> QED  BY <1>1, <1>2, <1>3, <1>4, <1>5, <1>6, ZenonT(30)

(* The leases of a row may change without its revision. *)
LEMMA RowLeases ==
    ASSUME NEW row \in Rows
    PROVE  /\ \A lease \in Leases(Relays) :
                LET new == [row EXCEPT !.relay = lease] IN
                new \in Rows /\ Core(new) = Core(row) /\ new.outcome = row.outcome
           /\ \A lease \in Leases(Workers) :
                LET new == [row EXCEPT !.lease = lease] IN
                new \in Rows /\ Core(new) = Core(row) /\ new.outcome = row.outcome
  BY Zenon DEF Rows, Core

(* A handler's claim. *)
LEMMA ClaimedRow ==
    ASSUME NEW row \in Rows, NEW w \in Workers
    PROVE  LET new == [Bumped(row) EXCEPT
                         !.state = "processing",
                         !.lease = [owner |-> w, epoch |-> @.epoch + 1, live |-> TRUE]]
           IN /\ new \in Rows /\ new.state = "processing" /\ new.rev = row.rev + 1
              /\ new.count = row.count /\ new.outcome = row.outcome
  <1> DEFINE b == Bumped(row)
             lease == [owner |-> w, epoch |-> b.lease.epoch + 1, live |-> TRUE]
             new == [b EXCEPT !.state = "processing", !.lease = lease]
  <1>1. b \in Rows /\ b.rev = row.rev + 1 /\ b.count = row.count /\ b.outcome = row.outcome
    BY BumpedRow, Zenon
  <1>2. lease \in Leases(Workers) /\ "processing" \in DeliveryStates
    <2>1. b.lease \in Leases(Workers)  BY <1>1, Zenon DEF Rows
    <2> QED  BY <2>1, LeaseTypes, Zenon DEF DeliveryStates, NonterminalStates
  <1> HIDE DEF b, lease
  <1>3. new \in Rows
    BY <1>1, <1>2, Zenon DEF Rows
  <1>4. /\ new.state = "processing" /\ new.rev = b.rev
        /\ new.count = b.count /\ new.outcome = b.outcome
    BY <1>1, <1>2, Zenon DEF Rows
  <1> QED  BY <1>1, <1>3, <1>4, Zenon DEF b, lease

(* A claim given back. *)
LEMMA DeferredRow ==
    ASSUME NEW row \in Rows
    PROVE  /\ Deferred(row) \in Rows /\ Deferred(row).state = "retryable_failed"
           /\ Deferred(row).rev = row.rev + 1
           /\ Deferred(row).count = row.count /\ Deferred(row).outcome = row.outcome
  <1> DEFINE b == Bumped(row)
             lease == Released(b.lease)
             new == [b EXCEPT !.state = "retryable_failed", !.lease = lease]
  <1>1. b \in Rows /\ b.rev = row.rev + 1 /\ b.count = row.count /\ b.outcome = row.outcome
    BY BumpedRow, Zenon
  <1>2. lease \in Leases(Workers) /\ "retryable_failed" \in DeliveryStates
    <2>1. b.lease \in Leases(Workers)  BY <1>1, Zenon DEF Rows
    <2> QED  BY <2>1, LeaseTypes, Zenon DEF DeliveryStates, NonterminalStates
  <1> HIDE DEF b, lease
  <1>3. new \in Rows
    BY <1>1, <1>2, Zenon DEF Rows
  <1>4. /\ new.state = "retryable_failed" /\ new.rev = b.rev
        /\ new.count = b.count /\ new.outcome = b.outcome
    BY <1>1, <1>2, Zenon DEF Rows
  <1> QED  BY <1>1, <1>3, <1>4, ZenonT(30) DEF b, lease, Deferred

(* FinalizeUnknown's row. *)
LEMMA UnknownRow ==
    ASSUME NEW row \in Rows
    PROVE  /\ Unknown(row) \in Rows /\ Unknown(row).state = "unknown"
           /\ Unknown(row).rev = row.rev + 1
           /\ Unknown(row).count = row.count /\ Unknown(row).outcome = row.outcome
  <1> DEFINE b == Bumped(row)
             lease == Released(b.lease)
             new == [b EXCEPT !.state = "unknown", !.possibly = TRUE, !.exhausted = FALSE,
                              !.lease = lease]
  <1>1. b \in Rows /\ b.rev = row.rev + 1 /\ b.count = row.count /\ b.outcome = row.outcome
    BY BumpedRow, Zenon
  <1>2. lease \in Leases(Workers) /\ "unknown" \in DeliveryStates
    <2>1. b.lease \in Leases(Workers)  BY <1>1, Zenon DEF Rows
    <2> QED  BY <2>1, LeaseTypes, Zenon DEF DeliveryStates, TerminalStates
  <1> HIDE DEF b, lease
  <1>3. new \in Rows
    BY <1>1, <1>2, Zenon DEF Rows
  <1>4. /\ new.state = "unknown" /\ new.rev = b.rev
        /\ new.count = b.count /\ new.outcome = b.outcome
    BY <1>1, <1>2, Zenon DEF Rows
  <1> QED  BY <1>1, <1>3, <1>4, ZenonT(30) DEF b, lease, Unknown

(* BeginAttempt's row. *)
LEMMA BegunRow ==
    ASSUME NEW row \in Rows, row.count < MaxProviderCalls
    PROVE  LET new == [Bumped(row) EXCEPT !.count = @ + 1]
           IN /\ new \in Rows /\ new.state = row.state /\ new.rev = row.rev + 1
              /\ new.count = row.count + 1 /\ new.outcome = row.outcome
  <1> DEFINE b == Bumped(row)
             new == [b EXCEPT !.count = b.count + 1]
  <1>1. /\ b \in Rows /\ b.rev = row.rev + 1 /\ b.count = row.count
        /\ b.outcome = row.outcome /\ b.state = row.state
    BY BumpedRow, Zenon
  <1> HIDE DEF b
  <1>2. b.count + 1 \in 0 .. MaxProviderCalls
    BY <1>1, StoreAssumption DEF Rows
  <1>3. new \in Rows
    BY <1>1, <1>2, Zenon DEF Rows
  <1>4. /\ new.state = b.state /\ new.rev = b.rev /\ new.count = b.count + 1
        /\ new.outcome = b.outcome
    BY <1>1, Zenon DEF Rows
  <1> QED  BY <1>1, <1>3, <1>4, Zenon DEF b

(* The relay puts a row it could not publish back. *)
LEMMA RescheduledRow ==
    ASSUME NEW row \in Rows
    PROVE  LET new == [Bumped(row) EXCEPT !.relay = NoLease]
           IN /\ new \in Rows /\ new.state = row.state /\ new.rev = row.rev + 1
              /\ new.count = row.count /\ new.outcome = row.outcome
              /\ new.indexed = row.indexed
  <1> DEFINE b == Bumped(row)
             new == [b EXCEPT !.relay = NoLease]
  <1>1. /\ b \in Rows /\ b.rev = row.rev + 1 /\ b.count = row.count
        /\ b.outcome = row.outcome /\ b.state = row.state /\ b.indexed = row.indexed
    BY BumpedRow, Zenon
  <1> HIDE DEF b
  <1>2. new \in Rows /\ new.state = b.state /\ new.rev = b.rev /\ new.count = b.count
        /\ new.outcome = b.outcome /\ new.indexed = b.indexed
    BY <1>1, LeaseTypes, Zenon DEF Rows
  <1> QED  BY <1>1, <1>2, Zenon DEF b

(* A recovery's row once its opening has settled. *)
LEMMA PromotedRow ==
    ASSUME NEW row \in Rows, NEW next
    PROVE  /\ Promoted(row, next) \in Rows /\ Promoted(row, next).rev = row.rev + 1
           /\ Promoted(row, next).count = row.count
           /\ Promoted(row, next).outcome = row.outcome
           /\ Promoted(row, next).state = IF next = "succeeded" THEN "pending" ELSE "cancelled"
           /\ next = "succeeded" => Promoted(row, next).indexed
  <1> DEFINE b == Bumped(row)
             released == [b EXCEPT !.state = "pending", !.indexed = TRUE]
             ended == [b EXCEPT !.state = "cancelled", !.indexed = FALSE]
  <1>1. /\ b \in Rows /\ b.rev = row.rev + 1 /\ b.count = row.count
        /\ b.outcome = row.outcome
    BY BumpedRow, Zenon
  <1>2. Promoted(row, next) = IF next = "succeeded" THEN released ELSE ended
    BY Zenon DEF Promoted
  <1> HIDE DEF b
  <1>3. {"pending", "cancelled"} \subseteq DeliveryStates \cup {"absent"}
    BY Zenon DEF DeliveryStates, TerminalStates, NonterminalStates
  <1>4. /\ released \in Rows /\ released.rev = b.rev /\ released.count = b.count
        /\ released.outcome = b.outcome /\ released.state = "pending" /\ released.indexed = TRUE
    BY <1>1, <1>3, Zenon DEF Rows
  <1>5. /\ ended \in Rows /\ ended.rev = b.rev /\ ended.count = b.count
        /\ ended.outcome = b.outcome /\ ended.state = "cancelled" /\ ended.indexed = FALSE
    BY <1>1, <1>3, Zenon DEF Rows
  <1> HIDE DEF released, ended
  <1> QED  BY <1>1, <1>2, <1>4, <1>5, ZenonT(30)
-----------------------------------------------------------------------------
(* What a step does to one row: it never forgets it, goes back to waiting,  *)
(* to pending or out of a final state, and moves the revision with anything *)
(* but the leases.                                                          *)
Evolves(d) ==
    /\ delivery[d].state # "absent" => delivery'[d].state # "absent"
    /\ delivery[d].state \notin Unstarted => delivery'[d].state \notin Unstarted
    /\ delivery[d].state \notin Unstarted /\ delivery'[d].state = "pending" =>
         delivery[d].state = "pending"
    /\ delivery[d].state \in TerminalStates => delivery'[d].state \in TerminalStates
    /\ delivery[d].state \in Failed => delivery'[d].state = delivery[d].state
    /\ delivery[d].count <= delivery'[d].count
    /\ delivery[d].rev <= delivery'[d].rev
    /\ delivery[d].state \notin Unstarted /\ delivery'[d].rev = delivery[d].rev =>
         Core(delivery'[d]) = Core(delivery[d])

(* A gate changes only with its version. *)
GateEvolves(r) ==
    /\ gate[r].version <= gate'[r].version
    /\ gate[r].version = gate'[r].version => gate'[r] = gate[r]

(* A job is deleted only once its delivery is finished. *)
QueueKept == \A d \in queue : d \in queue' \/ delivery'[d].state \in TerminalStates

(* On email, a suppression is never lowered. *)
SuppressionKept ==
    Channel = "email" => \A r \in Recipients : suppression[r] <= suppression'[r]

ChannelKept == Channel' = Channel /\ outbox'["recovery"].channel = outbox["recovery"].channel

(* What the steps of all processes have in common. *)
StoreKept ==
    /\ \A d \in Deliveries : Evolves(d) /\ RowSound(d)'
    /\ \A r \in Recipients : PairSound(r)' /\ GateEvolves(r)
    /\ QueueKept /\ SuppressionKept /\ ChannelKept

(* The two rows of a recipient are deliveries. *)
LEMMA PairRows ==
    /\ \A r \in Recipients : Opening(r) \in Deliveries /\ <<"recovery", r>> \in Deliveries
    /\ \A d \in Deliveries : Recovery(d) \in Deliveries /\ d[2] \in Recipients /\ d[1] \in Kinds
    /\ \A d \in Deliveries : d = <<d[1], d[2]>>
  BY DEF Opening, Recovery, Deliveries, Kinds

(* What a handler carries in each place. *)
LEMMA WorkerFields ==
    ASSUME NEW x \in WorkerStates
    PROVE  /\ x.pc \in {"idle", "interrupted", "claimed", "ready", "limited", "begun", "fenced",
                        "finish", "commit"}
           /\ x.pc # "idle" => x.d \in Deliveries /\ x.record \in Rows
           /\ x.pc = "fenced" => x.fence \in Fences
           /\ x.pc \in {"finish", "commit"} =>
                /\ x.by \in {"attempt", "preflight", "cancel"} /\ x.completion \in Completions
                /\ x.merge \in BOOLEAN /\ x.retry \in BOOLEAN
           /\ x.pc = "commit" => x.dep \in Dependencies
           /\ x.pc = "idle" => x = Resting
  <1>1. CASE x = Resting
    BY <1>1, Zenon DEF Resting
  <1>2. CASE x \in [pc : {"interrupted", "claimed", "ready", "limited", "begun"},
                    d : Deliveries, record : Rows]
    BY <1>2, Zenon
  <1>3. CASE x \in [pc : {"fenced"}, d : Deliveries, record : Rows, fence : Fences]
    BY <1>3, Zenon
  <1>4. CASE x \in [pc : {"finish"}, d : Deliveries, record : Rows,
                    by : {"attempt", "preflight", "cancel"}, completion : Completions,
                    merge : BOOLEAN, retry : BOOLEAN]
    BY <1>4, Zenon
  <1>5. CASE x \in [pc : {"commit"}, d : Deliveries, record : Rows,
                    by : {"attempt", "preflight", "cancel"}, completion : Completions,
                    merge : BOOLEAN, retry : BOOLEAN, dep : Dependencies]
    BY <1>5, Zenon
  <1> QED  BY <1>1, <1>2, <1>3, <1>4, <1>5, ZenonT(30) DEF WorkerStates

(* A row read stays remembered, whatever becomes of it. *)
LEMMA RemembersKept ==
    ASSUME NEW old \in Rows, NEW d \in Deliveries, delivery \in [Deliveries -> Rows],
           (delivery \in [Deliveries -> Rows])', Remembers(old, d), Evolves(d)
    PROVE  Remembers(old, d)'
  <1>1. /\ old.rev \in Nat /\ delivery[d].rev \in Nat /\ delivery'[d].rev \in Nat
        /\ old.count \in Int /\ delivery[d].count \in Int /\ delivery'[d].count \in Int
    BY StoreAssumption DEF Rows
  <1>2. /\ delivery[d].state \notin Unstarted /\ old.count <= delivery[d].count
        /\ old.rev <= delivery[d].rev
        /\ old.rev = delivery[d].rev => Core(old) = Core(delivery[d])
    BY Zenon DEF Remembers
  <1>3. /\ delivery'[d].state \notin Unstarted /\ delivery[d].count <= delivery'[d].count
        /\ delivery[d].rev <= delivery'[d].rev
        /\ delivery'[d].rev = delivery[d].rev => Core(delivery'[d]) = Core(delivery[d])
    BY <1>2, Zenon DEF Evolves
  <1> QED  BY <1>1, <1>2, <1>3 DEF Remembers

(* So does a dependency that fits. *)
LEMMA FitsKept ==
    ASSUME NEW d \in Deliveries, NEW next, NEW dep, DependencyFits(d, next, dep),
           Evolves(Recovery(d))
    PROVE  DependencyFits(d, next, dep)'
  BY Zenon DEF DependencyFits, Evolves, Settles

(* And what a fence promises. *)
LEMMA FenceKept ==
    ASSUME NEW d \in Deliveries, NEW fence \in Fences, TypeInv, TypeInv', FenceSound(d, fence),
           GateEvolves(d[2]), ChannelKept
    PROVE  FenceSound(d, fence)'
  <1>1. /\ d[2] \in Recipients /\ fence.version \in Nat
        /\ gate[d[2]].version \in Nat /\ gate'[d[2]].version \in Nat
    BY PairRows, Zenon DEF TypeInv, Fences
  <1>2. fence.version <= gate'[d[2]].version
    BY <1>1 DEF FenceSound, GateEvolves
  <1>3. fence.version = gate'[d[2]].version => gate'[d[2]].member /\ gate'[d[2]].preference
    BY <1>1 DEF FenceSound, GateEvolves
  <1>4. Channel' = "telegram" => (d[1] = "recovery" <=> fence.resolved)
    BY Zenon DEF FenceSound, ChannelKept
  <1> QED  BY <1>2, <1>3, <1>4, ZenonT(30) DEF FenceSound

LEMMA WorkerFramed ==
    ASSUME TypeInv, TypeInv', StoreKept, NEW w \in Workers, WorkerSound(w),
           worker'[w] = worker[w]
    PROVE  WorkerSound(w)'
  <1> SUFFICES ASSUME worker[w].pc # "idle"  PROVE WorkerSound(w)'
    BY Zenon DEF WorkerSound, PlaceSound
  <1>1. /\ worker[w] \in WorkerStates
        /\ worker[w].d \in Deliveries /\ worker[w].record \in Rows
    BY WorkerFields, Zenon DEF TypeInv
  <1>2. Remembers(worker[w].record, worker[w].d)'
    <2>1. Remembers(worker[w].record, worker[w].d) /\ Evolves(worker[w].d)
      BY <1>1, Zenon DEF WorkerSound, PlaceSound, StoreKept
    <2>2. delivery \in [Deliveries -> Rows] /\ (delivery \in [Deliveries -> Rows])'
      BY Zenon DEF TypeInv
    <2>3. \A old \in Rows, d \in Deliveries :
            Remembers(old, d) /\ Evolves(d) => Remembers(old, d)'
      BY <2>2, RemembersKept, Zenon
    <2> QED  BY <1>1, <2>1, <2>3, Zenon DEF Remembers
  <1>3. worker[w].pc = "fenced" => FenceSound(worker[w].d, worker[w].fence)'
    <2> HAVE worker[w].pc = "fenced"
    <2>1. worker[w].fence \in Fences
      BY <1>1, WorkerFields, ZenonT(30)
    <2>2. FenceSound(worker[w].d, worker[w].fence) /\ GateEvolves(worker[w].d[2]) /\ ChannelKept
      BY <1>1, PairRows, Zenon DEF WorkerSound, PlaceSound, StoreKept
    <2>3. \A d \in Deliveries, fence \in Fences :
            FenceSound(d, fence) /\ GateEvolves(d[2]) /\ ChannelKept => FenceSound(d, fence)'
      BY FenceKept, Zenon
    <2> QED  BY <1>1, <2>1, <2>2, <2>3, ZenonT(30) DEF FenceSound
  <1>4. worker[w].pc = "commit" =>
          DependencyFits(worker[w].d, worker[w].completion.next, worker[w].dep)'
    <2> HAVE worker[w].pc = "commit"
    <2>1. /\ DependencyFits(worker[w].d, worker[w].completion.next, worker[w].dep)
          /\ Evolves(Recovery(worker[w].d))
      BY <1>1, PairRows, Zenon DEF WorkerSound, PlaceSound, StoreKept
    <2>2. \A d \in Deliveries : \A next, dep :
            DependencyFits(d, next, dep) /\ Evolves(Recovery(d)) => DependencyFits(d, next, dep)'
      BY FitsKept, Zenon
    <2> QED  BY <1>1, <2>1, <2>2 DEF DependencyFits, Settles
  <1> QED  BY <1>2, <1>3, <1>4, ZenonT(30) DEF WorkerSound, PlaceSound, Remembers, FenceSound, DependencyFits, Settles

LEMMA FeedbackFramed ==
    ASSUME TypeInv, TypeInv', StoreKept, NEW c \in Consumers, FeedbackSound(c),
           feedback'[c] = feedback[c]
    PROVE  FeedbackSound(c)'
  <1> SUFFICES ASSUME feedback[c].pc # "idle"  PROVE FeedbackSound(c)'
    BY Zenon DEF FeedbackSound
  <1> DEFINE read == feedback[c]
             event == read.event
             next == NextState(read.row, event.n, event.semantic)
  <1>1. /\ event \in SesReports /\ read.row \in Rows /\ read.rank \in 0 .. 3
        /\ event.d \in Deliveries /\ event.n \in Calls
    BY DEF TypeInv, FeedbackStates, Resting, SesReports
  <1>2. Remembers(read.row, event.d)'
    <2>1. Remembers(read.row, event.d) /\ Evolves(event.d)
      BY <1>1, Zenon DEF FeedbackSound, StoreKept
    <2>2. delivery \in [Deliveries -> Rows] /\ (delivery \in [Deliveries -> Rows])'
      BY Zenon DEF TypeInv
    <2>3. \A old \in Rows, d \in Deliveries :
            Remembers(old, d) /\ Evolves(d) => Remembers(old, d)'
      BY <2>2, RemembersKept, Zenon
    <2> QED  BY <1>1, <2>1, <2>3, Zenon DEF Remembers
  <1>3. Channel' = "email" /\ Reconcilable(read.row.state)
    BY Zenon DEF FeedbackSound, StoreKept, ChannelKept
  <1>4. event.n <= delivery'[event.d].count
    <2>1. event.n <= delivery[event.d].count /\ Evolves(event.d)
      BY <1>1, Zenon DEF FeedbackSound, StoreKept
    <2>2. delivery[event.d].count \in Int /\ delivery'[event.d].count \in Int /\ event.n \in Int
      <3>1. delivery[event.d] \in Rows /\ delivery'[event.d] \in Rows
        BY <1>1, Zenon DEF TypeInv
      <3>2. \A row \in Rows : row.count \in Int
        BY StoreAssumption, SMTT(30) DEF Rows
      <3>3. event.n \in Int
        BY <1>1, StoreAssumption, SMTT(30) DEF Calls
      <3> QED  BY <3>1, <3>2, <3>3, Zenon
    <2>3. delivery[event.d].count <= delivery'[event.d].count
      BY <2>1, Zenon DEF Evolves
    <2> HIDE DEF event, read
    <2> QED  BY <2>1, <2>2, <2>3
  <1>5. read.rank <= suppression'[event.d[2]]
    <2>1. event.d[2] \in Recipients
      BY <1>1, PairRows, Zenon
    <2>2. read.rank <= suppression[event.d[2]] /\ Channel = "email"
      BY Zenon DEF FeedbackSound
    <2>3. suppression[event.d[2]] <= suppression'[event.d[2]]
      BY <2>1, <2>2, Zenon DEF StoreKept, SuppressionKept
    <2>4. suppression[event.d[2]] \in Int /\ suppression'[event.d[2]] \in Int /\ read.rank \in Int
      BY <1>1, <2>1, SMTT(30) DEF TypeInv
    <2> QED  BY <2>2, <2>3, <2>4
  <1>6. ~Unsettled(read.row.state) => read.dep.op = "none"
    BY Zenon DEF FeedbackSound
  <1>7. OwnsAggregate(read.row, event.n, event.semantic) /\ Unsettled(read.row.state) =>
          DependencyFits(event.d, next, read.dep)'
    <2> HAVE OwnsAggregate(read.row, event.n, event.semantic) /\ Unsettled(read.row.state)
    <2>1. DependencyFits(event.d, next, read.dep) /\ Evolves(Recovery(event.d))
      BY <1>1, PairRows, ZenonT(30) DEF FeedbackSound, StoreKept
    <2>2. \A d \in Deliveries : \A to, dep :
            DependencyFits(d, to, dep) /\ Evolves(Recovery(d)) => DependencyFits(d, to, dep)'
      BY FitsKept, Zenon
    <2> QED  BY <1>1, <2>1, <2>2, Zenon DEF DependencyFits, Settles
  <1> QED  BY <1>2, <1>3, <1>4, <1>5, <1>6, <1>7, ZenonT(30)
           DEF FeedbackSound, Remembers, DependencyFits, Settles

(* What a relay worker carries in each place. *)
LEMMA RelayFields ==
    ASSUME NEW x \in RelayStates
    PROVE  /\ x.pc \in {"idle", "claimed", "retry", "planned", "publish", "published"}
           /\ x.pc \in {"claimed", "retry", "planned"} =>
                x.item \in Kinds \X {0} /\ x.item[1] \in Kinds /\ x.work \in Outboxes
           /\ x.pc = "planned" => x.rows \in PageRows /\ x.seen \in PageRows
           /\ x.pc \in {"publish", "published"} => x.item \in Deliveries /\ x.work \in Rows
  <1>1. CASE x = Idle
    BY <1>1, Zenon DEF Idle
  <1>2. CASE x \in [pc : {"claimed", "retry"}, item : Kinds \X {0}, work : Outboxes]
    BY <1>2, Zenon
  <1>3. CASE x \in [pc : {"planned"}, item : Kinds \X {0}, work : Outboxes, rows : PageRows,
                    seen : PageRows]
    BY <1>3, Zenon
  <1>4. CASE x \in [pc : {"publish", "published"}, item : Deliveries, work : Rows]
    BY <1>4, Zenon
  <1> QED  BY <1>1, <1>2, <1>3, <1>4, ZenonT(30) DEF RelayStates

(* The rows of a page are those of recipients. *)
LEMMA PageTypes ==
    ASSUME NEW f \in PageRows
    PROVE  DOMAIN f \subseteq Recipients /\ \A r \in DOMAIN f : f[r] \in Rows
  BY Zenon DEF PageRows

LEMMA RelayFramed ==
    ASSUME TypeInv, TypeInv', StoreKept, NEW p \in Relays, RelaySound(p),
           relay'[p] = relay[p]
    PROVE  RelaySound(p)'
  <1>1. relay[p] \in RelayStates
    BY Zenon DEF TypeInv
  <1>2. ASSUME relay[p].pc = "planned", NEW r \in DOMAIN relay[p].rows
        PROVE  IF relay'[p].item[1] = "opening"
               THEN relay'[p].rows[r] \in {NoRow, Row("pending"), Row("cancelled")}
               ELSE PlannedRecovery(p, r)'
    <2>1. r \in Recipients
      BY <1>1, <1>2, RelayFields, PageTypes, ZenonT(30)
    <2>2. Evolves(Opening(r)) /\ Channel' = Channel
      BY <2>1, PairRows, Zenon DEF StoreKept, ChannelKept
    <2>3. relay[p].item[1] = "opening" =>
            relay[p].rows[r] \in {NoRow, Row("pending"), Row("cancelled")}
      BY <1>2, Zenon DEF RelaySound
    <2>4. ASSUME relay[p].item[1] # "opening"
          PROVE  PlannedRecovery(p, r)'
      <3>1. PlannedRecovery(p, r)
        BY <1>2, <2>4, ZenonT(30) DEF RelaySound
      <3>2. Opening(r)' = Opening(r)
        BY Zenon DEF Opening
      <3>3. \A x : Recoveries(x)' = Recoveries(x)
        BY <2>2, Zenon DEF Recoveries
      <3>4. delivery'[Opening(r)].state # "absent"
        BY <2>2, <3>1, ZenonT(30) DEF PlannedRecovery, Evolves
      <3>5. delivery[Opening(r)].state \in Failed => delivery'[Opening(r)].state \in Failed
        BY <2>2, Zenon DEF Evolves
      <3>6. r \in DOMAIN relay[p].seen =>
              relay[p].rows[r].state \in Recoveries(relay[p].seen[r].state)
        BY <3>1, Zenon DEF PlannedRecovery
      <3> QED  BY <2>2, <3>1, <3>2, <3>3, <3>4, <3>5, <3>6, Zenon DEF PlannedRecovery
    <2> QED  BY <2>3, <2>4, Zenon
  <1>3. ASSUME relay[p].pc \in {"publish", "published"}
        PROVE  /\ delivery'[relay[p].item].state \notin Unstarted
               /\ relay[p].pc = "published" /\ delivery'[relay[p].item].state = "pending" =>
                    relay[p].item \in queue'
    <2>1. relay[p].item \in Deliveries
      BY <1>1, <1>3, RelayFields, Zenon
    <2>2. Evolves(relay[p].item) /\ QueueKept
      BY <2>1, Zenon DEF StoreKept
    <2>3. delivery[relay[p].item].state \notin Unstarted
      BY <1>3, Zenon DEF RelaySound
    <2>4. relay[p].pc = "published" /\ delivery[relay[p].item].state = "pending" =>
            relay[p].item \in queue
      BY Zenon DEF RelaySound
    <2> QED  BY <2>2, <2>3, <2>4, ZenonT(30) DEF Evolves, QueueKept, TerminalStates
  <1> QED  BY <1>2, <1>3, Zenon DEF RelaySound

(* A step that keeps the store sound and leaves every process sound or      *)
(* where it was keeps the whole invariant.                                  *)
LEMMA InvKept ==
    ASSUME PipelineInv, TypeInv', StoreKept,
           \A w \in Workers : worker'[w] = worker[w] \/ WorkerSound(w)',
           \A c \in Consumers : feedback'[c] = feedback[c] \/ FeedbackSound(c)',
           \A p \in Relays : relay'[p] = relay[p] \/ RelaySound(p)',
           (deduped # {} => Channel = "email")', SuppressionRecorded'
    PROVE  PipelineInv'
  <1>1. \A w \in Workers : WorkerSound(w)'
    BY WorkerFramed, Zenon DEF PipelineInv
  <1>2. \A c \in Consumers : FeedbackSound(c)'
    BY FeedbackFramed, Zenon DEF PipelineInv
  <1>3. \A p \in Relays : RelaySound(p)'
    BY RelayFramed, Zenon DEF PipelineInv
  <1>4. (outbox["recovery"].channel = Channel)'
    BY Zenon DEF PipelineInv, StoreKept, ChannelKept
  <1>5. (\A d \in Deliveries : RowSound(d))' /\ (\A r \in Recipients : PairSound(r))'
    BY Zenon DEF StoreKept
  <1> QED  BY <1>1, <1>2, <1>3, <1>4, <1>5, Zenon DEF PipelineInv

(* The feedback on record is as it was: so are the suppressions it asked for. *)
LEMMA RecordedKept ==
    ASSUME TypeInv, TypeInv', SuppressionRecorded, deduped' = deduped,
           deduped # {} => Channel = "email", SuppressionKept, ChannelKept
    PROVE  SuppressionRecorded' /\ (deduped # {} => Channel = "email")'
  <1>1. (deduped # {} => Channel = "email")'
    BY Zenon DEF ChannelKept
  <1>2. ASSUME NEW key \in deduped
        PROVE  /\ key[3] = "hard_bounced" => suppression'[key[1][2]] >= 2
               /\ key[3] = "complained" => suppression'[key[1][2]] >= 3
    <2>1. key[1] \in Deliveries /\ key[1][2] \in Recipients
      BY PairRows, Zenon DEF TypeInv
    <2>2. suppression[key[1][2]] <= suppression'[key[1][2]]
      BY <2>1, Zenon DEF SuppressionKept
    <2>3. suppression[key[1][2]] \in Int /\ suppression'[key[1][2]] \in Int
      BY <2>1 DEF TypeInv
    <2> QED  BY <2>2, <2>3 DEF SuppressionRecorded
  <1> QED  BY <1>1, <1>2, Zenon DEF SuppressionRecorded
-----------------------------------------------------------------------------
(* The attempts of each delivery are those it counted, and the provider     *)
(* accepted no other.                                                       *)
AttemptsCounted ==
    \A d \in Deliveries :
      /\ Len(attempt'[d]) = delivery'[d].count
      /\ provider'[d].accepted \subseteq 1 .. delivery'[d].count

(* The parts of a step that leave the deliveries' rows alone. *)
RestKept ==
    /\ AttemptsCounted
    /\ \A r \in Recipients : GateEvolves(r)
    /\ QueueKept /\ SuppressionKept /\ ChannelKept

LEMMA RowStays ==
    ASSUME NEW d \in Deliveries, delivery \in [Deliveries -> Rows], RowSound(d),
           delivery'[d] = delivery[d], AttemptsCounted, QueueKept
    PROVE  Evolves(d) /\ RowSound(d)'
  <1>1. delivery[d].rev \in Nat /\ delivery[d].count \in Int
    BY StoreAssumption DEF Rows
  <1>2. Evolves(d)
    BY <1>1 DEF Evolves
  <1>3. NoRow' = NoRow
    BY Zenon DEF NoRow, Row, NoLease
  <1>4. delivery'[d].state \in Unfinished => d \in queue'
    BY Zenon DEF RowSound, QueueKept, Unfinished, TerminalStates
  <1>5. /\ Len(attempt'[d]) = delivery'[d].count
        /\ provider'[d].accepted \subseteq 1 .. delivery'[d].count
    BY Zenon DEF AttemptsCounted
  <1> QED  BY <1>2, <1>3, <1>4, <1>5, Zenon DEF RowSound

LEMMA PairStays ==
    ASSUME NEW r \in Recipients, PairSound(r),
           delivery'[Opening(r)].state = delivery[Opening(r)].state,
           delivery'[<<"recovery", r>>].state = delivery[<<"recovery", r>>].state
    PROVE  PairSound(r)'
  BY Zenon DEF PairSound, Opening, Unsettled

(* A step that writes no row. *)
LEMMA QuietStore ==
    ASSUME PipelineInv, delivery' = delivery, RestKept
    PROVE  StoreKept
  <1>1. \A d \in Deliveries : Evolves(d) /\ RowSound(d)'
    BY RowStays, Zenon DEF PipelineInv, TypeInv, RestKept
  <1>2. \A r \in Recipients : PairSound(r)'
    BY PairStays, Zenon DEF PipelineInv
  <1> QED  BY <1>1, <1>2, Zenon DEF StoreKept, RestKept

(* One row was written. *)
OnlyRow(d) ==
    /\ d \in Deliveries /\ delivery' \in [Deliveries -> Rows]
    /\ \A x \in Deliveries : x # d => delivery'[x] = delivery[x]

(* By a lease taken or run out. *)
LeaseMoves(d) ==
    OnlyRow(d) /\ delivery[d].state # "absent" /\ Core(delivery'[d]) = Core(delivery[d])

(* By the relay, or by a handler that claims a delivery, gives it up, or    *)
(* counts a call it is about to make.                                       *)
RowMoves(d) ==
    /\ OnlyRow(d)
    /\ delivery'[d].outcome = delivery[d].outcome
    /\ delivery'[d].rev = delivery[d].rev + 1
    /\ \/ /\ delivery'[d].count = delivery[d].count
          /\ \/ /\ delivery[d].state = "pending" /\ delivery'[d].state = "pending"
                /\ delivery'[d].indexed
             \/ /\ delivery[d].state = "pending" /\ delivery'[d].state = "queued"
                /\ d \in queue'
             \/ delivery[d].state \in Unfinished /\ delivery'[d].state = "processing"
             \/ /\ delivery[d].state = "processing"
                /\ delivery'[d].state \in {"unknown", "retryable_failed"}
       \/ /\ delivery[d].state = "processing" /\ delivery'[d].state = "processing"
          /\ delivery'[d].count = delivery[d].count + 1
          /\ delivery[d].outcome = "none" /\ Authorised(d)

LEMMA CoreFields ==
    ASSUME NEW a, NEW b, Core(a) = Core(b)
    PROVE  /\ a.state = b.state /\ a.rev = b.rev /\ a.count = b.count
           /\ a.possibly = b.possibly /\ a.exhausted = b.exhausted
           /\ a.outcome = b.outcome /\ a.owner = b.owner /\ a.accepted = b.accepted
           /\ a.indexed = b.indexed
  BY Zenon DEF Core

LEMMA LeaseStore ==
    ASSUME PipelineInv, NEW d, LeaseMoves(d), RestKept
    PROVE  StoreKept
  <1>1. d \in Deliveries /\ Core(delivery'[d]) = Core(delivery[d]) /\ delivery[d].state # "absent"
    BY Zenon DEF LeaseMoves, OnlyRow
  <1>2. delivery'[d].state = delivery[d].state /\ delivery'[d].outcome = delivery[d].outcome
        /\ delivery'[d].rev = delivery[d].rev /\ delivery'[d].count = delivery[d].count
        /\ delivery'[d].indexed = delivery[d].indexed
    BY <1>1, CoreFields, ZenonT(30)
  <1>3. Evolves(d) /\ RowSound(d)'
    <2>1. delivery[d].rev \in Nat /\ delivery[d].count \in Int
      BY <1>1, StoreAssumption DEF PipelineInv, TypeInv, Rows
    <2>2. Evolves(d)
      BY <1>1, <1>2, <2>1 DEF Evolves
    <2>3. RowSound(d) /\ AttemptsCounted /\ QueueKept
      BY <1>1, Zenon DEF PipelineInv, RestKept
    <2>4. delivery'[d].state \in Unfinished => d \in queue'
      BY <1>2, <2>3, Zenon DEF RowSound, QueueKept, Unfinished, TerminalStates
    <2> QED  BY <1>1, <1>2, <2>2, <2>3, <2>4, Zenon DEF RowSound, AttemptsCounted
  <1>4. \A x \in Deliveries : Evolves(x) /\ RowSound(x)'
    BY <1>3, RowStays, Zenon DEF PipelineInv, TypeInv, RestKept, LeaseMoves, OnlyRow
  <1>5. \A x \in Deliveries : delivery'[x].state = delivery[x].state
    BY <1>2, Zenon DEF LeaseMoves, OnlyRow
  <1>6. \A r \in Recipients : PairSound(r)'
    BY <1>5, PairRows, PairStays, Zenon DEF PipelineInv
  <1> QED  BY <1>4, <1>6, ZenonT(30) DEF StoreKept, RestKept

LEMMA RowStore ==
    ASSUME PipelineInv, NEW d, RowMoves(d), RestKept
    PROVE  StoreKept
  <1>1. d \in Deliveries /\ delivery[d] \in Rows /\ delivery'[d] \in Rows
    BY Zenon DEF RowMoves, OnlyRow, PipelineInv, TypeInv
  <1>2. /\ delivery[d].rev \in Nat /\ delivery[d].count \in Int
        /\ delivery'[d].rev = delivery[d].rev + 1
        /\ delivery'[d].count \in {delivery[d].count, delivery[d].count + 1}
    BY <1>1, StoreAssumption DEF Rows, RowMoves
  <1>3. /\ delivery[d].state \in NonterminalStates
        /\ delivery'[d].state \in NonterminalStates \cup {"unknown"}
        /\ delivery'[d].state = "pending" => delivery[d].state = "pending"
    BY Zenon DEF RowMoves, Unfinished, NonterminalStates
  <1>4. Evolves(d)
    BY <1>2, <1>3 DEF Evolves, Unstarted, TerminalStates, NonterminalStates, Failed
  <1>5. RowSound(d)'
    <2>1. RowSound(d) /\ AttemptsCounted /\ QueueKept
      BY <1>1, Zenon DEF PipelineInv, RestKept
    <2>2. delivery'[d].state # "absent"
      BY <1>3, Zenon DEF NonterminalStates
    <2>3. delivery'[d].outcome \in {"none", "delayed"}
      BY <1>3, <2>1, Zenon DEF RowSound, RowMoves, NonterminalStates, TerminalStates
    <2>4. delivery'[d].state = "pending" => delivery'[d].indexed
      BY <1>3, Zenon DEF RowMoves
    <2>5. delivery'[d].state \in Unfinished => d \in queue'
      BY <2>1, Zenon DEF RowSound, QueueKept, RowMoves, Unfinished, TerminalStates
    <2> QED  BY <1>1, <2>1, <2>2, <2>3, <2>4, <2>5, Zenon DEF RowSound, AttemptsCounted
  <1>6. \A x \in Deliveries : Evolves(x) /\ RowSound(x)'
    BY <1>4, <1>5, RowStays, Zenon DEF PipelineInv, TypeInv, RestKept, RowMoves, OnlyRow
  <1>7. ASSUME NEW r \in Recipients
        PROVE  PairSound(r)'
    <2>1. PairSound(r) /\ Opening(r) \in Deliveries /\ <<"recovery", r>> \in Deliveries
      BY PairRows, Zenon DEF PipelineInv
    <2>2. CASE d = Opening(r)
      <3>1. d # <<"recovery", r>>
        BY <2>2, Zenon DEF Opening
      <3>2. delivery'[<<"recovery", r>>] = delivery[<<"recovery", r>>]
        BY <2>1, <3>1, Zenon DEF RowMoves, OnlyRow
      <3> QED  BY <1>3, <2>1, <2>2, <3>2, ZenonT(30) DEF PairSound, Opening, Unsettled, NonterminalStates
    <2>3. CASE d = <<"recovery", r>>
      <3>1. d # Opening(r)
        BY <2>3, ZenonT(30) DEF Opening
      <3>2. delivery'[Opening(r)] = delivery[Opening(r)]
        BY <2>1, <3>1, Zenon DEF RowMoves, OnlyRow
      <3> QED  BY <1>3, <2>1, <2>3, <3>2, ZenonT(30) DEF PairSound, Opening, Unsettled, NonterminalStates
    <2>4. CASE d # Opening(r) /\ d # <<"recovery", r>>
      BY <2>1, <2>4, PairStays, Zenon DEF RowMoves, OnlyRow
    <2> QED  BY <2>2, <2>3, <2>4, Zenon
  <1> QED  BY <1>6, <1>7, Zenon DEF StoreKept, RestKept
-----------------------------------------------------------------------------
(* How a handler's completion or late feedback moves a delivery. *)
Ends(from, to) ==
    \/ from = to /\ Reconcilable(from)
    \/ from = "processing" /\ to \in EndStates
    \/ from \in {"retryable_failed", "unknown"} /\ to \in {"succeeded", "permanent_failed"}
    \/ from = "succeeded" /\ to = "permanent_failed"

SettledStates == {"succeeded", "permanent_failed", "cancelled"}

(* A delivery ended, and the recovery that waited for it with it. *)
SettleMoves(d) ==
    /\ d \in Deliveries /\ delivery' \in [Deliveries -> Rows]
    /\ \A x \in Deliveries : x # d /\ x # Recovery(d) => delivery'[x] = delivery[x]
    /\ delivery'[d].rev = delivery[d].rev + 1
    /\ delivery'[d].count = delivery[d].count
    /\ Ends(delivery[d].state, delivery'[d].state)
    /\ delivery'[d].state \notin TerminalStates => delivery'[d].outcome \in {"none", "delayed"}
    /\ d[1] = "opening" =>
         IF /\ delivery[Recovery(d)].state = "waiting_dependency"
            /\ delivery'[d].state # delivery[d].state /\ delivery'[d].state \in SettledStates
         THEN delivery'[Recovery(d)] = Promoted(delivery[Recovery(d)], delivery'[d].state)
         ELSE delivery'[Recovery(d)] = delivery[Recovery(d)]

LEMMA SettleStore ==
    ASSUME PipelineInv, NEW d, SettleMoves(d), RestKept
    PROVE  StoreKept
  <1>1. /\ d \in Deliveries /\ delivery[d] \in Rows /\ delivery'[d] \in Rows
        /\ Recovery(d) \in Deliveries /\ delivery[Recovery(d)] \in Rows
        /\ d[2] \in Recipients /\ d = <<d[1], d[2]>> /\ d[1] \in Kinds
        /\ Recovery(d) = <<"recovery", d[2]>>
    BY PairRows, Zenon DEF SettleMoves, PipelineInv, TypeInv, Recovery
  <1>2. /\ delivery[d].rev \in Nat /\ delivery[d].count \in Int
        /\ delivery'[d].rev = delivery[d].rev + 1 /\ delivery'[d].count = delivery[d].count
        /\ delivery[Recovery(d)].rev \in Nat /\ delivery[Recovery(d)].count \in Int
    BY <1>1, StoreAssumption DEF Rows, SettleMoves
  <1>3. Ends(delivery[d].state, delivery'[d].state)
    BY Zenon DEF SettleMoves
  <1>4. /\ Reconcilable(delivery[d].state) /\ Reconcilable(delivery'[d].state)
        /\ delivery[d].state \in TerminalStates => delivery'[d].state \in TerminalStates
        /\ delivery[d].state \in Failed => delivery'[d].state = delivery[d].state
    BY <1>3, Zenon DEF Ends, Reconcilable, TerminalStates, Failed, EndStates
  <1>5. RowSound(d) /\ RowSound(Recovery(d)) /\ AttemptsCounted /\ QueueKept
    BY <1>1, Zenon DEF PipelineInv, RestKept
  <1>6. Evolves(d)
    BY <1>2, <1>4 DEF Evolves, Unstarted, TerminalStates, Reconcilable
  <1>7. RowSound(d)'
    <2>1. delivery'[d].state \notin {"absent", "pending"}
      BY <1>4, Zenon DEF Reconcilable, TerminalStates
    <2>2. delivery'[d].state \in Unfinished => d \in queue'
      BY <1>4, <1>5, Zenon DEF RowSound, QueueKept, Reconcilable, Unfinished, TerminalStates
    <2>3. delivery'[d].state \notin TerminalStates => delivery'[d].outcome \in {"none", "delayed"}
      BY Zenon DEF SettleMoves
    <2> QED  BY <1>1, <1>5, <2>1, <2>2, <2>3, Zenon DEF RowSound, AttemptsCounted
  <1> DEFINE R == Recovery(d)
             releases == /\ d[1] = "opening" /\ delivery[R].state = "waiting_dependency"
                         /\ delivery'[d].state # delivery[d].state
                         /\ delivery'[d].state \in SettledStates
  <1>8. releases => /\ delivery'[R].rev = delivery[R].rev + 1
                    /\ delivery'[R].count = delivery[R].count
                    /\ delivery'[R].outcome = delivery[R].outcome
                    /\ delivery'[R].state \in {"pending", "cancelled"}
                    /\ delivery'[R].state = "pending" => delivery'[R].indexed
    <2> HAVE releases
    <2>1. delivery'[R] = Promoted(delivery[R], delivery'[d].state)
      BY Zenon DEF SettleMoves
    <2>2. delivery[R] \in Rows
      BY <1>1, Zenon
    <2> HIDE DEF R
    <2> QED  BY <2>1, <2>2, PromotedRow
  <1>9. ~releases /\ R # d => delivery'[R] = delivery[R]
    BY <1>1, Zenon DEF SettleMoves, Kinds
  <1>10. releases => R # d
    BY <1>1
  <1>11. Evolves(R) /\ RowSound(R)'
    <2>1. CASE R = d
      BY <1>6, <1>7, <2>1, ZenonT(30)
    <2>2. CASE R # d /\ ~releases
      <3>1. delivery'[R] = delivery[R]
        BY <1>9, <2>2, Zenon
      <3>2. delivery \in [Deliveries -> Rows]
        BY Zenon DEF PipelineInv, TypeInv
      <3> HIDE DEF R, releases
      <3> QED  BY <1>1, <1>5, <3>1, <3>2, RowStays, Zenon DEF R
    <2>3. CASE releases
      <3>1. Evolves(R)
        <4>1. delivery[R].state = "waiting_dependency"
          BY <2>3, Zenon
        <4> HIDE DEF R, releases
        <4> QED  BY <1>2, <1>8, <2>3, <4>1
              DEF Evolves, Unstarted, TerminalStates, Failed, R
      <3>2. delivery[R].outcome \in {"none", "delayed"}
        BY <1>5, <2>3, Zenon DEF RowSound, TerminalStates
      <3> HIDE DEF R, releases
      <3>3. delivery'[R].outcome \in {"none", "delayed"}
        BY <1>8, <2>3, <3>2, Zenon
      <3>4. /\ Len(attempt'[R]) = delivery'[R].count
            /\ provider'[R].accepted \subseteq 1 .. delivery'[R].count
        BY <1>1, <1>5, Zenon DEF AttemptsCounted, R
      <3> QED  BY <1>8, <2>3, <3>1, <3>3, <3>4, Zenon DEF RowSound, Unfinished
    <2> QED  BY <2>1, <2>2, <2>3, Zenon
  <1>12. ASSUME NEW x \in Deliveries
         PROVE  Evolves(x) /\ RowSound(x)'
    <2>1. CASE x = d \/ x = R
      BY <1>6, <1>7, <1>11, <2>1, ZenonT(30)
    <2>2. CASE x # d /\ x # R
      <3>1. delivery'[x] = delivery[x] /\ RowSound(x) /\ delivery \in [Deliveries -> Rows]
        BY <2>2, Zenon DEF SettleMoves, PipelineInv, TypeInv
      <3> QED  BY <1>5, <3>1, RowStays, Zenon
    <2> QED  BY <2>1, <2>2, Zenon
  <1>13. ASSUME NEW r \in Recipients
         PROVE  PairSound(r)'
    <2>1. /\ PairSound(r) /\ Opening(r) \in Deliveries /\ <<"recovery", r>> \in Deliveries
          /\ Opening(r) = <<"opening", r>>
      BY PairRows, Zenon DEF PipelineInv, Opening
    <2>2. CASE r # d[2]
      <3>1. Opening(r) # d /\ Opening(r) # R /\ <<"recovery", r>> # d /\ <<"recovery", r>> # R
        BY <1>1, <2>1, <2>2, SMTT(30)
      <3>2. /\ delivery'[Opening(r)] = delivery[Opening(r)]
            /\ delivery'[<<"recovery", r>>] = delivery[<<"recovery", r>>]
        BY <2>1, <3>1, Zenon DEF SettleMoves
      <3> QED  BY <2>1, <3>2, PairStays, ZenonT(30)
    <2>3. CASE r = d[2] /\ d[1] = "recovery"
      <3>1. d = <<"recovery", r>> /\ R = d /\ Opening(r) # d
        BY <1>1, <2>1, <2>3
      <3>2. delivery'[Opening(r)] = delivery[Opening(r)]
        BY <2>1, <3>1, Zenon DEF SettleMoves
      <3>3. /\ delivery[<<"recovery", r>>].state # "absent"
            /\ delivery'[<<"recovery", r>>].state # "waiting_dependency"
        BY <1>4, <3>1, Zenon DEF Reconcilable, TerminalStates
      <3> QED  BY <2>1, <3>2, <3>3, Zenon DEF PairSound, Opening
    <2>4. CASE r = d[2] /\ d[1] = "opening"
      <3>1. d = Opening(r) /\ R = <<"recovery", r>> /\ R # d
        BY <1>1, <2>1, <2>4
      <3>2. delivery'[d].state \notin {"absent", "waiting_dependency"}
        BY <1>4, Zenon DEF Reconcilable, TerminalStates
      <3>3. delivery'[R].state = "waiting_dependency" => Unsettled(delivery'[d].state)
        <4> HAVE delivery'[R].state = "waiting_dependency"
        <4>1. ~releases
          BY <1>8, Zenon
        <4>2. delivery'[R] = delivery[R]
          BY <1>9, <3>1, <4>1, Zenon
        <4>3. Unsettled(delivery[d].state)
          BY <2>1, <3>1, <4>2, Zenon DEF PairSound
        <4>4. delivery'[d].state = delivery[d].state \/ delivery'[d].state \notin SettledStates
          BY <2>4, <4>1, <4>2, ZenonT(30)
        <4> QED  BY <1>4, <4>3, <4>4, ZenonT(30)
              DEF Reconcilable, TerminalStates, SettledStates, Unsettled, NonterminalStates
      <3> QED  BY <3>1, <3>2, <3>3, Zenon DEF PairSound, Opening
    <2> QED  BY <1>1, <2>2, <2>3, <2>4, ZenonT(30) DEF Kinds
  <1> QED  BY <1>12, <1>13, Zenon DEF StoreKept, RestKept
-----------------------------------------------------------------------------
(* A page of a fan-out created a delivery: an opening, or the recovery that *)
(* follows an opening as it is.                                             *)
Created(d) ==
    /\ delivery[d] = NoRow
    /\ \/ d[1] = "opening" /\ delivery'[d] \in {Row("pending"), Row("cancelled")}
       \/ /\ d[1] = "recovery"
          /\ delivery[Opening(d[2])].state # "absent"
          /\ delivery'[Opening(d[2])] = delivery[Opening(d[2])]
          /\ delivery'[d] \in {Row(in) : in \in {"pending", "cancelled", "waiting_dependency"}}
          /\ delivery'[d].state \in Recoveries(delivery[Opening(d[2])].state)

PageMoves ==
    /\ delivery' \in [Deliveries -> Rows]
    /\ \A d \in Deliveries : delivery'[d] = delivery[d] \/ Created(d)

(* The state, revision, calls and outcome of a row just created. *)
LEMMA CreatedFields ==
    ASSUME NEW d \in Deliveries, Created(d)
    PROVE  /\ delivery[d].state = "absent" /\ delivery[d].rev = 1 /\ delivery[d].count = 0
           /\ delivery'[d].rev = 1 /\ delivery'[d].count = 0 /\ delivery'[d].outcome = "none"
           /\ delivery'[d].state \in {"pending", "cancelled", "waiting_dependency"}
           /\ delivery'[d].state = "pending" => delivery'[d].indexed
           /\ d[1] = "opening" => delivery'[d].state # "waiting_dependency"
  <1>1. {"absent", "pending", "cancelled", "waiting_dependency"}
          \subseteq DeliveryStates \cup {"absent"}
    BY Zenon DEF DeliveryStates, TerminalStates, NonterminalStates
  <1>2. \A in \in {"absent", "pending", "cancelled", "waiting_dependency"} :
          /\ Row(in).state = in /\ Row(in).rev = 1 /\ Row(in).count = 0
          /\ Row(in).outcome = "none" /\ Row(in).indexed = (in = "pending")
    BY <1>1, NewRow, Zenon
  <1>3. PICK in \in {"pending", "cancelled", "waiting_dependency"} :
          delivery'[d] = Row(in) /\ (d[1] = "opening" => in # "waiting_dependency")
    BY Zenon DEF Created
  <1>4. delivery[d] = Row("absent")
    BY Zenon DEF Created, NoRow
  <1> QED  BY <1>2, <1>3, <1>4, ZenonT(30)

LEMMA PageStore ==
    ASSUME PipelineInv, PageMoves, RestKept
    PROVE  StoreKept
  <1>1. delivery \in [Deliveries -> Rows] /\ AttemptsCounted /\ QueueKept
    BY Zenon DEF PipelineInv, TypeInv, RestKept
  <1>2. ASSUME NEW d \in Deliveries, Created(d)
        PROVE  Evolves(d) /\ RowSound(d)'
    <2>1. Evolves(d)
      BY <1>2, CreatedFields DEF Evolves, Unstarted, TerminalStates, Failed
    <2>2. /\ Len(attempt'[d]) = delivery'[d].count
          /\ provider'[d].accepted \subseteq 1 .. delivery'[d].count
      BY <1>1, Zenon DEF AttemptsCounted
    <2> QED  BY <1>2, <2>1, <2>2, CreatedFields, Zenon DEF RowSound, Unfinished
  <1>3. ASSUME NEW d \in Deliveries
        PROVE  Evolves(d) /\ RowSound(d)'
    <2>1. RowSound(d)
      BY Zenon DEF PipelineInv
    <2>2. delivery'[d] = delivery[d] \/ Created(d)
      BY Zenon DEF PageMoves
    <2> QED  BY <1>1, <1>2, <2>1, <2>2, RowStays, Zenon
  <1>4. ASSUME NEW r \in Recipients
        PROVE  PairSound(r)'
    <2> DEFINE O == Opening(r)
               R == <<"recovery", r>>
    <2>1. /\ O \in Deliveries /\ R \in Deliveries /\ O[1] = "opening" /\ R[1] = "recovery"
          /\ Opening(R[2]) = O
      BY PairRows, Zenon DEF Opening
    <2>2. PairSound(r)
      BY Zenon DEF PipelineInv
    <2>3. delivery'[O].state # "waiting_dependency"
      <3>1. delivery[O].state # "waiting_dependency"
        BY <2>2, Zenon DEF PairSound
      <3> QED  BY <2>1, <3>1, CreatedFields, Zenon DEF PageMoves
    <2>4. CASE Created(R)
      <3>1. /\ delivery[O].state # "absent" /\ delivery'[O] = delivery[O]
            /\ delivery'[R].state \in Recoveries(delivery[O].state)
        BY <2>1, <2>4, Zenon DEF Created
      <3>2. delivery'[R].state = "waiting_dependency" =>
              delivery[O].state \notin {"succeeded"} \cup Failed
        BY <3>1, Zenon DEF Recoveries, Failed
      <3>3. delivery[O].state \in DeliveryStates
        BY <1>1, <2>1, <3>1, Zenon DEF Rows
      <3>4. delivery'[R].state = "waiting_dependency" => Unsettled(delivery'[O].state)
        BY <2>3, <3>1, <3>2, <3>3, Zenon
           DEF Unsettled, DeliveryStates, TerminalStates, NonterminalStates, Failed
      <3> QED  BY <2>3, <3>1, <3>4, Zenon DEF PairSound, Opening
    <2>5. CASE ~Created(R)
      <3>1. delivery'[R] = delivery[R]
        BY <2>1, <2>5, Zenon DEF PageMoves
      <3>2. CASE delivery'[O] = delivery[O]
        BY <2>2, <3>1, <3>2, PairStays, Zenon
      <3>3. CASE Created(O)
        <4>1. delivery[O].state = "absent" /\ delivery'[O].state # "absent"
          BY <2>1, <3>3, CreatedFields, Zenon
        <4>2. delivery[R].state = "absent"
          BY <2>2, <4>1, Zenon DEF PairSound
        <4> QED  BY <2>3, <3>1, <4>1, <4>2, Zenon DEF PairSound, Opening
      <3> QED  BY <2>1, <3>2, <3>3, Zenon DEF PageMoves
    <2> QED  BY <2>4, <2>5, Zenon
  <1> QED  BY <1>3, <1>4, Zenon DEF StoreKept, RestKept
-----------------------------------------------------------------------------
(* All that a step does to the deliveries. *)
StoreMoves ==
    /\ ChannelKept
    /\ \/ delivery' = delivery
       \/ \E d \in Deliveries : LeaseMoves(d) \/ RowMoves(d) \/ SettleMoves(d)
       \/ PageMoves

LEMMA MovesStore ==
    ASSUME PipelineInv, StoreMoves, RestKept
    PROVE  StoreKept
  BY QuietStore, LeaseStore, RowStore, SettleStore, PageStore, Zenon DEF StoreMoves
-----------------------------------------------------------------------------
LEMMA AttemptsSame ==
    ASSUME PipelineInv, UNCHANGED <<attempt, provider>>,
           \A d \in Deliveries : delivery'[d].count = delivery[d].count
    PROVE  AttemptsCounted
  BY Zenon DEF PipelineInv, RowSound, AttemptsCounted

LEMMA GatesSame ==
    ASSUME PipelineInv, UNCHANGED gate
    PROVE  \A r \in Recipients : GateEvolves(r)
  BY DEF PipelineInv, TypeInv, GateEvolves

LEMMA SuppressionsSame ==
    ASSUME PipelineInv, UNCHANGED suppression
    PROVE  SuppressionKept
  <1>1. suppression \in [Recipients -> 0 .. 3]
    BY Zenon DEF PipelineInv, TypeInv
  <1>2. \A r \in Recipients : suppression[r] \in Int
    BY <1>1
  <1> QED  BY <1>2 DEF SuppressionKept

(* A step that counts no attempt, deletes no job, and changes no gate, no   *)
(* suppression and no channel.                                              *)
LEMMA RestSame ==
    ASSUME PipelineInv, UNCHANGED <<attempt, gate, suppression, provider>>,
           queue \subseteq queue', ChannelKept,
           \A d \in Deliveries : delivery'[d].count = delivery[d].count
    PROVE  RestKept
  <1>1. QueueKept
    BY Zenon DEF QueueKept
  <1> QED  BY <1>1, AttemptsSame, GatesSame, SuppressionsSame, Zenon DEF RestKept

LEMMA OutboxesSame ==
    ASSUME PipelineInv, outbox' = outbox
    PROVE  ChannelKept /\ outbox' \in [Kinds -> Outboxes]
  BY Zenon DEF PipelineInv, TypeInv, ChannelKept, Channel

LEMMA DeliveriesSame ==
    ASSUME PipelineInv, delivery' = delivery
    PROVE  /\ delivery' \in [Deliveries -> Rows]
           /\ \A d \in Deliveries : delivery'[d].count = delivery[d].count
  BY Zenon DEF PipelineInv, TypeInv

LEMMA QueueSame ==
    ASSUME PipelineInv, queue' = queue
    PROVE  QueueKept /\ queue' \subseteq Deliveries
  BY Zenon DEF PipelineInv, TypeInv, QueueKept

(* The Boolean fields and the call count of a row. *)
LEMMA RowFlags ==
    ASSUME NEW row \in Rows
    PROVE  /\ row.possibly \in BOOLEAN /\ row.exhausted \in BOOLEAN
           /\ LastCall(row) \in BOOLEAN /\ row.count \in 0 .. MaxProviderCalls
           /\ row.count \in Int /\ row.rev \in Nat
  BY StoreAssumption DEF Rows, LastCall

(* A row rewritten in place. *)
LEMMA RowWritten ==
    ASSUME TypeInv, NEW d \in Deliveries, NEW new \in Rows,
           delivery' = [delivery EXCEPT ![d] = new]
    PROVE  OnlyRow(d) /\ delivery'[d] = new
  BY Zenon DEF TypeInv, OnlyRow

(* The dependency a read of the recovery asks for fits what was read. *)
LEMMA DependencyRead ==
    ASSUME TypeInv, NEW d \in Deliveries, NEW next
    PROVE  /\ Dependency(d, next) \in Dependencies
           /\ DependencyFits(d, next, Dependency(d, next))
  <1> DEFINE recovery == delivery[Recovery(d)]
  <1>1. recovery.rev \in Nat
    BY PairRows, Zenon DEF TypeInv, Rows
  <1>2. CASE ~Settles(d, next)
    <2>1. Dependency(d, next) = [op |-> "none", rev |-> 0]
      BY <1>2, Zenon DEF Dependency
    <2> QED  BY <1>2, <2>1 DEF Dependencies, DependencyFits
  <1>3. CASE Settles(d, next) /\ recovery.state = "absent"
    <2>1. Dependency(d, next) = [op |-> "absent", rev |-> 0]
      BY <1>3, Zenon DEF Dependency
    <2> QED  BY <1>3, <2>1 DEF Dependencies, DependencyFits
  <1>4. CASE Settles(d, next) /\ recovery.state = "waiting_dependency"
    <2>1. Dependency(d, next) = [op |-> "release", rev |-> recovery.rev]
      BY <1>4, Zenon DEF Dependency
    <2> QED  BY <1>1, <1>4, <2>1 DEF Dependencies, DependencyFits
  <1>5. CASE Settles(d, next) /\ recovery.state \notin {"absent", "waiting_dependency"}
    <2>1. Dependency(d, next) = [op |-> "none", rev |-> 0]
      BY <1>5, Zenon DEF Dependency
    <2> QED  BY <1>5, <2>1 DEF Dependencies, DependencyFits, Unstarted
  <1> QED  BY <1>2, <1>3, <1>4, <1>5, Zenon

(* A transaction that ends a delivery does with its recovery what it must. *)
LEMMA SettledMoves ==
    ASSUME PipelineInv, NEW d \in Deliveries, NEW row \in Rows, NEW dep \in Dependencies,
           DependencyHolds(d, dep), delivery' = Settled(d, row, dep),
           row.rev = delivery[d].rev + 1, row.count = delivery[d].count,
           Ends(delivery[d].state, row.state),
           row.state \notin TerminalStates => row.outcome \in {"none", "delayed"},
           IF Unsettled(delivery[d].state) THEN DependencyFits(d, row.state, dep)
           ELSE dep.op = "none"
    PROVE  SettleMoves(d) /\ \A x \in Deliveries : delivery'[x].count = delivery[x].count
  <1> DEFINE R == Recovery(d)
             promoted == Promoted(delivery[R], row.state)
  <1>1. /\ delivery \in [Deliveries -> Rows] /\ R \in Deliveries /\ delivery[R] \in Rows
        /\ d[2] \in Recipients /\ d = <<d[1], d[2]>> /\ d[1] \in Kinds
        /\ R = <<"recovery", d[2]>>
    BY PairRows, Zenon DEF PipelineInv, TypeInv, Recovery
  <1>2. promoted \in Rows /\ promoted.count = delivery[R].count
    BY <1>1, PromotedRow, Zenon
  <1>3. /\ delivery'[d] = row
        /\ R # d => delivery'[R] = IF dep.op = "release" THEN promoted ELSE delivery[R]
        /\ \A x \in Deliveries : x # d /\ x # R => delivery'[x] = delivery[x]
    <2>1. \A x \in Deliveries :
            delivery'[x] = CASE x = d -> row
                             [] x = R /\ x # d /\ dep.op = "release" ->
                                  Promoted(delivery[x], row.state)
                             [] OTHER -> delivery[x]
      BY Zenon DEF Settled
    <2> HIDE DEF R
    <2>2. delivery'[d] = row
      BY <2>1, Zenon
    <2>3. R # d => delivery'[R] = IF dep.op = "release" THEN promoted ELSE delivery[R]
      BY <1>1, <2>1, Zenon
    <2>4. \A x \in Deliveries : x # d /\ x # R => delivery'[x] = delivery[x]
      BY <2>1, Zenon
    <2> QED  BY <2>2, <2>3, <2>4, Zenon
  <1>4. delivery' \in [Deliveries -> Rows]
    <2>1. delivery' = [x \in Deliveries |-> delivery'[x]]
      BY Zenon DEF Settled
    <2>2. \A x \in Deliveries : delivery'[x] \in Rows
      <3> HIDE DEF R, promoted
      <3> QED  BY <1>1, <1>2, <1>3, Zenon
    <2> QED  BY <2>1, <2>2, Zenon
  <1>5. \A x \in Deliveries : delivery'[x].count = delivery[x].count
    <2> HIDE DEF R, promoted
    <2> QED  BY <1>1, <1>2, <1>3, Zenon
  <1>6. ASSUME d[1] = "opening"
        PROVE  IF /\ delivery[R].state = "waiting_dependency"
                  /\ delivery'[d].state # delivery[d].state /\ delivery'[d].state \in SettledStates
               THEN delivery'[R] = Promoted(delivery[R], delivery'[d].state)
               ELSE delivery'[R] = delivery[R]
    <2>1. R # d /\ d = Opening(d[2])
      BY <1>1, <1>6 DEF Opening
    <2>2. delivery[R].state = "waiting_dependency" => Unsettled(delivery[d].state)
      BY <1>1, <2>1, Zenon DEF PipelineInv, PairSound
    <2>3. CASE dep.op = "release"
      <3>1. delivery[R].state = "waiting_dependency"
        BY <2>3, Zenon DEF DependencyHolds
      <3>2. Unsettled(delivery[d].state) /\ Settles(d, row.state)
        BY <2>3, Zenon DEF DependencyFits
      <3>3. row.state \in SettledStates /\ row.state # delivery[d].state
        BY <3>2, Zenon DEF Settles, SettledStates, Unsettled, NonterminalStates
      <3> HIDE DEF R
      <3> QED  BY <1>3, <2>1, <2>3, <3>1, <3>3, ZenonT(30)
    <2>4. CASE dep.op = "absent"
      <3>1. delivery[R].state = "absent"
        BY <2>4, Zenon DEF DependencyHolds
      <3> HIDE DEF R
      <3> QED  BY <1>3, <2>1, <2>4, <3>1, Zenon
    <2>5. CASE dep.op = "none"
      <3>1. delivery'[R] = delivery[R] /\ delivery'[d] = row
        BY <1>3, <2>1, <2>5, Zenon
      <3>2. ~(delivery[R].state = "waiting_dependency" /\ row.state \in SettledStates)
        BY <1>6, <2>2, <2>5, Zenon DEF DependencyFits, Settles, SettledStates, Unstarted
      <3> HIDE DEF R
      <3> QED  BY <3>1, <3>2, ZenonT(30)
    <2> QED  BY <2>3, <2>4, <2>5, Zenon DEF Dependencies
  <1>7. SettleMoves(d)
    BY <1>3, <1>4, <1>6, Zenon DEF SettleMoves
  <1> QED  BY <1>5, <1>7, Zenon

(* An attempt's row is rewritten in place. *)
LEMMA AttemptWritten ==
    ASSUME TypeInv, NEW d \in Deliveries, NEW n \in 1 .. Len(attempt[d]), NEW a \in AttemptRows,
           attempt' = [attempt EXCEPT ![d][n] = a]
    PROVE  /\ attempt' \in [Deliveries -> Seq(AttemptRows)]
           /\ \A x \in Deliveries : Len(attempt'[x]) = Len(attempt[x])
  <1> DEFINE new == [attempt[d] EXCEPT ![n] = a]
  <1>1. attempt \in [Deliveries -> Seq(AttemptRows)] /\ attempt[d] \in Seq(AttemptRows)
    BY Zenon DEF TypeInv
  <1>2. new \in Seq(AttemptRows) /\ Len(new) = Len(attempt[d])
    BY <1>1
  <1>3. attempt' = [attempt EXCEPT ![d] = new]
    BY <1>1, Zenon
  <1> HIDE DEF new
  <1> QED  BY <1>1, <1>2, <1>3, Zenon

(* Attempts rewritten in place are still those that were counted. *)
LEMMA AttemptsKept ==
    ASSUME PipelineInv, \A d \in Deliveries : Len(attempt'[d]) = Len(attempt[d]),
           \A d \in Deliveries : delivery'[d].count = delivery[d].count, provider' = provider
    PROVE  AttemptsCounted
  BY Zenon DEF PipelineInv, RowSound, AttemptsCounted

(* A destination's suppression level is rewritten. *)
LEMMA SuppressionWritten ==
    ASSUME TypeInv, NEW r, NEW n \in 0 .. 3
    PROVE  [suppression EXCEPT ![r] = n] \in [Recipients -> 0 .. 3]
  <1>1. suppression \in [Recipients -> 0 .. 3]
    BY Zenon DEF TypeInv
  <1> DEFINE new == [suppression EXCEPT ![r] = n]
  <1>2. new = [x \in Recipients |-> IF x = r THEN n ELSE suppression[x]]
    BY <1>1, Zenon
  <1>3. \A x \in Recipients : (IF x = r THEN n ELSE suppression[x]) \in 0 .. 3
    BY <1>1, Zenon
  <1> QED  BY <1>2, <1>3, Zenon
-----------------------------------------------------------------------------
(* A non-empty set of natural numbers has a least element, a bounded one a  *)
(* greatest.                                                                *)
LEMMA LeastNumber ==
    ASSUME NEW S \in SUBSET Nat, S # {}
    PROVE  \E x \in S : \A y \in S : x <= y
  <1> DEFINE R == OpToRel(<, Nat)
  <1>1. IsWellFoundedOn(R, Nat)
    BY NatLessThanWellFounded, Zenon
  <1>2. \A a, b \in Nat : a < b => <<a, b>> \in R
    BY Zenon DEF OpToRel
  <1> HIDE DEF R
  <1>3. PICK x \in S : \A y \in S : ~(<<y, x>> \in R)
    BY <1>1, WFMin, Zenon
  <1>4. \A y \in S : ~(y < x)
    BY <1>2, <1>3, Zenon
  <1>5. \A y \in S : x <= y
    BY <1>4
  <1> QED  BY <1>5, Zenon

LEMMA GreatestNumber ==
    ASSUME NEW n \in Nat, NEW S \in SUBSET (0 .. n), S # {}
    PROVE  Max(S) \in S /\ \A y \in S : y <= Max(S)
  <1> DEFINE T == {n - s : s \in S}
  <1>1. \A s \in S : n - s \in Nat
    OBVIOUS
  <1>2. T \in SUBSET Nat
    BY <1>1, Zenon
  <1>3. T # {}
    BY Zenon
  <1>4. PICK t \in T : \A u \in T : t <= u
    BY <1>2, <1>3, LeastNumber, Zenon
  <1>5. PICK x \in S : t = n - x
    BY <1>4, Zenon
  <1>6. \A y \in S : x >= y
    BY <1>4, <1>5
  <1>7. \E z \in S : \A y \in S : z >= y
    BY <1>6, Zenon
  <1>8. Max(S) \in S /\ \A y \in S : Max(S) >= y
    BY <1>7, Zenon DEF Max
  <1> QED  BY <1>8, Zenon

(* A page is a set of recipients, and a full one has a last. *)
LEMMA PageShape ==
    ASSUME TypeInv, NEW p \in Relays
    PROVE  Page(p) \subseteq Recipients
  BY Zenon DEF Page, Sources

LEMMA FullPage ==
    ASSUME NEW page \in SUBSET Recipients, ~(Cardinality(page) < PageSize)
    PROVE  Max(page) \in page /\ \A r \in page : r <= Max(page)
  <1>1. page # {}
    BY FS_EmptySet, RelayAssumption
  <1>2. page \in SUBSET (0 .. NumRecipients) /\ NumRecipients \in Nat
    BY StoreAssumption DEF Recipients
  <1> QED  BY <1>1, <1>2, GreatestNumber, Zenon

(* An outbox as it is claimed, put back, moved on or left to expire. *)
LEMMA OutboxTypes ==
    ASSUME NEW x \in Outboxes
    PROVE  /\ \A p \in Relays : [x EXCEPT !.lease = Claimed(@, p)] \in Outboxes
           /\ [x EXCEPT !.rev = @ + 1, !.lease = NoLease] \in Outboxes
           /\ [x EXCEPT !.lease.live = FALSE] \in Outboxes
           /\ \A page \in SUBSET Recipients :
                Advanced(x, page) \in Outboxes /\ Advanced(x, page).channel = x.channel
  <1>1. \A p \in Relays : Claimed(x.lease, p) \in Leases(Relays)
    BY LeaseTypes, Zenon DEF Outboxes
  <1>2. NoLease \in Leases(Relays) /\ x.rev + 1 \in Nat
    BY LeaseTypes DEF Outboxes
  <1>3. \A p \in Relays : [x EXCEPT !.lease = Claimed(@, p)] \in Outboxes
    BY <1>1, Zenon DEF Outboxes
  <1>4. [x EXCEPT !.rev = @ + 1, !.lease = NoLease] \in Outboxes
    BY <1>2, Zenon DEF Outboxes
  <1>5. [x EXCEPT !.lease.live = FALSE] \in Outboxes
    <2> DEFINE lease == [x.lease EXCEPT !.live = FALSE]
    <2>1. lease \in Leases(Relays)
      BY LeaseTypes, Zenon DEF Outboxes
    <2>2. [x EXCEPT !.lease.live = FALSE] = [x EXCEPT !.lease = lease]
      BY Zenon
    <2> HIDE DEF lease
    <2>3. [x EXCEPT !.lease = lease] \in Outboxes
      BY <2>1, Zenon DEF Outboxes
    <2> QED  BY <2>2, <2>3, Zenon
  <1>6. ASSUME NEW page \in SUBSET Recipients
        PROVE  Advanced(x, page) \in Outboxes /\ Advanced(x, page).channel = x.channel
    <2>1. CASE Cardinality(page) < PageSize
      <3>1. Advanced(x, page) = [x EXCEPT !.status = "expanded", !.rev = @ + 1,
                                          !.lease = NoLease]
        BY <2>1, Zenon DEF Advanced
      <3>2. Advanced(x, page) \in Outboxes
        BY <1>2, <3>1, Zenon DEF Outboxes
      <3>3. Advanced(x, page).channel = x.channel
        BY <3>1, ZenonT(30) DEF Outboxes
      <3> QED  BY <3>2, <3>3, Zenon
    <2>2. CASE ~(Cardinality(page) < PageSize)
      <3>1. Advanced(x, page) = [x EXCEPT !.cursor = Max(page), !.rev = @ + 1,
                                          !.lease = NoLease]
        BY <2>2, Zenon DEF Advanced
      <3>2. Max(page) \in Nat
        <4>1. Max(page) \in page
          BY <2>2, FullPage, Zenon
        <4>2. Recipients \subseteq Nat
          BY StoreAssumption DEF Recipients
        <4> QED  BY <4>1, <4>2, Zenon
      <3>3. Advanced(x, page) \in Outboxes
        BY <1>2, <3>1, <3>2, ZenonT(30) DEF Outboxes
      <3>4. Advanced(x, page).channel = x.channel
        BY <3>1, Zenon DEF Outboxes
      <3> QED  BY <3>3, <3>4, Zenon
    <2> QED  BY <2>1, <2>2, Zenon
  <1> QED  BY <1>3, <1>4, <1>5, <1>6, ZenonT(30)
-----------------------------------------------------------------------------
(* A relay worker's step keeps the invariant if it keeps the store sound    *)
(* and the worker goes on to a sound place.                                 *)
LEMMA RelayAct ==
    ASSUME PipelineInv, NEW p \in Relays, relay'[p] \in RelayStates,
           relay' = [relay EXCEPT ![p] = relay'[p]],
           UNCHANGED <<status, attempt, gate, suppression, worker, provider, feedback, deduped>>,
           queue' \subseteq Deliveries, outbox' \in [Kinds -> Outboxes],
           delivery' \in [Deliveries -> Rows], RestKept, StoreMoves, RelaySound(p)'
    PROVE  PipelineInv' /\ StoreMoves
  <1>0. StoreKept
    BY MovesStore, Zenon
  <1>1. TypeInv'
    <2>1. relay \in [Relays -> RelayStates]
      BY Zenon DEF PipelineInv, TypeInv
    <2>2. relay' \in [Relays -> RelayStates]
      BY <2>1, Zenon
    <2> QED  BY <2>2, Zenon DEF PipelineInv, TypeInv
  <1>2. \A q \in Relays : relay'[q] = relay[q] \/ RelaySound(q)'
    <2>1. relay \in [Relays -> RelayStates]
      BY Zenon DEF PipelineInv, TypeInv
    <2>2. \A q \in Relays : q # p => relay'[q] = relay[q]
      BY <2>1, Zenon
    <2> QED  BY <2>2, Zenon
  <1>3. SuppressionRecorded' /\ (deduped # {} => Channel = "email")'
    BY <1>0, <1>1, RecordedKept, ZenonT(30) DEF PipelineInv, StoreKept
  <1> QED  BY <1>0, <1>1, <1>2, <1>3, InvKept, Zenon

(* Setting a relay worker's state. *)
LEMMA RelaySet ==
    ASSUME TypeInv, NEW p \in Relays, NEW value, Set(p, value)
    PROVE  relay'[p] = value /\ relay' = [relay EXCEPT ![p] = relay'[p]]
  BY Zenon DEF TypeInv, Set

(* An idle worker, and one that has only claimed or gives up, is sound. *)
LEMMA RelayAtRest ==
    ASSUME NEW p \in Relays, relay'[p].pc \in {"idle", "claimed", "retry"}
    PROVE  RelaySound(p)'
  BY Zenon DEF RelaySound

(* An outbox that is rewritten keeps its channel. *)
LEMMA OutboxWritten ==
    ASSUME PipelineInv, NEW k \in Kinds, NEW new \in Outboxes, new.channel = outbox[k].channel,
           outbox' = [outbox EXCEPT ![k] = new]
    PROVE  ChannelKept /\ outbox' \in [Kinds -> Outboxes]
  BY Zenon DEF PipelineInv, TypeInv, ChannelKept, Channel, Kinds

LEMMA KeepsClaimOutbox ==
    ASSUME PipelineInv, NEW p \in Relays, NEW k \in Kinds, ClaimOutbox(p, k),
           UNCHANGED <<worker, provider, feedback, deduped>>
    PROVE  PipelineInv' /\ StoreMoves
  <1> DEFINE claimed == [outbox[k] EXCEPT !.lease = Claimed(@, p)]
             value == [pc |-> "claimed", item |-> <<k, 0>>, work |-> claimed]
  <1>1. /\ outbox' = [outbox EXCEPT ![k] = claimed] /\ Set(p, value)
        /\ UNCHANGED <<status, delivery, attempt, gate, suppression, queue, faults>>
    BY Zenon DEF ClaimOutbox
  <1>2. outbox[k] \in Outboxes /\ TypeInv
    BY Zenon DEF PipelineInv, TypeInv
  <1>3. claimed \in Outboxes /\ claimed.channel = outbox[k].channel
    BY <1>2, OutboxTypes, Zenon DEF Outboxes
  <1>4. value \in RelayStates
    BY <1>3, Zenon DEF RelayStates
  <1> HIDE DEF claimed
  <1>5. value.pc = "claimed"
    BY Zenon
  <1> HIDE DEF value
  <1>6. ChannelKept /\ outbox' \in [Kinds -> Outboxes]
    BY <1>1, <1>3, OutboxWritten, Zenon
  <1>7. relay'[p] = value /\ relay' = [relay EXCEPT ![p] = relay'[p]]
    BY <1>1, <1>2, RelaySet, Zenon
  <1>8. RelaySound(p)'
    BY <1>5, <1>7, RelayAtRest, Zenon
  <1>9. /\ delivery' \in [Deliveries -> Rows] /\ queue' \subseteq Deliveries
        /\ \A d \in Deliveries : delivery'[d].count = delivery[d].count
    BY <1>1, DeliveriesSame, Zenon DEF PipelineInv, TypeInv
  <1>10. RestKept
    BY <1>1, <1>6, <1>9, RestSame, Zenon
  <1>11. StoreMoves
    BY <1>1, <1>6, Zenon DEF StoreMoves
  <1> QED  BY <1>1, <1>4, <1>6, <1>7, <1>8, <1>9, <1>10, <1>11, RelayAct, ZenonT(30)

(* A relay worker that only reads. *)
LEMMA RelayThinks ==
    ASSUME PipelineInv, NEW p \in Relays, NEW value \in RelayStates, Set(p, value),
           UNCHANGED storeVars, UNCHANGED <<worker, provider, feedback, deduped>>,
           relay'[p] = value => RelaySound(p)'
    PROVE  PipelineInv' /\ StoreMoves
  <1>1. UNCHANGED <<status, outbox, delivery, attempt, gate, suppression, queue, faults>>
    BY Zenon DEF storeVars
  <1>2. relay'[p] = value /\ relay' = [relay EXCEPT ![p] = relay'[p]]
    BY RelaySet, Zenon DEF PipelineInv
  <1>3. ChannelKept /\ outbox' \in [Kinds -> Outboxes]
    BY <1>1, OutboxesSame, Zenon
  <1>4. /\ delivery' \in [Deliveries -> Rows] /\ queue' \subseteq Deliveries
        /\ \A d \in Deliveries : delivery'[d].count = delivery[d].count
    BY <1>1, DeliveriesSame, ZenonT(30) DEF PipelineInv, TypeInv
  <1>5. RestKept
    BY <1>1, <1>3, <1>4, RestSame, Zenon
  <1>6. StoreMoves
    BY <1>1, <1>3, Zenon DEF StoreMoves
  <1> QED  BY <1>1, <1>2, <1>3, <1>4, <1>5, <1>6, RelayAct, ZenonT(30)

LEMMA KeepsPlanOpening ==
    ASSUME PipelineInv, NEW p \in Relays, PlanOpening(p),
           UNCHANGED <<worker, provider, feedback, deduped>>
    PROVE  PipelineInv' /\ StoreMoves
  <1> DEFINE rows == [r \in Page(p) |-> OpeningRow(r)]
             seen == [r \in {} |-> NoRow]
             value == [pc |-> "planned", item |-> relay[p].item, work |-> relay[p].work,
                       rows |-> rows, seen |-> seen]
  <1>1. /\ relay[p].pc = "claimed" /\ relay[p].item[1] = "opening"
        /\ Set(p, value) /\ UNCHANGED storeVars
    BY Zenon DEF PlanOpening
  <1>2. TypeInv /\ relay[p] \in RelayStates
    BY Zenon DEF PipelineInv, TypeInv
  <1>3. relay[p].item \in Kinds \X {0} /\ relay[p].work \in Outboxes
    BY <1>1, <1>2, RelayFields, ZenonT(30)
  <1>4. \A r \in Recipients : OpeningRow(r) \in {NoRow, Row("pending"), Row("cancelled")}
    BY Zenon DEF OpeningRow
  <1>5. {NoRow, Row("pending"), Row("cancelled")} \subseteq Rows
    BY NewRow, ZenonT(30) DEF NoRow, DeliveryStates, TerminalStates, NonterminalStates
  <1>6. Page(p) \in SUBSET Recipients
    BY <1>2, PageShape, Zenon
  <1>7. rows \in PageRows /\ seen \in PageRows
    <2>1. rows \in [Page(p) -> Rows]
      BY <1>4, <1>5, <1>6, ZenonT(30)
    <2>2. seen \in [{} -> Rows]
      BY Zenon
    <2> QED  BY <1>6, <2>1, <2>2, Zenon DEF PageRows
  <1>8. \A r \in DOMAIN rows : rows[r] \in {NoRow, Row("pending"), Row("cancelled")}
    BY <1>4, <1>6, Zenon
  <1> HIDE DEF rows, seen
  <1>9. value \in RelayStates
    BY <1>3, <1>7, Zenon DEF RelayStates
  <1>10. value.pc = "planned" /\ value.item = relay[p].item /\ value.rows = rows
    BY Zenon
  <1> HIDE DEF value
  <1>11. relay'[p] = value => RelaySound(p)'
    <2> HAVE relay'[p] = value
    <2>1. /\ relay'[p].pc = "planned" /\ relay'[p].item[1] = "opening"
          /\ relay'[p].rows = rows
      BY <1>1, <1>10, Zenon
    <2>2. NoRow' = NoRow /\ Row("pending")' = Row("pending") /\ Row("cancelled")' = Row("cancelled")
      BY ZenonT(30) DEF NoRow, Row, NoLease
    <2> QED  BY <1>8, <2>1, <2>2, ZenonT(30) DEF RelaySound
  <1> QED  BY <1>1, <1>9, <1>11, RelayThinks, Zenon

(* Whether a row is missing is told by its state. *)
LEMMA MissingRow ==
    ASSUME PipelineInv, NEW d \in Deliveries
    PROVE  delivery[d].state = "absent" <=> delivery[d] = NoRow
  <1>1. NoRow.state = "absent"
    BY Zenon DEF NoRow, Row
  <1> QED  BY <1>1, Zenon DEF PipelineInv, RowSound

(* The recovery planned for an opening is one the opening allows. *)
LEMMA RecoveryPlanned ==
    ASSUME NEW r \in Recipients, NEW opening \in Rows,
           opening.state \notin {"absent", "waiting_dependency"},
           Channel \in {"email", "telegram"}
    PROVE  /\ RecoveryRow(r, opening) \in
                {Row(in) : in \in {"pending", "cancelled", "waiting_dependency"}}
           /\ RecoveryRow(r, opening).state \in Recoveries(opening.state)
           /\ ~Checked(opening) =>
                /\ RecoveryRow(r, opening).state = "cancelled"
                /\ Channel = "telegram" \/ opening.state \in Failed
  <1>1. \A in \in {"pending", "cancelled", "waiting_dependency"} : Row(in).state = in
    BY NewRow, Zenon DEF DeliveryStates, TerminalStates, NonterminalStates
  <1>2. opening.state \in TerminalStates \cup NonterminalStates
    BY Zenon DEF Rows, DeliveryStates
  <1>3. CASE Unsettled(opening.state)
    <2>1. RecoveryRow(r, opening) =
            Row(IF Channel = "telegram" THEN "cancelled" ELSE "waiting_dependency")
      BY <1>3, Zenon DEF RecoveryRow, Unsettled, NonterminalStates
    <2>2. opening.state \notin {"succeeded"} \cup Failed
      BY <1>3, Zenon DEF Unsettled, NonterminalStates, Failed
    <2>3. Recoveries(opening.state) =
            {IF Channel = "telegram" THEN "cancelled" ELSE "waiting_dependency"}
      BY <2>2, Zenon DEF Recoveries
    <2>4. ~Checked(opening) => Channel = "telegram"
      BY <1>3, Zenon DEF Checked, Unsettled
    <2>5. CASE Channel = "telegram"
      BY <1>1, <2>1, <2>3, <2>4, <2>5, ZenonT(30)
    <2>6. CASE Channel # "telegram"
      <3>1. RecoveryRow(r, opening) = Row("waiting_dependency")
        BY <2>1, <2>6, Zenon
      <3> QED  BY <1>1, <2>3, <2>4, <2>6, <3>1, ZenonT(30)
    <2> QED  BY <2>5, <2>6, Zenon
  <1>4. CASE opening.state \in Failed
    <2>1. RecoveryRow(r, opening) = Row("cancelled")
      BY <1>4, Zenon DEF RecoveryRow, Unsettled, NonterminalStates, Failed
    <2>2. Recoveries(opening.state) = {"cancelled"}
      BY <1>4, Zenon DEF Recoveries, Failed
    <2> QED  BY <1>1, <1>4, <2>1, <2>2, Zenon
  <1>5. CASE opening.state = "succeeded"
    <2>1. RecoveryRow(r, opening) \in {Row("pending"), Row("cancelled")}
      BY <1>5, Zenon DEF RecoveryRow, Unsettled, NonterminalStates
    <2>2. Recoveries(opening.state) = {"pending", "cancelled"}
      BY <1>5, Zenon DEF Recoveries, Failed
    <2>3. Checked(opening)
      BY <1>5, Zenon DEF Checked
    <2> QED  BY <1>1, <2>1, <2>2, <2>3, Zenon
  <1> QED  BY <1>2, <1>3, <1>4, <1>5, Zenon DEF Unsettled, TerminalStates, Failed

LEMMA ChannelType ==
    ASSUME TypeInv
    PROVE  Channel \in {"email", "telegram"} /\ Channel \in Channels
  BY StoreAssumption, ZenonT(30) DEF TypeInv, Channel, Outboxes, Kinds

LEMMA KeepsPlanRecovery ==
    ASSUME PipelineInv, NEW p \in Relays, PlanRecovery(p),
           UNCHANGED <<worker, provider, feedback, deduped>>
    PROVE  PipelineInv' /\ StoreMoves
  <1> DEFINE opening == [r \in Page(p) |-> delivery[Opening(r)]]
             checked == {r \in Page(p) : Checked(opening[r])}
             rows == [r \in Page(p) |-> RecoveryRow(r, opening[r])]
             seen == [r \in checked |-> opening[r]]
             value == [pc |-> "planned", item |-> relay[p].item, work |-> relay[p].work,
                       rows |-> rows, seen |-> seen]
  <1>1. /\ relay[p].pc = "claimed" /\ relay[p].item[1] = "recovery"
        /\ Set(p, value) /\ UNCHANGED storeVars
    BY Zenon DEF PlanRecovery
  <1>2. TypeInv /\ relay[p] \in RelayStates
    BY Zenon DEF PipelineInv, TypeInv
  <1>3. relay[p].item \in Kinds \X {0} /\ relay[p].work \in Outboxes
    BY <1>1, <1>2, RelayFields, Zenon
  <1>4. Page(p) \in SUBSET Recipients
    BY <1>2, PageShape, Zenon
  <1>5. \A r \in Page(p) : delivery[Opening(r)] # NoRow
    BY <1>1, Zenon DEF Page, Sources
  <1>6. ASSUME NEW r \in Page(p)
        PROVE  /\ opening[r] = delivery[Opening(r)] /\ opening[r] \in Rows
               /\ rows[r] = RecoveryRow(r, opening[r]) /\ r \in Recipients
               /\ opening[r].state \notin {"absent", "waiting_dependency"}
    <2>1. r \in Recipients /\ Opening(r) \in Deliveries
      BY <1>4, PairRows, Zenon
    <2>2. delivery[Opening(r)].state # "absent"
      BY <1>5, <2>1, MissingRow, Zenon
    <2>3. delivery[Opening(r)].state # "waiting_dependency"
      BY <2>1, ZenonT(30) DEF PipelineInv, PairSound
    <2> QED  BY <1>2, <2>1, <2>2, <2>3, Zenon DEF TypeInv
  <1>7. ASSUME NEW r \in Page(p)
        PROVE  /\ rows[r] \in {Row(in) : in \in {"pending", "cancelled", "waiting_dependency"}}
               /\ rows[r].state \in Recoveries(opening[r].state)
               /\ r \notin checked =>
                    /\ rows[r].state = "cancelled"
                    /\ Channel = "telegram" \/ opening[r].state \in Failed
    <2>1. /\ opening[r] \in Rows /\ rows[r] = RecoveryRow(r, opening[r]) /\ r \in Recipients
          /\ opening[r].state \notin {"absent", "waiting_dependency"}
      BY <1>6, Zenon
    <2>2. r \notin checked => ~Checked(opening[r])
      BY Zenon
    <2> HIDE DEF opening, checked, rows
    <2> QED  BY <1>2, <2>1, <2>2, ChannelType, RecoveryPlanned, ZenonT(30)
  <1>8. rows \in PageRows /\ seen \in PageRows
    <2>1. {Row(in) : in \in {"pending", "cancelled", "waiting_dependency"}} \subseteq Rows
      BY NewRow, Zenon DEF DeliveryStates, TerminalStates, NonterminalStates
    <2>2. rows \in [Page(p) -> Rows]
      BY <1>7, <2>1, Zenon
    <2>3. seen \in [checked -> Rows] /\ checked \in SUBSET Recipients
      BY <1>4, <1>6, Zenon
    <2> QED  BY <1>4, <2>2, <2>3, ZenonT(30) DEF PageRows
  <1>9. DOMAIN rows = Page(p) /\ DOMAIN seen = checked
    BY Zenon
  <1>10. \A r \in checked : r \in Page(p) /\ seen[r] = opening[r]
    BY Zenon
  <1> HIDE DEF rows, seen, checked
  <1>11. value \in RelayStates
    BY <1>3, <1>8, Zenon DEF RelayStates
  <1>12. /\ value.pc = "planned" /\ value.item = relay[p].item
         /\ value.rows = rows /\ value.seen = seen
    BY Zenon
  <1> HIDE DEF value
  <1>13. relay'[p] = value => RelaySound(p)'
    <2> HAVE relay'[p] = value
    <2>1. /\ relay'[p].pc = "planned" /\ relay'[p].item[1] = "recovery"
          /\ relay'[p].rows = rows /\ relay'[p].seen = seen
      BY <1>1, <1>12, Zenon
    <2>2. ASSUME NEW r \in Page(p)
          PROVE  PlannedRecovery(p, r)'
      <3>1. Opening(r)' = Opening(r) /\ \A in : Row(in)' = Row(in)
        BY ZenonT(30) DEF Opening, Row, NoLease
      <3>2. delivery' = delivery /\ Channel' = Channel
        BY <1>1, Zenon DEF storeVars, Channel
      <3>3. \A x : Recoveries(x)' = Recoveries(x)
        BY <3>2, Zenon DEF Recoveries
      <3>4. delivery[Opening(r)].state # "absent" /\ opening[r] = delivery[Opening(r)]
        BY <1>6, Zenon
      <3>5. r \in DOMAIN seen => seen[r] = opening[r]
        BY <1>9, <1>10, Zenon
      <3> HIDE DEF opening
      <3> QED  BY <1>7, <1>9, <2>1, <3>1, <3>2, <3>3, <3>4, <3>5, ZenonT(30) DEF PlannedRecovery
    <2> QED  BY <1>9, <2>1, <2>2, Zenon DEF RelaySound
  <1> QED  BY <1>1, <1>11, <1>13, RelayThinks, ZenonT(30)

(* A claim that is put back is told from the claim by its place only. *)
LEMMA PutBack ==
    ASSUME NEW x \in [pc : {"claimed", "retry"}, item : Kinds \X {0}, work : Outboxes]
    PROVE  [x EXCEPT !.pc = "retry"] = [pc |-> "retry", item |-> x.item, work |-> x.work]
  OBVIOUS

LEMMA KeepsGivingUp ==
    ASSUME PipelineInv, NEW p \in Relays, AwaitOpening(p) \/ PageConflict(p),
           UNCHANGED <<worker, provider, feedback, deduped>>
    PROVE  PipelineInv' /\ StoreMoves
  <1> DEFINE value == [pc |-> "retry", item |-> relay[p].item, work |-> relay[p].work]
  <1>1. TypeInv /\ relay[p] \in RelayStates
    BY Zenon DEF PipelineInv, TypeInv
  <1>2. relay[p].pc \in {"claimed", "planned"} /\ UNCHANGED storeVars
    BY Zenon DEF AwaitOpening, PageConflict
  <1>3. relay[p].item \in Kinds \X {0} /\ relay[p].work \in Outboxes
    BY <1>1, <1>2, RelayFields, Zenon
  <1>4. Set(p, value)
    <2>1. CASE AwaitOpening(p)
      <3>1. relay[p] \in [pc : {"claimed", "retry"}, item : Kinds \X {0}, work : Outboxes]
        BY <1>1, <2>1 DEF AwaitOpening, RelayStates, Idle
      <3>2. [relay[p] EXCEPT !.pc = "retry"] = value
        BY <3>1, PutBack, Zenon
      <3> QED  BY <2>1, <3>2, Zenon DEF AwaitOpening
    <2>2. CASE PageConflict(p)
      BY <2>2, Zenon DEF PageConflict
    <2> QED  BY <2>1, <2>2, Zenon
  <1>5. value \in RelayStates /\ value.pc = "retry"
    BY <1>3, Zenon DEF RelayStates
  <1> HIDE DEF value
  <1>6. relay'[p] = value => RelaySound(p)'
    BY <1>5, RelayAtRest, Zenon
  <1> QED  BY <1>2, <1>4, <1>5, <1>6, RelayThinks, Zenon

LEMMA KeepsCommitPage ==
    ASSUME PipelineInv, NEW p \in Relays, CommitPage(p),
           UNCHANGED <<worker, provider, feedback, deduped>>
    PROVE  PipelineInv' /\ StoreMoves
  <1> DEFINE k == relay[p].item[1]
             rows == relay[p].rows
             seen == relay[p].seen
  <1>1. /\ relay[p].pc = "planned" /\ PageHolds(p) /\ Set(p, Idle)
        /\ delivery' = [d \in Deliveries |->
             IF d[1] = k /\ d[2] \in DOMAIN rows /\ rows[d[2]] # NoRow
             THEN rows[d[2]] ELSE delivery[d]]
        /\ outbox' = [outbox EXCEPT ![k] = Advanced(outbox[k], DOMAIN rows)]
        /\ UNCHANGED <<status, attempt, gate, suppression, queue, faults>>
    BY Zenon DEF CommitPage
  <1>2. TypeInv /\ relay[p] \in RelayStates /\ RelaySound(p)
    BY Zenon DEF PipelineInv, TypeInv
  <1>3. k \in Kinds /\ rows \in PageRows /\ seen \in PageRows
    BY <1>1, <1>2, RelayFields, ZenonT(30)
  <1>4. DOMAIN rows \in SUBSET Recipients /\ \A r \in DOMAIN rows : rows[r] \in Rows
    BY <1>3, PageTypes, Zenon
  <1> HIDE DEF k, rows, seen
  <1>5. ChannelKept /\ outbox' \in [Kinds -> Outboxes]
    <2>1. outbox[k] \in Outboxes
      BY <1>2, <1>3, ZenonT(30) DEF TypeInv
    <2>2. /\ Advanced(outbox[k], DOMAIN rows) \in Outboxes
          /\ Advanced(outbox[k], DOMAIN rows).channel = outbox[k].channel
      BY <1>4, <2>1, OutboxTypes, Zenon
    <2> QED  BY <1>1, <1>3, <2>2, OutboxWritten, ZenonT(30)
  <1>6. delivery' \in [Deliveries -> Rows]
    BY <1>1, <1>2, <1>4, Zenon DEF TypeInv
  <1>7. ASSUME NEW d \in Deliveries, delivery'[d] # delivery[d]
        PROVE  Created(d)
    <2>1. /\ d[1] = k /\ d[2] \in DOMAIN rows /\ delivery'[d] = rows[d[2]]
          /\ rows[d[2]] # NoRow /\ d = <<k, d[2]>>
      BY <1>1, <1>7, PairRows, ZenonT(30)
    <2>2. delivery[d] = NoRow
      BY <1>1, <2>1, ZenonT(30) DEF PageHolds, rows, k
    <2>3. CASE k = "opening"
      <3>1. rows[d[2]] \in {NoRow, Row("pending"), Row("cancelled")}
        BY <1>1, <1>2, <2>1, <2>3, Zenon DEF RelaySound, rows, k
      <3> QED  BY <2>1, <2>2, <2>3, <3>1, Zenon DEF Created
    <2>4. CASE k = "recovery"
      <3>1. PlannedRecovery(p, d[2])
        BY <1>1, <1>2, <2>1, <2>4, Zenon DEF RelaySound, rows, k
      <3>2. d[2] \in Recipients /\ Opening(d[2]) \in Deliveries /\ Opening(d[2])[1] = "opening"
        BY PairRows, Zenon DEF Opening
      <3>3. delivery'[Opening(d[2])] = delivery[Opening(d[2])]
        BY <1>1, <2>4, <3>2, ZenonT(30)
      <3>4. /\ delivery[Opening(d[2])].state # "absent"
            /\ rows[d[2]] \in {Row(in) : in \in {"pending", "cancelled", "waiting_dependency"}}
        BY <3>1, Zenon DEF PlannedRecovery, rows
      <3>5. rows[d[2]].state \in Recoveries(delivery[Opening(d[2])].state)
        <4>1. CASE d[2] \in DOMAIN seen
          <5>1. delivery[Opening(d[2])].state = seen[d[2]].state
            BY <1>1, <4>1, Zenon DEF PageHolds, seen
          <5>2. rows[d[2]].state \in Recoveries(seen[d[2]].state)
            BY <3>1, <4>1, Zenon DEF PlannedRecovery, rows, seen
          <5> QED  BY <5>1, <5>2, Zenon
        <4>2. CASE d[2] \notin DOMAIN seen
          <5>1. /\ rows[d[2]].state = "cancelled"
                /\ Channel = "telegram" \/ delivery[Opening(d[2])].state \in Failed
            BY <3>1, <4>2, ZenonT(30) DEF PlannedRecovery, rows, seen
          <5>2. "cancelled" \in Recoveries(delivery[Opening(d[2])].state)
            BY <5>1, Zenon DEF Recoveries, Failed
          <5> QED  BY <5>1, <5>2, Zenon
        <4> QED  BY <4>1, <4>2, Zenon
      <3> QED  BY <2>1, <2>2, <2>4, <3>3, <3>4, <3>5, ZenonT(30) DEF Created
    <2> QED  BY <1>3, <2>3, <2>4, Zenon DEF Kinds
  <1>8. PageMoves
    BY <1>6, <1>7, Zenon DEF PageMoves
  <1>9. \A d \in Deliveries : delivery'[d].count = delivery[d].count
    BY <1>7, CreatedFields, Zenon
  <1>10. RestKept
    BY <1>1, <1>5, <1>9, RestSame, ZenonT(30)
  <1>11. StoreMoves
    BY <1>5, <1>8, Zenon DEF StoreMoves
  <1>12. relay'[p] = Idle /\ relay' = [relay EXCEPT ![p] = relay'[p]]
    <2>1. Set(p, Idle)
      BY <1>1, Zenon
    <2> QED  BY <1>2, <2>1, RelaySet, Zenon
  <1>13. Idle \in RelayStates /\ Idle.pc = "idle" /\ queue' \subseteq Deliveries
    BY <1>1, <1>2, ZenonT(30) DEF RelayStates, Idle, TypeInv
  <1>14. RelaySound(p)'
    BY <1>12, <1>13, RelayAtRest, Zenon
  <1> QED  BY <1>1, <1>5, <1>6, <1>10, <1>11, <1>12, <1>13, <1>14, RelayAct, ZenonT(30)

LEMMA KeepsRescheduleOutbox ==
    ASSUME PipelineInv, NEW p \in Relays, RescheduleOutbox(p),
           UNCHANGED <<worker, provider, feedback, deduped>>
    PROVE  PipelineInv' /\ StoreMoves
  <1> DEFINE k == relay[p].item[1]
             new == Rescheduled(outbox[k])
  <1>1. /\ relay[p].pc = "retry" /\ Set(p, Idle)
        /\ outbox' = outbox \/ outbox' = [outbox EXCEPT ![k] = new]
        /\ UNCHANGED <<status, delivery, attempt, gate, suppression, queue, faults>>
    <2>1. CASE OwnsOutbox(p)
      BY <2>1, Zenon DEF RescheduleOutbox
    <2>2. CASE ~OwnsOutbox(p)
      BY <2>2, Zenon DEF RescheduleOutbox
    <2> QED  BY <2>1, <2>2, Zenon
  <1>2. TypeInv /\ relay[p] \in RelayStates
    BY Zenon DEF PipelineInv, TypeInv
  <1>3. k \in Kinds
    BY <1>1, <1>2, RelayFields, ZenonT(30)
  <1>4. outbox[k] \in Outboxes
    <2>1. outbox \in [Kinds -> Outboxes]
      BY <1>2, Zenon DEF TypeInv
    <2> QED  BY <1>3, <2>1, Zenon
  <1>5. new \in Outboxes
    BY <1>4, OutboxTypes, Zenon DEF Rescheduled
  <1>6. new.channel = outbox[k].channel
    BY <1>4, Zenon DEF Outboxes, Rescheduled
  <1> HIDE DEF k, new
  <1>7. ChannelKept /\ outbox' \in [Kinds -> Outboxes]
    BY <1>1, <1>3, <1>5, <1>6, OutboxWritten, OutboxesSame, Zenon
  <1>8. /\ delivery' \in [Deliveries -> Rows] /\ queue' \subseteq Deliveries
        /\ \A d \in Deliveries : delivery'[d].count = delivery[d].count
    BY <1>1, DeliveriesSame, Zenon DEF PipelineInv, TypeInv
  <1>9. RestKept
    BY <1>1, <1>7, <1>8, RestSame, Zenon
  <1>10. StoreMoves
    BY <1>1, <1>7, Zenon DEF StoreMoves
  <1>11. relay'[p] = Idle /\ relay' = [relay EXCEPT ![p] = relay'[p]]
    BY <1>1, <1>2, RelaySet, Zenon
  <1>12. Idle \in RelayStates /\ Idle.pc = "idle"
    BY Zenon DEF RelayStates, Idle
  <1>13. RelaySound(p)'
    BY <1>11, <1>12, RelayAtRest, Zenon
  <1> QED  BY <1>1, <1>7, <1>8, <1>9, <1>10, <1>11, <1>12, <1>13, RelayAct, ZenonT(30)

LEMMA KeepsClaimDelivery ==
    ASSUME PipelineInv, NEW p \in Relays, NEW d \in Deliveries, ClaimDelivery(p, d),
           UNCHANGED <<worker, provider, feedback, deduped>>
    PROVE  PipelineInv' /\ StoreMoves
  <1> DEFINE lease == Claimed(delivery[d].relay, p)
             claimed == [delivery[d] EXCEPT !.relay = lease]
             value == [pc |-> "publish", item |-> d, work |-> claimed]
  <1>1. /\ delivery[d].state = "pending" /\ Set(p, value)
        /\ delivery' = [delivery EXCEPT ![d] = claimed]
        /\ UNCHANGED <<status, outbox, attempt, gate, suppression, queue, faults>>
    BY Zenon DEF ClaimDelivery
  <1>2. TypeInv /\ delivery[d] \in Rows
    BY Zenon DEF PipelineInv, TypeInv
  <1>3. lease \in Leases(Relays)
    BY <1>2, LeaseTypes, Zenon DEF Rows
  <1> HIDE DEF lease
  <1>4. claimed \in Rows /\ Core(claimed) = Core(delivery[d])
    BY <1>2, <1>3, RowLeases, Zenon
  <1>5. claimed.state = "pending" /\ claimed.count = delivery[d].count
    BY <1>1, <1>4, CoreFields
  <1> HIDE DEF claimed
  <1>6. OnlyRow(d) /\ delivery'[d] = claimed
    BY <1>1, <1>2, <1>4, RowWritten, Zenon
  <1>7. LeaseMoves(d)
    BY <1>1, <1>4, <1>6, Zenon DEF LeaseMoves
  <1>8. ChannelKept /\ outbox' \in [Kinds -> Outboxes]
    BY <1>1, OutboxesSame, Zenon
  <1>9. \A x \in Deliveries : delivery'[x].count = delivery[x].count
    BY <1>5, <1>6, Zenon DEF OnlyRow
  <1>10. RestKept
    BY <1>1, <1>8, <1>9, RestSame, Zenon
  <1>11. StoreMoves
    BY <1>7, <1>8, Zenon DEF StoreMoves
  <1>12. value \in RelayStates /\ value.pc = "publish" /\ value.item = d
    BY <1>4, Zenon DEF RelayStates
  <1> HIDE DEF value
  <1>13. relay'[p] = value /\ relay' = [relay EXCEPT ![p] = relay'[p]]
    BY <1>1, <1>2, RelaySet, Zenon
  <1>14. RelaySound(p)'
    BY <1>5, <1>6, <1>12, <1>13, Zenon DEF RelaySound, Unstarted
  <1>15. queue' \subseteq Deliveries /\ delivery' \in [Deliveries -> Rows]
    BY <1>1, <1>2, <1>6, Zenon DEF TypeInv, OnlyRow
  <1> QED  BY <1>1, <1>8, <1>10, <1>11, <1>12, <1>13, <1>14, <1>15, RelayAct, ZenonT(30)

(* A relay worker that is done with a delivery, and wrote its row at most. *)
LEMMA RelayEnds ==
    ASSUME PipelineInv, NEW p \in Relays, Set(p, Idle), StoreMoves,
           UNCHANGED <<status, outbox, attempt, gate, suppression>>,
           UNCHANGED <<worker, provider, feedback, deduped>>,
           queue \subseteq queue', queue' \subseteq Deliveries,
           delivery' \in [Deliveries -> Rows],
           \A d \in Deliveries : delivery'[d].count = delivery[d].count
    PROVE  PipelineInv'
  <1>1. relay'[p] = Idle /\ relay' = [relay EXCEPT ![p] = relay'[p]]
    BY RelaySet, ZenonT(30) DEF PipelineInv
  <1>2. Idle \in RelayStates /\ Idle.pc = "idle"
    BY Zenon DEF RelayStates, Idle
  <1>3. RelaySound(p)'
    BY <1>1, <1>2, RelayAtRest, Zenon
  <1>4. ChannelKept /\ outbox' \in [Kinds -> Outboxes]
    BY OutboxesSame, Zenon
  <1>5. RestKept
    BY <1>4, RestSame, Zenon
  <1> QED  BY <1>1, <1>2, <1>3, <1>4, <1>5, RelayAct, ZenonT(30)

LEMMA KeepsPublish ==
    ASSUME PipelineInv, NEW p \in Relays, Publish(p),
           UNCHANGED <<worker, provider, feedback, deduped>>
    PROVE  PipelineInv' /\ StoreMoves
  <1> DEFINE item == relay[p].item
             value == [pc |-> "published", item |-> item, work |-> relay[p].work]
  <1>1. /\ relay[p].pc = "publish" /\ queue' = queue \cup {item}
        /\ Set(p, [relay[p] EXCEPT !.pc = "published"])
        /\ UNCHANGED <<status, outbox, delivery, attempt, gate, suppression, faults>>
    BY Zenon DEF Publish
  <1>2. TypeInv /\ relay[p] \in RelayStates /\ RelaySound(p)
    BY Zenon DEF PipelineInv, TypeInv
  <1>3. item \in Deliveries /\ relay[p].work \in Rows
    BY <1>1, <1>2, RelayFields, ZenonT(30)
  <1>4. [relay[p] EXCEPT !.pc = "published"] = value
    <2>1. relay[p] \in [pc : {"publish", "published"}, item : Deliveries, work : Rows]
      BY <1>1, <1>2 DEF RelayStates, Idle
    <2> QED  BY <2>1
  <1>5. delivery[item].state \notin Unstarted
    BY <1>1, <1>2, Zenon DEF RelaySound
  <1> HIDE DEF item
  <1>6. value \in RelayStates /\ value.pc = "published" /\ value.item = item
    BY <1>3, Zenon DEF RelayStates
  <1> HIDE DEF value
  <1>7. relay'[p] = value /\ relay' = [relay EXCEPT ![p] = relay'[p]]
    BY <1>1, <1>2, <1>4, RelaySet, Zenon
  <1>8. RelaySound(p)'
    BY <1>1, <1>5, <1>6, <1>7, Zenon DEF RelaySound, Unstarted
  <1>9. ChannelKept /\ outbox' \in [Kinds -> Outboxes]
    BY <1>1, OutboxesSame, Zenon
  <1>10. /\ delivery' \in [Deliveries -> Rows] /\ queue' \subseteq Deliveries
         /\ \A d \in Deliveries : delivery'[d].count = delivery[d].count
    BY <1>1, <1>2, <1>3, DeliveriesSame, Zenon DEF TypeInv
  <1>11. RestKept
    BY <1>1, <1>9, <1>10, RestSame, Zenon
  <1>12. StoreMoves
    BY <1>1, <1>9, Zenon DEF StoreMoves
  <1> QED  BY <1>1, <1>6, <1>7, <1>8, <1>9, <1>10, <1>11, <1>12, RelayAct, ZenonT(30)

LEMMA KeepsPublishFails ==
    ASSUME PipelineInv, NEW p \in Relays, PublishFails(p),
           UNCHANGED <<worker, provider, feedback, deduped>>
    PROVE  PipelineInv' /\ StoreMoves
  <1> DEFINE d == relay[p].item
             new == [Bumped(delivery[d]) EXCEPT !.relay = NoLease]
  <1>1. /\ relay[p].pc = "publish" /\ Set(p, Idle)
        /\ queue' \in {queue, queue \cup {d}}
        /\ UNCHANGED <<status, outbox, attempt, gate, suppression>>
        /\ delivery' = IF OwnsDelivery(p) THEN [delivery EXCEPT ![d] = new] ELSE delivery
    BY Zenon DEF PublishFails
  <1>2. TypeInv /\ relay[p] \in RelayStates
    BY Zenon DEF PipelineInv, TypeInv
  <1>3. d \in Deliveries
    BY <1>1, <1>2, RelayFields, Zenon
  <1>4. OwnsDelivery(p) => delivery[d].state = "pending" /\ delivery[d].indexed
    BY Zenon DEF OwnsDelivery
  <1> HIDE DEF d
  <1>5. queue \subseteq queue' /\ queue' \subseteq Deliveries
    BY <1>1, <1>2, <1>3, ZenonT(30) DEF TypeInv
  <1>6. ChannelKept
    BY <1>1, OutboxesSame, Zenon
  <1>7. CASE delivery' = delivery
    <2>1. StoreMoves
      BY <1>6, <1>7, Zenon DEF StoreMoves
    <2> QED  BY <1>1, <1>5, <1>7, <2>1, DeliveriesSame, RelayEnds, ZenonT(30)
  <1>8. CASE OwnsDelivery(p) /\ delivery' = [delivery EXCEPT ![d] = new]
    <2>1. delivery[d] \in Rows
      BY <1>2, <1>3, Zenon DEF TypeInv
    <2>2. /\ new \in Rows /\ new.state = delivery[d].state /\ new.rev = delivery[d].rev + 1
          /\ new.count = delivery[d].count /\ new.outcome = delivery[d].outcome
          /\ new.indexed = delivery[d].indexed
      BY <2>1, RescheduledRow, Zenon
    <2> HIDE DEF new
    <2>3. OnlyRow(d) /\ delivery'[d] = new
      BY <1>2, <1>3, <1>8, <2>2, RowWritten, Zenon
    <2>4. RowMoves(d)
      BY <1>4, <1>8, <2>2, <2>3, Zenon DEF RowMoves
    <2>5. StoreMoves
      BY <1>3, <1>6, <2>4, Zenon DEF StoreMoves
    <2>6. /\ delivery' \in [Deliveries -> Rows]
          /\ \A x \in Deliveries : delivery'[x].count = delivery[x].count
      BY <2>2, <2>3, Zenon DEF OnlyRow
    <2> QED  BY <1>1, <1>5, <2>5, <2>6, RelayEnds, Zenon
  <1> QED  BY <1>1, <1>7, <1>8, ZenonT(30)

LEMMA KeepsMarkQueued ==
    ASSUME PipelineInv, NEW p \in Relays, MarkQueued(p),
           UNCHANGED <<worker, provider, feedback, deduped>>
    PROVE  PipelineInv' /\ StoreMoves
  <1> DEFINE d == relay[p].item
             new == Queued(delivery[d])
  <1>1. /\ relay[p].pc = "published" /\ Set(p, Idle)
        /\ UNCHANGED <<status, outbox, attempt, gate, suppression, queue>>
        /\ delivery' = IF OwnsDelivery(p) THEN [delivery EXCEPT ![d] = new] ELSE delivery
    BY Zenon DEF MarkQueued
  <1>2. TypeInv /\ relay[p] \in RelayStates /\ RelaySound(p)
    BY Zenon DEF PipelineInv, TypeInv
  <1>3. d \in Deliveries
    BY <1>1, <1>2, RelayFields, Zenon
  <1>4. OwnsDelivery(p) => delivery[d].state = "pending" /\ d \in queue
    BY <1>1, <1>2, Zenon DEF OwnsDelivery, RelaySound
  <1> HIDE DEF d
  <1>5. queue \subseteq queue' /\ queue' \subseteq Deliveries
    BY <1>1, <1>2, Zenon DEF TypeInv
  <1>6. ChannelKept
    BY <1>1, OutboxesSame, Zenon
  <1>7. CASE delivery' = delivery
    <2>1. StoreMoves
      BY <1>6, <1>7, Zenon DEF StoreMoves
    <2> QED  BY <1>1, <1>5, <1>7, <2>1, DeliveriesSame, RelayEnds, Zenon
  <1>8. CASE OwnsDelivery(p) /\ delivery' = [delivery EXCEPT ![d] = new]
    <2>1. delivery[d] \in Rows
      BY <1>2, <1>3, Zenon DEF TypeInv
    <2>2. /\ new \in Rows /\ new.state = "queued" /\ new.rev = delivery[d].rev + 1
          /\ new.count = delivery[d].count /\ new.outcome = delivery[d].outcome
      BY <2>1, QueuedRow, ZenonT(30)
    <2> HIDE DEF new
    <2>3. OnlyRow(d) /\ delivery'[d] = new
      BY <1>2, <1>3, <1>8, <2>2, RowWritten, ZenonT(30)
    <2>4. RowMoves(d)
      BY <1>1, <1>4, <1>8, <2>2, <2>3, ZenonT(30) DEF RowMoves
    <2>5. StoreMoves
      BY <1>3, <1>6, <2>4, Zenon DEF StoreMoves
    <2>6. /\ delivery' \in [Deliveries -> Rows]
          /\ \A x \in Deliveries : delivery'[x].count = delivery[x].count
      BY <2>2, <2>3, Zenon DEF OnlyRow
    <2> QED  BY <1>1, <1>5, <2>5, <2>6, RelayEnds, Zenon
  <1> QED  BY <1>1, <1>7, <1>8, Zenon

LEMMA KeepsRelayCrash ==
    ASSUME PipelineInv, NEW p \in Relays, RelayCrash(p),
           UNCHANGED <<worker, provider, feedback, deduped>>
    PROVE  PipelineInv' /\ StoreMoves
  <1>1. /\ Set(p, Idle)
        /\ UNCHANGED <<status, outbox, delivery, attempt, gate, suppression, queue>>
    BY Zenon DEF RelayCrash
  <1>2. ChannelKept /\ queue' \subseteq Deliveries /\ queue \subseteq queue'
    BY <1>1, OutboxesSame, ZenonT(30) DEF PipelineInv, TypeInv
  <1>3. StoreMoves
    BY <1>1, <1>2, ZenonT(30) DEF StoreMoves
  <1> QED  BY <1>1, <1>2, <1>3, DeliveriesSame, RelayEnds, Zenon
-----------------------------------------------------------------------------
(* A step of no process: a lease runs out, a gate or the event changes, a   *)
(* job is received whose delivery is not claimed.                           *)
LEMMA StoreAct ==
    ASSUME PipelineInv, UNCHANGED <<attempt, suppression, relay, worker, provider>>,
           UNCHANGED <<feedback, deduped>>, status' \in {"open", "resolved"},
           outbox' \in [Kinds -> Outboxes], delivery' \in [Deliveries -> Rows],
           gate' \in [Recipients -> [member : BOOLEAN, preference : BOOLEAN, version : Nat]],
           queue' \subseteq Deliveries, RestKept, StoreMoves
    PROVE  PipelineInv'
  <1>1. StoreKept
    BY MovesStore, Zenon
  <1>2. TypeInv'
    BY Zenon DEF PipelineInv, TypeInv
  <1>3. SuppressionRecorded' /\ (deduped # {} => Channel = "email")'
    BY <1>1, <1>2, RecordedKept, ZenonT(30) DEF PipelineInv, StoreKept
  <1> QED  BY <1>1, <1>2, <1>3, InvKept, Zenon

LEMMA KeepsExpireOutboxLease ==
    ASSUME PipelineInv, NEW k \in Kinds, ExpireOutboxLease(k),
           UNCHANGED <<worker, provider, feedback, deduped>>
    PROVE  PipelineInv' /\ StoreMoves
  <1> DEFINE new == [outbox[k] EXCEPT !.lease.live = FALSE]
  <1>1. /\ outbox' = [outbox EXCEPT ![k] = new]
        /\ UNCHANGED <<status, delivery, attempt, gate, suppression, queue, relay>>
    BY Zenon DEF ExpireOutboxLease
  <1>2. outbox[k] \in Outboxes /\ TypeInv
    BY Zenon DEF PipelineInv, TypeInv
  <1>3. new \in Outboxes /\ new.channel = outbox[k].channel
    BY <1>2, OutboxTypes, Zenon DEF Outboxes
  <1> HIDE DEF new
  <1>4. ChannelKept /\ outbox' \in [Kinds -> Outboxes]
    BY <1>1, <1>3, OutboxWritten, Zenon
  <1>5. StoreMoves
    BY <1>1, <1>4, Zenon DEF StoreMoves
  <1>6. RestKept
    BY <1>1, <1>4, DeliveriesSame, RestSame, Zenon
  <1> QED  BY <1>1, <1>2, <1>4, <1>5, <1>6, StoreAct, ZenonT(30) DEF TypeInv

(* A lease of a row runs out. *)
LEMMA LapsedRow ==
    ASSUME TypeInv, NEW d \in Deliveries,
           \/ delivery' = [delivery EXCEPT ![d].relay.live = FALSE]
           \/ delivery' = [delivery EXCEPT ![d].lease.live = FALSE]
    PROVE  OnlyRow(d) /\ Core(delivery'[d]) = Core(delivery[d])
  <1> DEFINE relayed == [delivery[d] EXCEPT !.relay = [delivery[d].relay EXCEPT !.live = FALSE]]
             leased == [delivery[d] EXCEPT !.lease = [delivery[d].lease EXCEPT !.live = FALSE]]
  <1>1. delivery[d] \in Rows
    BY Zenon DEF TypeInv
  <1>2. /\ [delivery[d].relay EXCEPT !.live = FALSE] \in Leases(Relays)
        /\ [delivery[d].lease EXCEPT !.live = FALSE] \in Leases(Workers)
    <2>1. delivery[d].relay \in Leases(Relays) /\ delivery[d].lease \in Leases(Workers)
      BY <1>1, ZenonT(30) DEF Rows
    <2> QED  BY <2>1, LeaseTypes, Zenon
  <1>3. /\ relayed \in Rows /\ Core(relayed) = Core(delivery[d])
        /\ leased \in Rows /\ Core(leased) = Core(delivery[d])
    BY <1>1, <1>2, RowLeases, Zenon
  <1>4. \/ delivery' = [delivery EXCEPT ![d] = relayed]
        \/ delivery' = [delivery EXCEPT ![d] = leased]
    BY Zenon
  <1> HIDE DEF relayed, leased
  <1> QED  BY <1>3, <1>4, RowWritten, ZenonT(30)

(* A lease that is live is that of a row. *)
LEMMA LiveRow ==
    ASSUME PipelineInv, NEW d \in Deliveries, delivery[d].relay.live \/ delivery[d].lease.live
    PROVE  delivery[d].state # "absent"
  <1>1. ~NoRow.relay.live /\ ~NoRow.lease.live
    BY NewRow, Zenon DEF NoRow
  <1>2. delivery[d].state = "absent" => delivery[d] = NoRow
    BY Zenon DEF PipelineInv, RowSound
  <1> QED  BY <1>1, <1>2, Zenon

LEMMA KeepsLapse ==
    ASSUME PipelineInv, NEW d \in Deliveries, ExpireRelayLease(d) \/ ExpireLease(d),
           UNCHANGED <<relay, worker, provider, feedback, deduped>>
    PROVE  PipelineInv' /\ StoreMoves
  <1>1. /\ UNCHANGED <<status, outbox, attempt, gate, suppression, queue>>
        /\ delivery[d].relay.live \/ delivery[d].lease.live
        /\ \/ delivery' = [delivery EXCEPT ![d].relay.live = FALSE]
           \/ delivery' = [delivery EXCEPT ![d].lease.live = FALSE]
    BY Zenon DEF ExpireRelayLease, ExpireLease
  <1>2. TypeInv
    BY Zenon DEF PipelineInv
  <1>3. OnlyRow(d) /\ Core(delivery'[d]) = Core(delivery[d])
    BY <1>1, <1>2, LapsedRow, Zenon
  <1>4. LeaseMoves(d)
    BY <1>1, <1>3, LiveRow, Zenon DEF LeaseMoves
  <1>5. ChannelKept /\ outbox' \in [Kinds -> Outboxes]
    BY <1>1, OutboxesSame, Zenon
  <1>6. /\ delivery' \in [Deliveries -> Rows]
        /\ \A x \in Deliveries : delivery'[x].count = delivery[x].count
    BY <1>3, CoreFields DEF OnlyRow
  <1>7. RestKept
    BY <1>1, <1>5, <1>6, RestSame, ZenonT(30)
  <1>8. StoreMoves
    BY <1>4, <1>5, Zenon DEF StoreMoves
  <1> QED  BY <1>1, <1>2, <1>5, <1>6, <1>7, <1>8, StoreAct, ZenonT(30) DEF TypeInv

LEMMA KeepsResolve ==
    ASSUME PipelineInv, Recover \/ ResolveManually,
           UNCHANGED <<relay, worker, provider, feedback, deduped>>
    PROVE  PipelineInv' /\ StoreMoves
  <1> DEFINE new == Outbox("pending", Channel)
  <1>1. /\ status' = "resolved" /\ UNCHANGED <<delivery, attempt, gate, suppression, queue>>
        /\ outbox' = outbox \/ outbox' = [outbox EXCEPT !["recovery"] = new]
    BY Zenon DEF Recover, ResolveManually, ResolveEvent
  <1>2. TypeInv /\ outbox["recovery"].channel = Channel
    BY Zenon DEF PipelineInv
  <1>3. new \in Outboxes /\ new.channel = Channel
    BY <1>2, ChannelType, LeaseTypes, Zenon DEF Outbox, Outboxes
  <1>4. "recovery" \in Kinds
    BY Zenon DEF Kinds
  <1> HIDE DEF new
  <1>5. ChannelKept /\ outbox' \in [Kinds -> Outboxes]
    BY <1>1, <1>2, <1>3, <1>4, OutboxWritten, OutboxesSame, ZenonT(30)
  <1>6. StoreMoves
    BY <1>1, <1>5, Zenon DEF StoreMoves
  <1>7. RestKept
    BY <1>1, <1>5, DeliveriesSame, RestSame, Zenon
  <1> QED  BY <1>1, <1>2, <1>5, <1>6, <1>7, StoreAct, ZenonT(30) DEF TypeInv

LEMMA KeepsChangeGate ==
    ASSUME PipelineInv, NEW r \in Recipients, NEW member \in BOOLEAN, NEW preference \in BOOLEAN,
           ChangeGate(r, member, preference),
           UNCHANGED <<relay, worker, provider, feedback, deduped>>
    PROVE  PipelineInv' /\ StoreMoves
  <1> DEFINE new == [member |-> member, preference |-> preference,
                     version |-> gate[r].version + 1]
             Gates == [member : BOOLEAN, preference : BOOLEAN, version : Nat]
  <1>1. /\ gate' = [gate EXCEPT ![r] = new]
        /\ UNCHANGED <<status, outbox, delivery, attempt, suppression, queue>>
    BY Zenon DEF ChangeGate
  <1>2. TypeInv /\ gate \in [Recipients -> Gates] /\ gate[r].version \in Nat
    BY Zenon DEF PipelineInv, TypeInv
  <1>3. new \in Gates /\ new.version = gate[r].version + 1
    BY <1>2
  <1> HIDE DEF new
  <1>4. gate' \in [Recipients -> Gates]
    BY <1>1, <1>2, <1>3, Zenon
  <1>5. \A x \in Recipients : GateEvolves(x)
    <2>1. \A x \in Recipients : gate[x].version \in Nat
      BY <1>2, Zenon
    <2>2. GateEvolves(r)
      BY <1>1, <1>2, <1>3, SMTT(30) DEF GateEvolves
    <2>3. \A x \in Recipients : x # r => gate'[x] = gate[x]
      BY <1>1, <1>2, Zenon
    <2> QED  BY <2>1, <2>2, <2>3, SMTT(30) DEF GateEvolves
  <1>6. ChannelKept /\ outbox' \in [Kinds -> Outboxes]
    BY <1>1, OutboxesSame, Zenon
  <1>7. StoreMoves
    BY <1>1, <1>6, Zenon DEF StoreMoves
  <1>8. RestKept
    <2>1. QueueKept
      BY <1>1, Zenon DEF QueueKept
    <2> QED  BY <1>1, <1>5, <1>6, <2>1, DeliveriesSame, AttemptsSame, SuppressionsSame, ZenonT(30) DEF RestKept
  <1> QED  BY <1>1, <1>2, <1>4, <1>6, <1>7, <1>8, StoreAct, ZenonT(30) DEF TypeInv

LEMMA KeepsAcquireTerminal ==
    ASSUME PipelineInv, NEW d \in Deliveries, AcquireTerminal(d),
           UNCHANGED <<relay, feedback, deduped>>
    PROVE  PipelineInv' /\ StoreMoves
  <1>1. /\ queue' = queue \ {d} /\ delivery[d].state \in TerminalStates
        /\ UNCHANGED <<status, outbox, delivery, attempt, gate, suppression, worker, provider>>
    BY Zenon DEF AcquireTerminal
  <1>2. TypeInv
    BY Zenon DEF PipelineInv
  <1>3. ChannelKept /\ outbox' \in [Kinds -> Outboxes]
    BY <1>1, OutboxesSame, Zenon
  <1>4. StoreMoves
    BY <1>1, <1>3, Zenon DEF StoreMoves
  <1>5. RestKept
    <2>1. QueueKept
      BY <1>1, Zenon DEF QueueKept
    <2> QED  BY <1>1, <1>3, <2>1, DeliveriesSame, AttemptsSame, GatesSame, SuppressionsSame, Zenon
             DEF RestKept
  <1> QED  BY <1>1, <1>2, <1>3, <1>4, <1>5, StoreAct, Zenon DEF TypeInv

LEMMA KeepsRepairPublication ==
    ASSUME PipelineInv, NEW d \in Deliveries, RepairPublication(d),
           UNCHANGED <<relay, feedback, deduped>>
    PROVE  PipelineInv' /\ StoreMoves
  <1> DEFINE new == Queued(delivery[d])
  <1>1. /\ d \in queue /\ delivery[d].state = "pending"
        /\ delivery' = [delivery EXCEPT ![d] = new]
        /\ UNCHANGED <<status, outbox, attempt, gate, suppression, queue, worker, provider>>
    BY Zenon DEF RepairPublication, Queued
  <1>2. TypeInv /\ delivery[d] \in Rows
    BY Zenon DEF PipelineInv, TypeInv
  <1>3. /\ new \in Rows /\ new.state = "queued" /\ new.rev = delivery[d].rev + 1
        /\ new.count = delivery[d].count /\ new.outcome = delivery[d].outcome
    BY <1>2, QueuedRow, Zenon
  <1> HIDE DEF new
  <1>4. OnlyRow(d) /\ delivery'[d] = new
    BY <1>1, <1>2, <1>3, RowWritten, Zenon
  <1>5. RowMoves(d)
    BY <1>1, <1>3, <1>4, Zenon DEF RowMoves
  <1>6. ChannelKept /\ outbox' \in [Kinds -> Outboxes]
    BY <1>1, OutboxesSame, Zenon
  <1>7. StoreMoves
    BY <1>5, <1>6, Zenon DEF StoreMoves
  <1>8. /\ delivery' \in [Deliveries -> Rows]
        /\ \A x \in Deliveries : delivery'[x].count = delivery[x].count
    BY <1>3, <1>4, Zenon DEF OnlyRow
  <1>9. RestKept
    BY <1>1, <1>6, <1>8, RestSame, ZenonT(30)
  <1> QED  BY <1>1, <1>2, <1>6, <1>7, <1>8, <1>9, StoreAct, Zenon DEF TypeInv
=============================================================================
