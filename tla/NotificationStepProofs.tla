---------------------- MODULE NotificationStepProofs -----------------------
(***************************************************************************)
(* The steps of the feedback consumers and of the handlers keep            *)
(* PipelineInv, so every step does; and what follows from it alone: the    *)
(* types, where an unfinished delivery is found, what a provider call may  *)
(* follow, the suppressions, and the refinement of DeliveryLifecycle.      *)
(***************************************************************************)
EXTENDS NotificationStoreProofs

(* A feedback consumer's step. *)
LEMMA FeedbackAct ==
    ASSUME PipelineInv, NEW c \in Consumers, NEW value \in FeedbackStates,
           feedback' = [feedback EXCEPT ![c] = value],
           UNCHANGED <<status, outbox, gate, queue, relay, worker, provider>>,
           delivery' \in [Deliveries -> Rows], attempt' \in [Deliveries -> Seq(AttemptRows)],
           suppression' \in [Recipients -> 0 .. 3],
           deduped' \subseteq Deliveries \X Calls \X ProviderOutcomes,
           RestKept, StoreMoves, feedback'[c] = value => FeedbackSound(c)',
           SuppressionRecorded', (deduped # {} => Channel = "email")'
    PROVE  PipelineInv'
  <1>1. feedback \in [Consumers -> FeedbackStates]
    BY Zenon DEF PipelineInv, TypeInv
  <1>2. feedback' \in [Consumers -> FeedbackStates] /\ feedback'[c] = value
    BY <1>1, Zenon
  <1>3. TypeInv'
    BY <1>2, ZenonT(30) DEF PipelineInv, TypeInv
  <1>4. \A x \in Consumers : feedback'[x] = feedback[x] \/ FeedbackSound(x)'
    BY <1>1, <1>2, ZenonT(30)
  <1>5. StoreKept
    BY MovesStore, Zenon
  <1> QED  BY <1>3, <1>4, <1>5, InvKept, ZenonT(30)

(* A consumer that reads, or gives a transaction up. *)
LEMMA FeedbackThinks ==
    ASSUME PipelineInv, NEW c \in Consumers, NEW value \in FeedbackStates,
           feedback' = [feedback EXCEPT ![c] = value],
           UNCHANGED <<status, outbox, delivery, attempt, gate, suppression, queue, relay>>,
           UNCHANGED <<worker, provider, deduped>>,
           feedback'[c] = value => FeedbackSound(c)'
    PROVE  PipelineInv' /\ StoreMoves
  <1>1. ChannelKept
    BY OutboxesSame, Zenon
  <1>2. StoreMoves
    BY <1>1, Zenon DEF StoreMoves
  <1>3. RestKept
    BY <1>1, DeliveriesSame, RestSame, ZenonT(30)
  <1>4. SuppressionRecorded' /\ (deduped # {} => Channel = "email")'
    BY <1>1, Zenon DEF PipelineInv, SuppressionRecorded, ChannelKept
  <1>5. /\ delivery' \in [Deliveries -> Rows] /\ attempt' \in [Deliveries -> Seq(AttemptRows)]
        /\ suppression' \in [Recipients -> 0 .. 3]
        /\ deduped' \subseteq Deliveries \X Calls \X ProviderOutcomes
    BY Zenon DEF PipelineInv, TypeInv
  <1> QED  BY <1>2, <1>3, <1>4, <1>5, FeedbackAct, Zenon

(* A consumer at rest carries nothing. *)
LEMMA ConsumerAtRest ==
    Resting \in FeedbackStates /\ \A c : feedback'[c] = Resting => FeedbackSound(c)'
  BY DEF FeedbackStates, FeedbackSound, Resting

LEMMA KeepsFeedbackConflict ==
    ASSUME PipelineInv, NEW c \in Consumers, FeedbackConflict(c), UNCHANGED relay
    PROVE  PipelineInv' /\ StoreMoves
  <1>1. /\ feedback' = [feedback EXCEPT ![c] = Resting]
        /\ UNCHANGED <<status, outbox, delivery, attempt, gate, suppression, queue, relay>>
        /\ UNCHANGED <<worker, provider, deduped>>
    BY Zenon DEF FeedbackConflict, workerVars, storeVars
  <1> QED  BY <1>1, ConsumerAtRest, FeedbackThinks, Zenon

(* Reading an event against the row it is about. *)
LEMMA KeepsReadFeedback ==
    ASSUME PipelineInv, NEW c \in Consumers, NEW d \in Deliveries,
           NEW n \in 1 .. MaxProviderCalls, NEW semantic \in SesEvents,
           ReadFeedback(c, d, n, semantic), UNCHANGED relay
    PROVE  PipelineInv' /\ StoreMoves
  <1> DEFINE event == [d |-> d, n |-> n, semantic |-> semantic]
             row == delivery[d]
             dep == FeedbackDependency(event, row)
             next == NextState(row, n, semantic)
             value == [pc |-> "reconcile", event |-> event, row |-> row,
                       attempt |-> attempt[d][n], dep |-> dep, rank |-> suppression[d[2]]]
  <1>1. /\ Channel = "email" /\ n \in provider[d].accepted /\ Reconcilable(row.state)
        /\ feedback' = [feedback EXCEPT ![c] = value]
        /\ UNCHANGED <<status, outbox, delivery, attempt, gate, suppression, queue, relay>>
        /\ UNCHANGED <<worker, provider, deduped>>
    BY Zenon DEF ReadFeedback, workerVars, storeVars
  <1>2. TypeInv /\ RowSound(d) /\ row \in Rows /\ d[2] \in Recipients
    BY PairRows, Zenon DEF PipelineInv, TypeInv
  <1>3. event \in SesReports /\ event.d = d /\ event.n = n /\ event.semantic = semantic
    BY Zenon DEF SesReports, Calls
  <1>4. n \in 1 .. row.count /\ attempt[d][n] \in AttemptRows
    <2>1. n \in 1 .. row.count /\ Len(attempt[d]) = row.count
      BY <1>1, <1>2, ZenonT(30) DEF RowSound
    <2>2. attempt[d] \in Seq(AttemptRows)
      BY <1>2, ZenonT(30) DEF TypeInv
    <2> QED  BY <2>1, <2>2
  <1>5. suppression[d[2]] \in 0 .. 3
    BY <1>2, Zenon DEF TypeInv
  <1>6. dep = IF OwnsAggregate(row, n, semantic) /\ Unsettled(row.state)
              THEN Dependency(d, next) ELSE [op |-> "none", rev |-> 0]
    BY Zenon DEF FeedbackDependency
  <1>7. Dependency(d, next) \in Dependencies /\ DependencyFits(d, next, Dependency(d, next))
    BY <1>2, DependencyRead, ZenonT(30)
  <1> HIDE DEF next
  <1>8. /\ dep \in Dependencies
        /\ ~Unsettled(row.state) => dep.op = "none"
        /\ OwnsAggregate(row, n, semantic) /\ Unsettled(row.state) => DependencyFits(d, next, dep)
    BY <1>6, <1>7 DEF Dependencies
  <1> HIDE DEF event, row, dep
  <1>9. value \in FeedbackStates
    BY <1>2, <1>3, <1>4, <1>5, <1>8, Zenon DEF FeedbackStates
  <1>10. feedback'[c] = value => FeedbackSound(c)'
    <2>1. Remembers(row, d)
      BY <1>1, <1>2, RowFlags
      DEF row, Remembers, Reconcilable, Unstarted, TerminalStates
    <2>2. n <= delivery[d].count
      BY <1>2, <1>4, RowFlags DEF row
    <2>3. suppression[d[2]] <= suppression[d[2]]
      BY <1>5
    <2>4. outbox' = outbox /\ delivery' = delivery /\ suppression' = suppression
      BY <1>1, Zenon
    <2>5. ASSUME feedback'[c] = value
          PROVE  /\ feedback'[c].event = event /\ feedback'[c].row = row
                 /\ feedback'[c].dep = dep /\ feedback'[c].rank = suppression[d[2]]
      BY <2>5
    <2> HIDE DEF value
    <2> QED  BY <1>1, <1>3, <1>8, <2>1, <2>2, <2>3, <2>4, <2>5, ZenonT(30)
             DEF FeedbackSound, next, Remembers, DependencyFits, Recovery, Core, Channel
  <1> HIDE DEF value
  <1> QED  BY <1>1, <1>9, <1>10, FeedbackThinks, Zenon

(* The state an event leaves a delivery in. *)
LEMMA NextStates ==
    ASSUME NEW row \in Rows, NEW n, NEW semantic \in Semantics, Reconcilable(row.state)
    PROVE  /\ NextState(row, n, semantic) \in DeliveryStates
           /\ Ends(row.state, NextState(row, n, semantic))
           /\ NextState(row, n, semantic) \notin TerminalStates =>
                /\ NextState(row, n, semantic) = row.state
                /\ SemanticOutcome[semantic] = "delayed"
  <1> DEFINE incoming == IF PermanentFailure(semantic) /\ AcceptedByAnother(row, n)
                         THEN "accepted" ELSE SemanticOutcome[semantic]
             next == ReconcileDeliveryState(row.state, incoming)
  <1>1. NextState(row, n, semantic) = next
    BY Zenon DEF NextState
  <1>2. incoming = "delayed" => SemanticOutcome[semantic] = "delayed"
    BY Zenon
  <1> HIDE DEF incoming
  <1>3. /\ row.state \in {"cancelled", "permanent_failed"} => next = row.state
        /\ row.state \notin {"cancelled", "permanent_failed"} =>
             \/ incoming = "delayed" /\ next = row.state
             \/ next \in {"succeeded", "permanent_failed"}
                /\ (row.state = "succeeded" \/ row.state # next)
    BY Zenon DEF ReconcileDeliveryState, Reconcilable, TerminalStates
  <1> HIDE DEF next
  <1>4. row.state \in {"succeeded", "permanent_failed", "cancelled", "unknown", "processing",
                       "retryable_failed"}
    BY Zenon DEF Reconcilable, TerminalStates
  <1>5. next \in DeliveryStates
    BY <1>3, <1>4, ZenonT(30) DEF DeliveryStates, TerminalStates, NonterminalStates
  <1>6. Ends(row.state, next)
    BY <1>3, <1>4, ZenonT(30) DEF Ends, Reconcilable, TerminalStates, EndStates
  <1>7. next \notin TerminalStates => next = row.state /\ incoming = "delayed"
    BY <1>3, <1>4, Zenon DEF TerminalStates
  <1> QED  BY <1>1, <1>2, <1>5, <1>6, <1>7, ZenonT(30)

(* The outcome an event leaves. *)
LEMMA Outcomes ==
    ASSUME NEW before \in ProviderOutcomes, NEW incoming \in ProviderOutcomes
    PROVE  /\ ReconcileProviderOutcome(before, incoming) \in ProviderOutcomes
           /\ before \in {"none", "delayed"} /\ incoming = "delayed" =>
                ReconcileProviderOutcome(before, incoming) \in {"none", "delayed"}
  BY Zenon DEF ReconcileProviderOutcome

LEMMA ReconciledRow ==
    ASSUME NEW row \in Rows, NEW n \in Calls, NEW semantic \in Semantics,
           Reconcilable(row.state),
           row.state \notin TerminalStates => row.outcome \in {"none", "delayed"}
    PROVE  LET new == Reconciled(row, n, semantic) IN
           /\ new \in Rows /\ new.state = NextState(row, n, semantic)
           /\ new.rev = row.rev + 1 /\ new.count = row.count
           /\ new.state \notin TerminalStates => new.outcome \in {"none", "delayed"}
  <1> DEFINE b == Bumped(row)
             next == NextState(row, n, semantic)
             before == IF row.owner # 0 /\ ~SameOwner(row, n) THEN "none" ELSE row.outcome
             outcome == ReconcileProviderOutcome(before, SemanticOutcome[semantic])
             accepted == b.accepted \/ AcceptedEvidence(semantic)
             moved == [b EXCEPT !.state = next, !.owner = n, !.outcome = outcome,
                                !.accepted = accepted]
             lease == Released(moved.lease)
             ended == [moved EXCEPT !.lease = lease, !.exhausted = FALSE]
             new == Reconciled(row, n, semantic)
  <1>1. new = IF next \in {"processing", "retryable_failed"} THEN moved ELSE ended
    BY Zenon DEF Reconciled
  <1>2. /\ next \in DeliveryStates
        /\ next \notin TerminalStates => next = row.state /\ SemanticOutcome[semantic] = "delayed"
    BY NextStates, Zenon
  <1>3. b \in Rows /\ b.rev = row.rev + 1 /\ b.count = row.count
    BY BumpedRow, Zenon
  <1>4. before \in ProviderOutcomes /\ SemanticOutcome[semantic] \in ProviderOutcomes
    BY SemanticList, OutcomeList, ZenonT(30) DEF Rows
  <1>5. /\ outcome \in ProviderOutcomes
        /\ next \notin TerminalStates => outcome \in {"none", "delayed"}
    <2>1. next \notin TerminalStates => before \in {"none", "delayed"}
      BY <1>2, Zenon
    <2> HIDE DEF before, next
    <2> QED  BY <1>2, <1>4, <2>1, Outcomes, ZenonT(30)
  <1>6. accepted \in BOOLEAN
    BY Zenon
  <1>7. n \in 0 .. MaxProviderCalls
    BY StoreAssumption DEF Calls
  <1> HIDE DEF b, next, outcome, accepted
  <1>8. /\ moved \in Rows /\ moved.state = next /\ moved.rev = b.rev /\ moved.count = b.count
        /\ moved.outcome = outcome
    BY <1>2, <1>3, <1>5, <1>6, <1>7, Zenon DEF Rows
  <1> HIDE DEF moved
  <1>9. moved.lease \in Leases(Workers)
    BY <1>8, Zenon DEF Rows
  <1>10. lease \in Leases(Workers)
    BY <1>9, LeaseTypes, Zenon
  <1> HIDE DEF lease
  <1>11. /\ ended \in Rows /\ ended.state = moved.state /\ ended.rev = moved.rev
         /\ ended.count = moved.count /\ ended.outcome = moved.outcome
    BY <1>8, <1>10, Zenon DEF Rows
  <1> HIDE DEF ended, new
  <1>12. new = moved \/ new = ended
    BY <1>1, Zenon
  <1>13. /\ new \in Rows /\ new.state = next /\ new.rev = b.rev /\ new.count = b.count
         /\ new.outcome = outcome
    BY <1>8, <1>11, <1>12, ZenonT(30)
  <1>14. new.state \notin TerminalStates => new.outcome \in {"none", "delayed"}
    BY <1>5, <1>13, Zenon
  <1> QED  BY <1>3, <1>13, <1>14, ZenonT(30) DEF new, next

(* What a consumer that is not at rest carries. *)
LEMMA FeedbackHas ==
    ASSUME PipelineInv, NEW c \in Consumers, feedback[c].pc = "reconcile"
    PROVE  LET read == feedback[c] IN
           /\ read.event.d \in Deliveries /\ read.event.n \in Calls
           /\ read.event.semantic \in SesEvents /\ read.event.semantic \in Semantics
           /\ read.row \in Rows /\ read.dep \in Dependencies /\ read.rank \in 0 .. 3
           /\ delivery[read.event.d] \in Rows
           /\ Channel = "email" /\ Reconcilable(read.row.state)
           /\ Remembers(read.row, read.event.d)
           /\ read.event.n <= delivery[read.event.d].count
           /\ read.rank <= suppression[read.event.d[2]]
  <1>1. feedback[c] \in FeedbackStates /\ FeedbackSound(c) /\ delivery \in [Deliveries -> Rows]
    BY Zenon DEF PipelineInv, TypeInv
  <1>2. feedback[c] \in [pc : {"reconcile"}, event : SesReports, row : Rows,
                         attempt : AttemptRows, dep : Dependencies, rank : 0 .. 3]
    BY <1>1 DEF FeedbackStates, Resting
  <1>3. feedback[c].event \in SesReports /\ feedback[c].row \in Rows
    BY <1>2, Zenon
  <1>4. feedback[c].dep \in Dependencies /\ feedback[c].rank \in 0 .. 3
    BY <1>2, Zenon
  <1>5. feedback[c].event.d \in Deliveries /\ feedback[c].event.n \in Calls
        /\ feedback[c].event.semantic \in SesEvents
    BY <1>3, Zenon DEF SesReports
  <1> QED  BY <1>1, <1>3, <1>4, <1>5, FeedbackAssumption, ZenonT(30) DEF FeedbackSound

(* A fenced write never lowers a suppression, and leaves it as high as the  *)
(* event asks.                                                              *)
LEMMA SuppressionRises ==
    ASSUME PipelineInv, NEW c \in Consumers, feedback[c].pc = "reconcile", FeedbackHolds(c),
           suppression' = IF WritesSuppression(c)
                          THEN [suppression EXCEPT ![feedback[c].event.d[2]] =
                                  SuppressionRank(feedback[c].event.semantic)]
                          ELSE suppression
    PROVE  /\ suppression' \in [Recipients -> 0 .. 3]
           /\ \A r \in Recipients : suppression[r] <= suppression'[r]
           /\ SuppressionRank(feedback[c].event.semantic) <= suppression'[feedback[c].event.d[2]]
  <1> DEFINE read == feedback[c]
             a == read.event.d[2]
             rank == SuppressionRank(read.event.semantic)
  <1>1. /\ read.event.d \in Deliveries /\ read.event.semantic \in Semantics
        /\ read.rank \in 0 .. 3 /\ read.rank <= suppression[a]
    BY FeedbackHas, Zenon
  <1>2. a \in Recipients /\ rank \in 0 .. 3
    BY <1>1, PairRows, SemanticList, Zenon
  <1>3. suppression \in [Recipients -> 0 .. 3] /\ TypeInv
    BY Zenon DEF PipelineInv, TypeInv
  <1>4. \A r \in Recipients : suppression[r] \in Int
    BY <1>3, SMTT(30)
  <1>5. rank > read.rank => suppression[a] = read.rank
    BY Zenon DEF FeedbackHolds, WritesSuppression
  <1>6. suppression' = IF rank > read.rank THEN [suppression EXCEPT ![a] = rank] ELSE suppression
    BY Zenon DEF WritesSuppression
  <1>7. rank \in Int /\ read.rank \in Int /\ suppression[a] \in Int
    BY <1>1, <1>2, <1>4
  <1> HIDE DEF a, rank, read
  <1>8. suppression' \in [Recipients -> 0 .. 3]
    BY <1>2, <1>3, <1>6, SuppressionWritten, Zenon
  <1>9. \A r \in Recipients : suppression[r] <= suppression'[r]
    BY <1>2, <1>3, <1>4, <1>5, <1>6, <1>7, SMTT(30)
  <1>10. rank <= suppression'[a]
    BY <1>1, <1>2, <1>3, <1>6, <1>7
  <1> QED  BY <1>8, <1>9, <1>10, Zenon DEF a, rank, read

(* The events that suppress a destination, by their dedupe keys. *)
LEMMA SuppressingKeys ==
    ASSUME NEW semantic \in Semantics
    PROVE  /\ SemanticOutcome[semantic] = "hard_bounced" => SuppressionRank(semantic) = 2
           /\ SemanticOutcome[semantic] = "complained" => SuppressionRank(semantic) = 3
  BY DEF Semantics, SemanticOutcome, SuppressionRank

LEMMA AttemptReconciledType ==
    ASSUME NEW a \in AttemptRows, NEW semantic \in Semantics
    PROVE  AttemptReconciled(a, semantic) \in AttemptRows
  <1>1. NextAttemptOutcome(a.outcome, semantic) \in AttemptOutcomes
    BY Zenon DEF AttemptRows, NextAttemptOutcome, AttemptOutcomes
  <1>2. ReconcileProviderOutcome(a.provider, SemanticOutcome[semantic]) \in ProviderOutcomes
    BY SemanticList, Outcomes, ZenonT(30) DEF AttemptRows
  <1>3. (a.accepted \/ AcceptedEvidence(semantic)) \in BOOLEAN
    BY Zenon
  <1> QED  BY <1>1, <1>2, <1>3, ZenonT(30) DEF AttemptRows, AttemptReconciled

(* The row an event is applied to is the row it was read against. *)
LEMMA RowUnmoved ==
    ASSUME PipelineInv, NEW c \in Consumers, feedback[c].pc = "reconcile", FeedbackHolds(c)
    PROVE  LET read == feedback[c]
               row == delivery[read.event.d]
               n == read.event.n
               semantic == read.event.semantic
           IN /\ Reconcilable(row.state) /\ DependencyHolds(read.event.d, read.dep)
              /\ OwnsAggregate(row, n, semantic) =>
                   IF Unsettled(row.state)
                   THEN DependencyFits(read.event.d, NextState(row, n, semantic), read.dep)
                   ELSE read.dep.op = "none"
  <1> DEFINE read == feedback[c]
             row == delivery[read.event.d]
             n == read.event.n
             semantic == read.event.semantic
  <1>1. Remembers(read.row, read.event.d) /\ Reconcilable(read.row.state)
    BY FeedbackHas, Zenon
  <1>2. row.rev = read.row.rev /\ row.state = read.row.state
        /\ DependencyHolds(read.event.d, read.dep)
    BY Zenon DEF FeedbackHolds
  <1>3. Core(read.row) = Core(row)
    BY <1>1, <1>2, Zenon DEF Remembers
  <1>4. /\ read.row.state = row.state /\ read.row.count = row.count
        /\ read.row.owner = row.owner /\ read.row.outcome = row.outcome
        /\ read.row.accepted = row.accepted
    BY <1>3, Zenon DEF Core
  <1>5. /\ ~Unsettled(read.row.state) => read.dep.op = "none"
        /\ OwnsAggregate(read.row, n, semantic) /\ Unsettled(read.row.state) =>
             DependencyFits(read.event.d, NextState(read.row, n, semantic), read.dep)
    BY Zenon DEF PipelineInv, FeedbackSound
  <1> HIDE DEF row, read, n, semantic
  <1>6. OwnsAggregate(read.row, n, semantic) <=> OwnsAggregate(row, n, semantic)
    BY <1>4, Zenon DEF OwnsAggregate, SameOwner, LatestAttempt, AcceptedWithoutOwner
  <1>7. NextState(read.row, n, semantic) = NextState(row, n, semantic)
    BY <1>4, Zenon DEF NextState, AcceptedByAnother, SameOwner
  <1>8. IF Unsettled(row.state)
        THEN OwnsAggregate(row, n, semantic) =>
               DependencyFits(read.event.d, NextState(row, n, semantic), read.dep)
        ELSE read.dep.op = "none"
    BY <1>4, <1>5, <1>6, <1>7, ZenonT(30)
  <1>9. Reconcilable(row.state)
    BY <1>1, <1>4, Zenon
  <1> QED  BY <1>2, <1>8, <1>9, Zenon DEF row, read, n, semantic

LEMMA KeepsCommitFeedback ==
    ASSUME PipelineInv, NEW c \in Consumers, CommitFeedback(c), UNCHANGED relay
    PROVE  PipelineInv' /\ StoreMoves
  <1> DEFINE read == feedback[c]
             d == read.event.d
             n == read.event.n
             semantic == read.event.semantic
             row == delivery[d]
             key == DedupeKey(read.event)
  <1>1. /\ read.pc = "reconcile" /\ FeedbackHolds(c)
        /\ deduped' = deduped \cup {key}
        /\ attempt' = [attempt EXCEPT ![d][n] = AttemptReconciled(attempt[d][n], semantic)]
        /\ delivery' = IF OwnsAggregate(row, n, semantic)
                       THEN Settled(d, Reconciled(row, n, semantic), read.dep) ELSE delivery
        /\ suppression' = IF WritesSuppression(c)
                          THEN [suppression EXCEPT ![d[2]] = SuppressionRank(semantic)]
                          ELSE suppression
        /\ feedback' = [feedback EXCEPT ![c] = Resting]
        /\ UNCHANGED <<status, outbox, gate, queue, relay, worker, provider>>
    BY Zenon DEF CommitFeedback
  <1>2. /\ d \in Deliveries /\ n \in Calls /\ semantic \in Semantics /\ row \in Rows
        /\ read.dep \in Dependencies /\ Channel = "email" /\ n <= row.count
    BY <1>1, FeedbackHas, Zenon
  <1>3. /\ Reconcilable(row.state) /\ DependencyHolds(d, read.dep)
        /\ OwnsAggregate(row, n, semantic) =>
             IF Unsettled(row.state)
             THEN DependencyFits(d, NextState(row, n, semantic), read.dep)
             ELSE read.dep.op = "none"
    BY <1>1, RowUnmoved, ZenonT(30)
  <1>4. TypeInv /\ RowSound(d) /\ d[2] \in Recipients
    BY <1>2, PairRows, Zenon DEF PipelineInv
  <1>5. /\ suppression' \in [Recipients -> 0 .. 3]
        /\ \A r \in Recipients : suppression[r] <= suppression'[r]
        /\ SuppressionRank(semantic) <= suppression'[d[2]]
    BY <1>1, SuppressionRises, ZenonT(30)
  <1>6. key = <<d, n, SemanticOutcome[semantic]>>
    BY Zenon DEF DedupeKey
  <1> HIDE DEF d, n, semantic, row, key
  <1>7. /\ attempt' \in [Deliveries -> Seq(AttemptRows)]
        /\ \A x \in Deliveries : Len(attempt'[x]) = Len(attempt[x])
    <2>1. n \in 1 .. Len(attempt[d])
      <3>1. Len(attempt[d]) = row.count
        BY <1>4, Zenon DEF RowSound, row
      <3>2. row.count \in Int /\ n \in 1 .. MaxProviderCalls
        BY <1>2, RowFlags, ZenonT(30) DEF Calls
      <3> QED  BY <1>2, <3>1, <3>2
    <2>2. attempt[d][n] \in AttemptRows
      BY <1>2, <1>4, <2>1 DEF TypeInv
    <2>3. AttemptReconciled(attempt[d][n], semantic) \in AttemptRows
      BY <1>2, <2>2, AttemptReconciledType, Zenon
    <2> QED  BY <1>1, <1>2, <1>4, <2>1, <2>3, AttemptWritten, Zenon
  <1>8. ChannelKept
    BY <1>1, OutboxesSame, Zenon
  <1>9. /\ StoreMoves /\ delivery' \in [Deliveries -> Rows]
        /\ \A x \in Deliveries : delivery'[x].count = delivery[x].count
    <2>1. CASE OwnsAggregate(row, n, semantic)
      <3> DEFINE new == Reconciled(row, n, semantic)
      <3>1. /\ new \in Rows /\ new.state = NextState(row, n, semantic)
            /\ new.rev = row.rev + 1 /\ new.count = row.count
            /\ new.state \notin TerminalStates => new.outcome \in {"none", "delayed"}
        BY <1>2, <1>3, <1>4, ReconciledRow, ZenonT(30) DEF RowSound, row
      <3>2. Ends(row.state, new.state)
        BY <1>2, <1>3, <3>1, NextStates, ZenonT(30)
      <3>3. delivery' = Settled(d, new, read.dep)
        BY <1>1, <2>1, Zenon
      <3> HIDE DEF new
      <3>4. SettleMoves(d) /\ \A x \in Deliveries : delivery'[x].count = delivery[x].count
        BY <1>2, <1>3, <2>1, <3>1, <3>2, <3>3, SettledMoves, ZenonT(30) DEF row
      <3> QED  BY <1>2, <1>8, <3>4, Zenon DEF StoreMoves, SettleMoves
    <2>2. CASE ~OwnsAggregate(row, n, semantic)
      BY <1>1, <1>8, <2>2, DeliveriesSame, Zenon DEF StoreMoves
    <2> QED  BY <2>1, <2>2, Zenon
  <1>10. RestKept
    <2>1. AttemptsCounted
      BY <1>1, <1>7, <1>9, AttemptsKept, ZenonT(30)
    <2>2. SuppressionKept
      BY <1>5, Zenon DEF SuppressionKept
    <2>3. QueueKept
      BY <1>1, QueueSame, Zenon
    <2> QED  BY <1>1, <1>8, <2>1, <2>2, <2>3, GatesSame, ZenonT(30) DEF RestKept
  <1>11. deduped' \subseteq Deliveries \X Calls \X ProviderOutcomes
    BY <1>1, <1>2, <1>4, <1>6, SemanticList, SMTT(30) DEF TypeInv
  <1>12. SuppressionRecorded'
    <2>1. ASSUME NEW x \in deduped'
          PROVE  /\ x[3] = "hard_bounced" => suppression'[x[1][2]] >= 2
                 /\ x[3] = "complained" => suppression'[x[1][2]] >= 3
      <3>1. x[1] \in Deliveries
        BY <1>11, <2>1, Zenon
      <3>2. x[1][2] \in Recipients
        BY <3>1, PairRows, Zenon
      <3>3. suppression[x[1][2]] \in Int /\ suppression'[x[1][2]] \in Int
            /\ suppression[x[1][2]] <= suppression'[x[1][2]]
        BY <1>4, <1>5, <3>2, SMTT(30) DEF TypeInv
      <3>4. CASE x \in deduped
        <4>1. /\ x[3] = "hard_bounced" => suppression[x[1][2]] >= 2
              /\ x[3] = "complained" => suppression[x[1][2]] >= 3
          BY <3>4, Zenon DEF PipelineInv, SuppressionRecorded
        <4> QED  BY <3>3, <4>1
      <3>5. CASE x = key
        <4>1. x[1] = d /\ x[3] = SemanticOutcome[semantic]
          BY <1>6, <3>5, Zenon
        <4>2. /\ x[3] = "hard_bounced" => SuppressionRank(semantic) = 2
              /\ x[3] = "complained" => SuppressionRank(semantic) = 3
          BY <1>2, <4>1, SuppressingKeys, Zenon
        <4> QED  BY <1>5, <3>3, <4>1, <4>2, Zenon
      <3> QED  BY <1>1, <2>1, <3>4, <3>5, ZenonT(30)
    <2> QED  BY <2>1, Zenon DEF SuppressionRecorded
  <1>13. (deduped # {} => Channel = "email")'
    BY <1>2, <1>8, Zenon DEF ChannelKept
  <1> QED  BY <1>1, <1>5, <1>7, <1>9, <1>10, <1>11, <1>12, <1>13, ConsumerAtRest, FeedbackAct, ZenonT(30)
-----------------------------------------------------------------------------
(* The steps of the relay, of the feedback consumers and of people. *)
LEMMA KeepsRelay ==
    ASSUME PipelineInv, RelayStep
    PROVE  PipelineInv' /\ StoreMoves
  <1>1. RelayNext /\ UNCHANGED <<worker, provider, feedback, deduped>>
    BY Zenon DEF RelayStep
  <1>2. ASSUME NEW p \in Relays, \E k \in Kinds : ClaimOutbox(p, k)
        PROVE  PipelineInv' /\ StoreMoves
    BY <1>1, <1>2, KeepsClaimOutbox, Zenon
  <1>3. ASSUME NEW p \in Relays, \E d \in Deliveries : ClaimDelivery(p, d)
        PROVE  PipelineInv' /\ StoreMoves
    BY <1>1, <1>3, KeepsClaimDelivery, Zenon
  <1>4. ASSUME NEW p \in Relays, RelayWork(p) PROVE PipelineInv' /\ StoreMoves
    BY <1>1, <1>4, KeepsPlanOpening, KeepsPlanRecovery, KeepsGivingUp, KeepsCommitPage,
       KeepsRescheduleOutbox, KeepsPublish, KeepsMarkQueued, Zenon DEF RelayWork
  <1>5. ASSUME NEW p \in Relays, PublishFails(p) \/ RelayCrash(p)
        PROVE  PipelineInv' /\ StoreMoves
    BY <1>1, <1>5, KeepsPublishFails, KeepsRelayCrash, Zenon
  <1>6. ASSUME \E k \in Kinds : ExpireOutboxLease(k) PROVE PipelineInv' /\ StoreMoves
    BY <1>1, <1>6, KeepsExpireOutboxLease, Zenon
  <1>7. ASSUME NEW d \in Deliveries, ExpireRelayLease(d) PROVE PipelineInv' /\ StoreMoves
    <2>1. relay' = relay
      BY <1>7, ZenonT(30) DEF ExpireRelayLease
    <2> QED  BY <1>1, <1>7, <2>1, KeepsLapse, ZenonT(30)
  <1> QED  BY <1>1, <1>2, <1>3, <1>4, <1>5, <1>6, <1>7, Zenon DEF RelayNext

LEMMA KeepsFeedback ==
    ASSUME PipelineInv, NEW c \in Consumers, FeedbackStep(c)
    PROVE  PipelineInv' /\ StoreMoves
  BY KeepsReadFeedback, KeepsCommitFeedback, KeepsFeedbackConflict, Zenon
  DEF FeedbackStep, FeedbackNext

LEMMA KeepsEnvironment ==
    ASSUME PipelineInv, EnvironmentStep
    PROVE  PipelineInv' /\ StoreMoves
  BY KeepsResolve, KeepsChangeGate, Zenon DEF EnvironmentStep
-----------------------------------------------------------------------------
Providers == [calls : Nat, accepted : SUBSET Calls, misread : SUBSET Calls]

(* A handler's step keeps the invariant if it keeps the store sound and the *)
(* handler goes on to a sound place.                                        *)
LEMMA WorkerAct ==
    ASSUME PipelineInv, NEW w \in Workers, NEW value \in WorkerStates, Become(w, value),
           UNCHANGED <<status, outbox, gate, relay, feedback, deduped>>,
           delivery' \in [Deliveries -> Rows], attempt' \in [Deliveries -> Seq(AttemptRows)],
           suppression' \in [Recipients -> 0 .. 3], queue' \subseteq Deliveries,
           provider' \in [Deliveries -> Providers], RestKept, StoreMoves,
           worker'[w] = value => WorkerSound(w)'
    PROVE  PipelineInv'
  <1>1. worker \in [Workers -> WorkerStates] /\ worker' = [worker EXCEPT ![w] = value]
    BY Zenon DEF PipelineInv, TypeInv, Become
  <1>2. worker' \in [Workers -> WorkerStates] /\ worker'[w] = value
    BY <1>1, Zenon
  <1>3. TypeInv'
    BY <1>2, Zenon DEF PipelineInv, TypeInv, Providers
  <1>4. \A x \in Workers : worker'[x] = worker[x] \/ WorkerSound(x)'
    <2>1. \A x \in Workers : x # w => worker'[x] = worker[x]
      BY <1>1, Zenon
    <2>2. WorkerSound(w)'
      BY <1>2, Zenon
    <2> QED  BY <2>1, <2>2, Zenon
  <1>5. StoreKept
    BY MovesStore, Zenon
  <1>6. SuppressionRecorded' /\ (deduped # {} => Channel = "email")'
    BY <1>3, <1>5, RecordedKept, Zenon DEF PipelineInv, StoreKept
  <1> QED  BY <1>3, <1>4, <1>5, <1>6, InvKept, ZenonT(30)

(* What a handler relies on holds as long as nothing is written. *)
LEMMA PlaceKept ==
    ASSUME NEW x, PlaceSound(x), UNCHANGED <<delivery, gate, outbox>>
    PROVE  PlaceSound(x)'
  <1>1. /\ \A old, d : Remembers(old, d)' = Remembers(old, d)
        /\ \A d, fence : FenceSound(d, fence)' = FenceSound(d, fence)
        /\ \A d, next, dep : DependencyFits(d, next, dep)' = DependencyFits(d, next, dep)
    BY SMTT(30) DEF Remembers, FenceSound, DependencyFits, Settles, Recovery, Core, Channel
  <1> QED  BY <1>1, Zenon DEF PlaceSound

LEMMA AtRest ==
    /\ Resting \in WorkerStates /\ PlaceSound(Resting)
    /\ \A w : worker'[w] = Resting => WorkerSound(w)'
  BY DEF WorkerStates, WorkerSound, PlaceSound, Resting

(* A handler that reads, or only deletes a job. *)
LEMMA WorkerThinks ==
    ASSUME PipelineInv, NEW w \in Workers, NEW value \in WorkerStates, Become(w, value),
           UNCHANGED <<status, outbox, delivery, attempt, gate, suppression, provider>>,
           UNCHANGED <<relay, feedback, deduped>>,
           QueueKept, queue' \subseteq Deliveries, PlaceSound(value)
    PROVE  PipelineInv' /\ StoreMoves
  <1>1. ChannelKept
    BY OutboxesSame, Zenon
  <1>2. StoreMoves
    BY <1>1, Zenon DEF StoreMoves
  <1>3. RestKept
    BY <1>1, DeliveriesSame, AttemptsSame, GatesSame, SuppressionsSame, ZenonT(30) DEF RestKept
  <1>4. worker'[w] = value => WorkerSound(w)'
    BY PlaceKept, Zenon DEF WorkerSound
  <1>5. /\ delivery' \in [Deliveries -> Rows] /\ attempt' \in [Deliveries -> Seq(AttemptRows)]
        /\ suppression' \in [Recipients -> 0 .. 3] /\ provider' \in [Deliveries -> Providers]
    BY Zenon DEF PipelineInv, TypeInv, Providers
  <1> QED  BY <1>2, <1>3, <1>4, <1>5, WorkerAct, ZenonT(30)

(* Deleting the job of a delivery that is finished. *)
LEMMA JobDeleted ==
    ASSUME PipelineInv, NEW d \in Deliveries, Delete(d), delivery'[d].state \in TerminalStates
    PROVE  QueueKept /\ queue' \subseteq Deliveries
  BY Zenon DEF PipelineInv, TypeInv, QueueKept, Delete

(* What a handler that is not idle carries. *)
LEMMA WorkerHas ==
    ASSUME PipelineInv, NEW w \in Workers, worker[w].pc # "idle"
    PROVE  /\ worker[w] \in WorkerStates /\ PlaceSound(worker[w])
           /\ worker[w].d \in Deliveries /\ worker[w].record \in Rows
           /\ delivery[worker[w].d] \in Rows
           /\ worker[w].record.state = "processing"
           /\ Remembers(worker[w].record, worker[w].d)
  <1>1. worker[w] \in WorkerStates /\ delivery \in [Deliveries -> Rows] /\ PlaceSound(worker[w])
    BY Zenon DEF PipelineInv, TypeInv, WorkerSound
  <1>2. worker[w].d \in Deliveries /\ worker[w].record \in Rows
    BY <1>1, WorkerFields, Zenon
  <1> QED  BY <1>1, <1>2, Zenon DEF PlaceSound

(* A claim that is still held is on the row that was read. *)
LEMMA ClaimHeld ==
    ASSUME PipelineInv, NEW w \in Workers, worker[w].pc # "idle", HoldsClaim(w)
    PROVE  /\ delivery[worker[w].d].state = "processing"
           /\ Core(worker[w].record) = Core(delivery[worker[w].d])
  BY WorkerHas, Zenon DEF HoldsClaim, Remembers

(* A handler about to write a completion. *)
LEMMA FinishSound ==
    ASSUME PipelineInv, NEW w \in Workers, worker[w].pc # "idle",
           NEW by \in {"attempt", "preflight", "cancel"}, NEW completion \in Completions,
           NEW merge \in BOOLEAN, NEW retry \in BOOLEAN,
           NEW record \in Rows, record.state = "processing", Remembers(record, worker[w].d),
           by = "attempt" => record.count > 0 /\ completion.outcome # "none"
    PROVE  LET value == [pc |-> "finish", d |-> worker[w].d, record |-> record, by |-> by,
                         completion |-> completion, merge |-> merge, retry |-> retry]
           IN value \in WorkerStates /\ PlaceSound(value)
  <1> DEFINE value == [pc |-> "finish", d |-> worker[w].d, record |-> record, by |-> by,
                       completion |-> completion, merge |-> merge, retry |-> retry]
  <1>1. worker[w].d \in Deliveries
    BY WorkerHas, Zenon
  <1>2. value \in WorkerStates
    BY <1>1, Zenon DEF WorkerStates
  <1>3. PlaceSound(value)
    BY Zenon DEF PlaceSound
  <1> QED  BY <1>2, <1>3, Zenon

(* The completions a handler plans are completions. *)
LEMMA PlanTypes ==
    ASSUME NEW possibly \in BOOLEAN, NEW last \in BOOLEAN, NEW channel
    PROVE  /\ PlanAmbiguous(channel, last) \in Completions
           /\ PlanAmbiguous(channel, last).outcome = "ambiguous"
           /\ PlanPermanent("none", possibly) \in Completions
           /\ PlanFatal("none", possibly) \in Completions
           /\ \A exhausted \in BOOLEAN :
                Completion("none", "cancelled", possibly, exhausted) \in Completions
           /\ \A result \in SendResults :
                /\ PlanResult(result, channel, possibly, last) \in Completions
                /\ PlanResult(result, channel, possibly, last).outcome # "none"
  <1>1. \A outcome \in (AttemptOutcomes \ {"started"}) \cup {"none"}, next \in EndStates,
           p \in BOOLEAN, x \in BOOLEAN :
             (outcome = "succeeded" => next = "succeeded") =>
               /\ Completion(outcome, next, p, x) \in Completions
               /\ Completion(outcome, next, p, x).outcome = outcome
    BY ZenonT(30) DEF Completion, Completions
  <1>2. /\ {"none", "succeeded", "retryable", "ambiguous", "permanent_failed"}
             \subseteq (AttemptOutcomes \ {"started"}) \cup {"none"}
        /\ {"succeeded", "permanent_failed", "cancelled", "unknown", "retryable_failed"}
             \subseteq EndStates
    BY Zenon DEF AttemptOutcomes, EndStates
  <1>3. /\ PlanAmbiguous(channel, last) \in Completions
        /\ PlanAmbiguous(channel, last).outcome = "ambiguous"
    <2>1. /\ "ambiguous" \in (AttemptOutcomes \ {"started"}) \cup {"none"}
          /\ "unknown" \in EndStates /\ "retryable_failed" \in EndStates
      BY <1>2, Zenon
    <2>2. "ambiguous" # "succeeded" /\ TRUE \in BOOLEAN
      BY Zenon
    <2>3. ASSUME NEW x \in BOOLEAN
          PROVE  /\ Completion("ambiguous", "unknown", TRUE, x) \in Completions
                 /\ Completion("ambiguous", "unknown", TRUE, x).outcome = "ambiguous"
                 /\ Completion("ambiguous", "retryable_failed", TRUE, x) \in Completions
                 /\ Completion("ambiguous", "retryable_failed", TRUE, x).outcome = "ambiguous"
      BY <1>1, <2>1, <2>2, Zenon
    <2> QED  BY <2>2, <2>3, Zenon DEF PlanAmbiguous
  <1>4. \A outcome \in {"none", "retryable", "permanent_failed"} :
          /\ PlanPermanent(outcome, possibly) \in Completions
          /\ PlanPermanent(outcome, possibly).outcome = outcome
          /\ PlanFatal(outcome, possibly) \in Completions
          /\ PlanFatal(outcome, possibly).outcome = outcome
    BY <1>1, <1>2, ZenonT(30) DEF PlanPermanent, PlanFatal
  <1>5. /\ PlanRetryable(possibly, last) \in Completions
        /\ PlanRetryable(possibly, last).outcome = "retryable"
    <2>1. CASE ~last
      BY <1>1, <1>2, <2>1, Zenon DEF PlanRetryable
    <2>2. CASE last /\ possibly
      BY <1>1, <1>2, <2>2, Zenon DEF PlanRetryable
    <2>3. CASE last /\ ~possibly
      BY <1>1, <1>2, <2>3, Zenon DEF PlanRetryable
    <2> QED  BY <2>1, <2>2, <2>3, Zenon
  <1>6. Completion("succeeded", "succeeded", possibly, FALSE) \in Completions
        /\ Completion("succeeded", "succeeded", possibly, FALSE).outcome = "succeeded"
    BY <1>1, <1>2, ZenonT(30)
  <1>7. ASSUME NEW result \in SendResults
        PROVE  /\ PlanResult(result, channel, possibly, last) \in Completions
               /\ PlanResult(result, channel, possibly, last).outcome # "none"
    <2>1. CASE result = "accepted"
      BY <1>6, <2>1, Zenon DEF PlanResult
    <2>2. CASE result = "permanent"
      BY <1>4, <2>2, Zenon DEF PlanResult
    <2>3. CASE result = "fatal"
      BY <1>4, <2>3, Zenon DEF PlanResult
    <2>4. CASE result = "retryable"
      BY <1>5, <2>4, Zenon DEF PlanResult
    <2>5. CASE result = "ambiguous"
      BY <1>3, <2>5, ZenonT(30) DEF PlanResult
    <2> QED  BY <2>1, <2>2, <2>3, <2>4, <2>5, ZenonT(30) DEF SendResults
  <1>8. \A exhausted \in BOOLEAN :
          Completion("none", "cancelled", possibly, exhausted) \in Completions
    BY <1>1, <1>2, ZenonT(30)
  <1> QED  BY <1>3, <1>4, <1>7, <1>8, ZenonT(30)

LEMMA KeepsFinish ==
    ASSUME PipelineInv, NEW w \in Workers, worker[w].pc # "idle",
           NEW by \in {"attempt", "preflight", "cancel"}, NEW completion \in Completions,
           by = "attempt" => worker[w].record.count > 0 /\ completion.outcome # "none",
           Finish(w, by, worker[w].record, completion),
           UNCHANGED <<status, outbox, delivery, attempt, gate, suppression, queue, provider>>,
           UNCHANGED <<relay, feedback, deduped>>
    PROVE  PipelineInv' /\ StoreMoves
  <1> DEFINE value == [pc |-> "finish", d |-> worker[w].d, record |-> worker[w].record, by |-> by,
                       completion |-> completion, merge |-> by = "attempt",
                       retry |-> by = "attempt"]
  <1>1. Become(w, value)
    BY Zenon DEF Finish
  <1>2. value \in WorkerStates /\ PlaceSound(value)
    <2>1. (by = "attempt") \in BOOLEAN
      BY Zenon
    <2> QED  BY <2>1, WorkerHas, FinishSound, Zenon
  <1> HIDE DEF value
  <1> QED  BY <1>1, <1>2, QueueSame, WorkerThinks, ZenonT(30)

LEMMA KeepsDeciding ==
    ASSUME PipelineInv, NEW w \in Workers,
           CompleteInterrupted(w) \/ CallLimit(w) \/ GatesDeny(w) \/ PreflightFails(w),
           UNCHANGED <<relay, feedback, deduped>>
    PROVE  PipelineInv' /\ StoreMoves
  <1> DEFINE record == worker[w].record
  <1>1. /\ worker[w].pc \in {"interrupted", "ready", "limited"}
        /\ UNCHANGED <<status, outbox, delivery, attempt, gate, suppression, queue, provider>>
    BY Zenon DEF CompleteInterrupted, CallLimit, GatesDeny, PreflightFails, At, Ready, storeVars
  <1>2. worker[w].pc # "idle" /\ record \in Rows
    BY <1>1, WorkerHas, Zenon
  <1>3. record.possibly \in BOOLEAN /\ record.exhausted \in BOOLEAN /\ LastCall(record) \in BOOLEAN
    BY <1>2, RowFlags, Zenon
  <1>4. CASE CompleteInterrupted(w)
    <2> DEFINE plan == PlanAmbiguous(Channel, LastCall(record))
    <2>1. Finish(w, "attempt", record, plan) /\ worker[w].pc = "interrupted"
      BY <1>4, Zenon DEF CompleteInterrupted, At
    <2>2. plan \in Completions /\ plan.outcome # "none"
      BY <1>3, PlanTypes, Zenon
    <2>3. record.count > 0
      BY <1>2, <2>1, WorkerHas, ZenonT(30) DEF PlaceSound
    <2> HIDE DEF plan
    <2> QED  BY <1>1, <1>2, <2>1, <2>2, <2>3, KeepsFinish, ZenonT(30)
  <1>5. CASE CallLimit(w) \/ PreflightFails(w)
    <2>1. PICK plan \in {PlanPermanent("none", record.possibly), PlanFatal("none", record.possibly)} :
            Finish(w, "preflight", record, plan)
      BY <1>5, Zenon DEF CallLimit, PreflightFails
    <2>2. plan \in Completions
      BY <1>3, PlanTypes, Zenon
    <2> QED  BY <1>1, <1>2, <2>1, <2>2, KeepsFinish, ZenonT(30)
  <1>6. CASE GatesDeny(w)
    <2> DEFINE plan == Completion("none", "cancelled", record.possibly, record.exhausted)
    <2>1. Finish(w, "cancel", record, plan)
      BY <1>6, Zenon DEF GatesDeny
    <2>2. plan \in Completions
      BY <1>3, PlanTypes, Zenon
    <2> HIDE DEF plan
    <2> QED  BY <1>1, <1>2, <2>1, <2>2, KeepsFinish, Zenon
  <1> QED  BY <1>4, <1>5, <1>6, Zenon

(* A handler that moves on with what it holds. *)
LEMMA MovesOn ==
    ASSUME PipelineInv, NEW w \in Workers,
           worker[w].pc \in {"claimed", "ready"}, NEW pc \in {"ready", "limited"},
           pc = "limited" => ~CallsOver(worker[w].record) /\ ~LastCall(worker[w].record)
    PROVE  [worker[w] EXCEPT !.pc = pc] \in WorkerStates
           /\ PlaceSound([worker[w] EXCEPT !.pc = pc])
  <1> DEFINE value == [pc |-> pc, d |-> worker[w].d, record |-> worker[w].record]
  <1>1. /\ worker[w] \in WorkerStates /\ PlaceSound(worker[w])
        /\ worker[w].d \in Deliveries /\ worker[w].record \in Rows
    BY WorkerHas, Zenon
  <1>2. worker[w] \in [pc : {"interrupted", "claimed", "ready", "limited", "begun"},
                       d : Deliveries, record : Rows]
    BY <1>1 DEF WorkerStates, Resting
  <1>3. [worker[w] EXCEPT !.pc = pc] = value
    BY <1>2, SMTT(30)
  <1>4. value \in WorkerStates
    BY <1>1, Zenon DEF WorkerStates
  <1>5. PlaceSound(value)
    BY <1>1, Zenon DEF PlaceSound
  <1> QED  BY <1>3, <1>4, <1>5, Zenon

LEMMA KeepsRefresh ==
    ASSUME PipelineInv, NEW w \in Workers, Refresh(w), UNCHANGED <<relay, feedback, deduped>>
    PROVE  PipelineInv' /\ StoreMoves
  <1> DEFINE d == worker[w].d
             ready == [worker[w] EXCEPT !.pc = "ready"]
  <1>1. /\ worker[w].pc = "claimed"
        /\ UNCHANGED <<status, outbox, delivery, attempt, gate, suppression, provider>>
        /\ \/ delivery[d].state \in TerminalStates /\ Delete(d) /\ Become(w, Resting)
           \/ UNCHANGED queue /\ Become(w, ready)
           \/ UNCHANGED queue /\ Become(w, Resting)
    BY Zenon DEF Refresh, At
  <1>2. d \in Deliveries
    BY <1>1, WorkerHas, ZenonT(30)
  <1>3. ready \in WorkerStates /\ PlaceSound(ready)
    BY <1>1, MovesOn, Zenon
  <1> HIDE DEF d, ready
  <1>4. QueueKept /\ queue' \subseteq Deliveries
    BY <1>1, <1>2, QueueSame, JobDeleted, ZenonT(30)
  <1> QED  BY <1>1, <1>3, <1>4, AtRest, WorkerThinks, ZenonT(30)

(* A gate check that passes is fenced by what it read. *)
LEMMA FenceRead ==
    ASSUME TypeInv, NEW d \in Deliveries, Authorised(d)
    PROVE  Fence(d) \in Fences /\ FenceSound(d, Fence(d))
  <1>1. d[2] \in Recipients /\ gate[d[2]].version \in Nat
    BY PairRows, Zenon DEF TypeInv
  <1>2. Fence(d) \in Fences
    BY <1>1 DEF Fence, Fences, Suppressed
  <1>3. /\ Fence(d).version = gate[d[2]].version /\ ~Fence(d).suppressed
        /\ gate[d[2]].member /\ gate[d[2]].preference
    BY Zenon DEF Fence, Authorised
  <1>4. Channel = "telegram" => (d[1] = "recovery" <=> Fence(d).resolved)
    <2>1. Fence(d).resolved <=> Channel = "telegram" /\ status = "resolved"
      BY ZenonT(30) DEF Fence
    <2> QED  BY <2>1, Zenon DEF Authorised
  <1> QED  BY <1>1, <1>2, <1>3, <1>4, SMTT(30) DEF FenceSound

LEMMA KeepsGatesAllow ==
    ASSUME PipelineInv, NEW w \in Workers, GatesAllow(w), UNCHANGED <<relay, feedback, deduped>>
    PROVE  PipelineInv' /\ StoreMoves
  <1>1. /\ UNCHANGED <<status, outbox, delivery, attempt, gate, suppression, provider>>
        /\ queue' = queue /\ Authorised(worker[w].d)
        /\ worker[w].pc \in {"ready", "limited"}
    BY Zenon DEF GatesAllow, At, Ready, storeVars
  <1>2. CASE worker[w].pc = "ready"
    <2>1. /\ Become(w, [worker[w] EXCEPT !.pc = "limited"])
          /\ ~CallsOver(worker[w].record) /\ ~LastCall(worker[w].record)
      BY <1>2, Zenon DEF GatesAllow, At, Ready
    <2>2. /\ [worker[w] EXCEPT !.pc = "limited"] \in WorkerStates
          /\ PlaceSound([worker[w] EXCEPT !.pc = "limited"])
      BY <1>2, <2>1, MovesOn, Zenon
    <2> QED  BY <1>1, <2>1, <2>2, QueueSame, WorkerThinks, ZenonT(30)
  <1>3. CASE worker[w].pc = "limited"
    <2> DEFINE value == [pc |-> "fenced", d |-> worker[w].d, record |-> worker[w].record,
                         fence |-> Fence(worker[w].d)]
    <2>1. Become(w, value)
      BY <1>3, Zenon DEF GatesAllow, At
    <2>2. /\ PlaceSound(worker[w]) /\ worker[w].d \in Deliveries /\ worker[w].record \in Rows
      BY <1>3, WorkerHas, Zenon
    <2>3. Fence(worker[w].d) \in Fences /\ FenceSound(worker[w].d, Fence(worker[w].d))
      BY <1>1, <2>2, FenceRead, ZenonT(30) DEF PipelineInv
    <2>4. value \in WorkerStates
      BY <2>2, <2>3, Zenon DEF WorkerStates
    <2>5. PlaceSound(value)
      BY <1>3, <2>2, <2>3, Zenon DEF PlaceSound
    <2> HIDE DEF value
    <2> QED  BY <1>1, <2>1, <2>4, <2>5, QueueSame, WorkerThinks, ZenonT(30)
  <1> QED  BY <1>1, <1>2, <1>3, Zenon

(* A handler that rewrites its delivery's row and counts no attempt. *)
LEMMA WorkerWrites ==
    ASSUME PipelineInv, NEW w \in Workers, NEW value \in WorkerStates, Become(w, value),
           NEW d, RowMoves(d), delivery'[d].count = delivery[d].count,
           UNCHANGED <<status, outbox, attempt, gate, suppression, provider>>,
           UNCHANGED <<relay, feedback, deduped>>,
           QueueKept, queue' \subseteq Deliveries, worker'[w] = value => WorkerSound(w)'
    PROVE  PipelineInv' /\ StoreMoves
  <1>1. ChannelKept
    BY OutboxesSame, Zenon
  <1>2. d \in Deliveries /\ OnlyRow(d)
    BY Zenon DEF RowMoves, OnlyRow
  <1>3. StoreMoves
    BY <1>1, <1>2, Zenon DEF StoreMoves
  <1>4. /\ delivery' \in [Deliveries -> Rows]
        /\ \A x \in Deliveries : delivery'[x].count = delivery[x].count
    BY <1>2, Zenon DEF OnlyRow
  <1>5. RestKept
    BY <1>1, <1>4, AttemptsSame, GatesSame, SuppressionsSame, ZenonT(30) DEF RestKept
  <1>6. /\ attempt' \in [Deliveries -> Seq(AttemptRows)]
        /\ suppression' \in [Recipients -> 0 .. 3] /\ provider' \in [Deliveries -> Providers]
    BY Zenon DEF PipelineInv, TypeInv, Providers
  <1> QED  BY <1>3, <1>4, <1>5, <1>6, WorkerAct, ZenonT(30)

LEMMA KeepsClaim ==
    ASSUME PipelineInv, NEW w \in Workers, NEW d \in Deliveries, Claim(w, d),
           UNCHANGED <<relay, feedback, deduped>>
    PROVE  PipelineInv' /\ StoreMoves
  <1> DEFINE claimed == [Bumped(delivery[d]) EXCEPT
                           !.state = "processing",
                           !.lease = [owner |-> w, epoch |-> @.epoch + 1, live |-> TRUE]]
             started == /\ delivery[d].state = "processing" /\ delivery[d].count > 0
                        /\ LastOutcome(d) = "started"
             pc == CASE started -> "interrupted"
                     [] ~started /\ Uncertain(claimed) -> "claimed"
                     [] OTHER -> "ready"
             value == [pc |-> pc, d |-> d, record |-> claimed]
  <1>1. /\ Claimable(d) /\ Become(w, value) /\ delivery' = [delivery EXCEPT ![d] = claimed]
        /\ UNCHANGED <<status, outbox, attempt, gate, suppression, queue, provider>>
    BY Zenon DEF Claim
  <1>2. pc \in {"interrupted", "claimed", "ready"} /\ (pc = "interrupted" => delivery[d].count > 0)
    <2>1. CASE started
      <3>1. pc = "interrupted"
        BY <2>1, Zenon
      <3> QED  BY <2>1, <3>1, ZenonT(30)
    <2>2. CASE ~started /\ Uncertain(claimed)
      BY <2>2, Zenon
    <2>3. CASE ~started /\ ~Uncertain(claimed)
      BY <2>3, Zenon
    <2> QED  BY <2>1, <2>2, <2>3, Zenon
  <1>3. TypeInv /\ delivery[d] \in Rows
    BY Zenon DEF PipelineInv, TypeInv
  <1>4. /\ claimed \in Rows /\ claimed.state = "processing"
        /\ claimed.rev = delivery[d].rev + 1 /\ claimed.count = delivery[d].count
        /\ claimed.outcome = delivery[d].outcome
    BY <1>3, ClaimedRow, Zenon
  <1>5. delivery[d].state \in Unfinished
    BY <1>1, Zenon DEF Claimable, Unfinished
  <1> HIDE DEF pc, claimed
  <1>6. value \in WorkerStates
    BY <1>2, <1>4, ZenonT(30) DEF WorkerStates
  <1>7. OnlyRow(d) /\ delivery'[d] = claimed
    BY <1>1, <1>3, <1>4, RowWritten, ZenonT(30)
  <1>8. RowMoves(d) /\ delivery'[d].count = delivery[d].count
    BY <1>4, <1>5, <1>7, Zenon DEF RowMoves
  <1>9. worker'[w] = value => WorkerSound(w)'
    <2> HAVE worker'[w] = value
    <2>1. worker'[w].pc = pc /\ worker'[w].d = d /\ worker'[w].record = claimed
      OBVIOUS
    <2> HIDE DEF value
    <2>2. Remembers(worker[w].record, worker[w].d)'
      BY <1>4, <1>7, <2>1, RowFlags, SMTT(30) DEF Remembers, Unstarted
    <2> QED  BY <1>2, <1>4, <2>1, <2>2, ZenonT(30) DEF WorkerSound, PlaceSound
  <1> HIDE DEF value
  <1> QED  BY <1>1, <1>6, <1>8, <1>9, QueueSame, WorkerWrites, ZenonT(30)

LEMMA KeepsFinalizeUnknown ==
    ASSUME PipelineInv, NEW w \in Workers, FinalizeUnknown(w),
           UNCHANGED <<relay, feedback, deduped>>
    PROVE  PipelineInv' /\ StoreMoves
  <1> DEFINE d == worker[w].d
             new == Unknown(delivery[d])
  <1>1. /\ worker[w].pc = "ready" /\ Become(w, Resting)
        /\ UNCHANGED <<status, outbox, attempt, gate, suppression, provider>>
        /\ IF HoldsClaim(w)
           THEN delivery' = [delivery EXCEPT ![d] = new] /\ Delete(d)
           ELSE UNCHANGED <<delivery, queue>>
    BY Zenon DEF FinalizeUnknown, At
  <1>2. d \in Deliveries /\ delivery[d] \in Rows /\ TypeInv
    BY <1>1, WorkerHas, Zenon DEF PipelineInv
  <1>3. HoldsClaim(w) => delivery[d].state = "processing"
    BY Zenon DEF HoldsClaim
  <1>4. /\ new \in Rows /\ new.state = "unknown" /\ new.rev = delivery[d].rev + 1
        /\ new.count = delivery[d].count /\ new.outcome = delivery[d].outcome
    BY <1>2, UnknownRow, Zenon
  <1> HIDE DEF d, new
  <1>5. CASE ~HoldsClaim(w)
    BY <1>1, <1>5, AtRest, QueueSame, WorkerThinks, ZenonT(30)
  <1>6. CASE HoldsClaim(w)
    <2>1. OnlyRow(d) /\ delivery'[d] = new
      BY <1>1, <1>2, <1>4, <1>6, RowWritten, Zenon
    <2>2. RowMoves(d) /\ delivery'[d].count = delivery[d].count
      BY <1>3, <1>4, <1>6, <2>1, ZenonT(30) DEF RowMoves
    <2>3. delivery'[d].state \in TerminalStates
      BY <1>4, <2>1, Zenon DEF TerminalStates
    <2>4. QueueKept /\ queue' \subseteq Deliveries
      BY <1>1, <1>2, <1>6, <2>3, JobDeleted, ZenonT(30)
    <2> QED  BY <1>1, <2>2, <2>4, AtRest, WorkerWrites, ZenonT(30)
  <1> QED  BY <1>5, <1>6, Zenon

LEMMA KeepsDeferClaim ==
    ASSUME PipelineInv, NEW w \in Workers, DeferClaim(w), UNCHANGED <<relay, feedback, deduped>>
    PROVE  PipelineInv' /\ StoreMoves
  <1> DEFINE d == worker[w].d
             new == Deferred(delivery[d])
  <1>1. /\ worker[w].pc # "idle" /\ Become(w, Resting)
        /\ UNCHANGED <<status, outbox, attempt, gate, suppression, queue, provider>>
        /\ delivery' = IF HoldsClaim(w) THEN [delivery EXCEPT ![d] = new] ELSE delivery
    BY Zenon DEF DeferClaim, At, Ready
  <1>2. d \in Deliveries /\ delivery[d] \in Rows /\ TypeInv
    BY <1>1, WorkerHas, Zenon DEF PipelineInv
  <1>3. HoldsClaim(w) => delivery[d].state = "processing"
    BY Zenon DEF HoldsClaim
  <1>4. /\ new \in Rows /\ new.state = "retryable_failed" /\ new.rev = delivery[d].rev + 1
        /\ new.count = delivery[d].count /\ new.outcome = delivery[d].outcome
    BY <1>2, DeferredRow, Zenon
  <1> HIDE DEF d, new
  <1>5. CASE ~HoldsClaim(w)
    BY <1>1, <1>5, AtRest, QueueSame, WorkerThinks, ZenonT(30)
  <1>6. CASE HoldsClaim(w)
    <2>1. OnlyRow(d) /\ delivery'[d] = new
      BY <1>1, <1>2, <1>4, <1>6, RowWritten, ZenonT(30)
    <2>2. RowMoves(d) /\ delivery'[d].count = delivery[d].count
      BY <1>3, <1>4, <1>6, <2>1, Zenon DEF RowMoves
    <2> QED  BY <1>1, <2>2, AtRest, QueueSame, WorkerWrites, ZenonT(30)
  <1> QED  BY <1>5, <1>6, ZenonT(30)

LEMMA KeepsWorkerCrash ==
    ASSUME PipelineInv, NEW w \in Workers, WorkerCrash(w), UNCHANGED <<relay, feedback, deduped>>
    PROVE  PipelineInv' /\ StoreMoves
  <1>1. /\ Become(w, Resting)
        /\ UNCHANGED <<status, outbox, delivery, attempt, gate, suppression, queue, provider>>
    BY Zenon DEF WorkerCrash
  <1> QED  BY <1>1, AtRest, QueueSame, WorkerThinks, Zenon

(* What a claim and a fence that still hold allow. *)
LEMMA MayBegin ==
    ASSUME PipelineInv, NEW w \in Workers, worker[w].pc = "fenced", HoldsClaim(w), FenceHolds(w)
    PROVE  /\ delivery[worker[w].d].outcome = "none" /\ Authorised(worker[w].d)
           /\ delivery[worker[w].d].count < MaxProviderCalls
  <1> DEFINE d == worker[w].d
             record == worker[w].record
             fence == worker[w].fence
  <1>1. /\ d \in Deliveries /\ PlaceSound(worker[w]) /\ delivery[d] \in Rows
        /\ RowSound(d) /\ d[2] \in Recipients
    BY WorkerHas, PairRows, Zenon DEF PipelineInv
  <1>2. delivery[d].state = "processing" /\ Core(record) = Core(delivery[d])
    BY ClaimHeld, Zenon
  <1>3. ~CallsOver(record) /\ ~LastCall(record) /\ FenceSound(d, fence)
    BY <1>1, Zenon DEF PlaceSound
  <1>4. delivery[d].outcome = "none"
    <2>1. delivery[d].outcome \in {"none", "delayed"}
      BY <1>1, <1>2, Zenon DEF RowSound, TerminalStates
    <2>2. record.outcome = delivery[d].outcome
      BY <1>2, CoreFields, ZenonT(30)
    <2> QED  BY <1>3, <2>1, <2>2, Zenon DEF CallsOver
  <1>5. delivery[d].count < MaxProviderCalls
    <2>1. record.count = delivery[d].count
      BY <1>2, CoreFields, SMTT(30)
    <2>2. delivery[d].count \in Int /\ MaxProviderCalls \in Int
      BY <1>1, RowFlags, StoreAssumption, SMTT(30)
    <2> QED  BY <1>3, <2>1, <2>2, SMTT(30) DEF LastCall
  <1>6. Authorised(d)
    <2>1. /\ fence.version = gate[d[2]].version /\ fence.suppressed = Suppressed(d[2])
          /\ fence.resolved = (Channel = "telegram" /\ status = "resolved")
      BY SMTT(30) DEF FenceHolds, Fence
    <2>2. gate[d[2]].member /\ gate[d[2]].preference
      BY <1>3, <2>1, Zenon DEF FenceSound
    <2>3. ~Suppressed(d[2])
      BY <1>3, <2>1, Zenon DEF FenceSound
    <2>4. Channel = "telegram" => (d[1] = "recovery" <=> status = "resolved")
      BY <1>3, <2>1, Zenon DEF FenceSound
    <2> QED  BY <2>2, <2>3, <2>4, Zenon DEF Authorised
  <1> QED  BY <1>4, <1>5, <1>6, Zenon

LEMMA KeepsBeginAttempt ==
    ASSUME PipelineInv, NEW w \in Workers, BeginAttempt(w), UNCHANGED <<relay, feedback, deduped>>
    PROVE  PipelineInv' /\ StoreMoves
  <1> DEFINE d == worker[w].d
             begun == [Bumped(delivery[d]) EXCEPT !.count = @ + 1]
             fresh == [outcome |-> "started", provider |-> "none", accepted |-> FALSE]
             value == [pc |-> "begun", d |-> d, record |-> begun]
  <1>1. /\ worker[w].pc = "fenced"
        /\ UNCHANGED <<status, outbox, gate, suppression, queue, provider>>
        /\ \/ /\ HoldsClaim(w) /\ FenceHolds(w) /\ Become(w, value)
              /\ delivery' = [delivery EXCEPT ![d] = begun]
              /\ attempt' = [attempt EXCEPT ![d] = Append(@, fresh)]
           \/ Become(w, Resting) /\ UNCHANGED <<delivery, attempt>>
    BY Zenon DEF BeginAttempt, At
  <1>2. d \in Deliveries /\ delivery[d] \in Rows /\ TypeInv
    BY <1>1, WorkerHas, Zenon DEF PipelineInv
  <1>3. CASE Become(w, Resting) /\ UNCHANGED <<delivery, attempt>>
    BY <1>1, <1>3, AtRest, QueueSame, WorkerThinks, ZenonT(30)
  <1>4. CASE /\ HoldsClaim(w) /\ FenceHolds(w) /\ Become(w, value)
             /\ delivery' = [delivery EXCEPT ![d] = begun]
             /\ attempt' = [attempt EXCEPT ![d] = Append(@, fresh)]
    <2>1. /\ delivery[d].outcome = "none" /\ Authorised(d)
          /\ delivery[d].count < MaxProviderCalls /\ delivery[d].state = "processing"
      BY <1>1, <1>4, MayBegin, ClaimHeld, ZenonT(30)
    <2>2. /\ begun \in Rows /\ begun.state = delivery[d].state /\ begun.rev = delivery[d].rev + 1
          /\ begun.count = delivery[d].count + 1 /\ begun.outcome = delivery[d].outcome
      BY <1>2, <2>1, BegunRow, Zenon
    <2> HIDE DEF begun
    <2>3. value \in WorkerStates
      BY <1>2, <2>2, Zenon DEF WorkerStates
    <2> HIDE DEF d
    <2>4. OnlyRow(d) /\ delivery'[d] = begun
      BY <1>2, <1>4, <2>2, RowWritten, ZenonT(30)
    <2>5. RowMoves(d)
      BY <2>1, <2>2, <2>4, Zenon DEF RowMoves
    <2>6. ChannelKept
      BY <1>1, OutboxesSame, Zenon
    <2>7. StoreMoves
      BY <1>2, <2>5, <2>6, Zenon DEF StoreMoves
    <2>8. /\ fresh \in AttemptRows /\ attempt \in [Deliveries -> Seq(AttemptRows)]
          /\ provider \in [Deliveries -> Providers]
      BY <1>2, OutcomeList, Zenon DEF AttemptRows, AttemptOutcomes, TypeInv, Providers
    <2> HIDE DEF fresh
    <2>9. /\ attempt' \in [Deliveries -> Seq(AttemptRows)]
          /\ Len(attempt'[d]) = Len(attempt[d]) + 1
          /\ \A x \in Deliveries : x # d => attempt'[x] = attempt[x]
      BY <1>2, <1>4, <2>8, SMTT(30)
    <2>10. AttemptsCounted
      <3>1. ASSUME NEW x \in Deliveries
            PROVE  /\ Len(attempt'[x]) = delivery'[x].count
                   /\ provider'[x].accepted \subseteq 1 .. delivery'[x].count
        <4>1. /\ Len(attempt[x]) = delivery[x].count
              /\ provider[x].accepted \subseteq 1 .. delivery[x].count
          BY Zenon DEF PipelineInv, RowSound
        <4>2. delivery[x].count \in Nat
          BY <1>2, StoreAssumption, SMTT(30) DEF TypeInv, Rows
        <4>3. delivery'[x].count = IF x = d THEN delivery[x].count + 1 ELSE delivery[x].count
          BY <2>2, <2>4, Zenon DEF OnlyRow
        <4> QED  BY <1>1, <2>9, <4>1, <4>2, <4>3, SMTT(30)
      <3> QED  BY <3>1, Zenon DEF AttemptsCounted
    <2>11. RestKept
      BY <1>1, <2>6, <2>10, QueueSame, GatesSame, SuppressionsSame, ZenonT(30) DEF RestKept
    <2>12. worker'[w] = value => WorkerSound(w)'
      <3> HAVE worker'[w] = value
      <3>1. worker'[w].pc = "begun" /\ worker'[w].d = d /\ worker'[w].record = begun
        BY SMTT(30)
      <3> HIDE DEF value
      <3>2. Remembers(worker[w].record, worker[w].d)'
        BY <2>1, <2>2, <2>4, <3>1, RowFlags, SMTT(30) DEF Remembers, Unstarted
      <3>3. begun.count > 0
        BY <1>2, <2>2, StoreAssumption, SMTT(30) DEF Rows
      <3> QED  BY <2>1, <2>2, <3>1, <3>2, <3>3, ZenonT(30) DEF WorkerSound, PlaceSound
    <2>13. /\ delivery' \in [Deliveries -> Rows] /\ suppression' \in [Recipients -> 0 .. 3]
           /\ provider' \in [Deliveries -> Providers]
      BY <1>1, <1>2, <2>4, <2>8, ZenonT(30) DEF OnlyRow, TypeInv
    <2> HIDE DEF value
    <2> QED  BY <1>1, <1>4, <2>3, <2>7, <2>9, <2>11, <2>12, <2>13, QueueSame, WorkerAct, ZenonT(30)
  <1> QED  BY <1>1, <1>3, <1>4, Zenon

LEMMA KeepsSend ==
    ASSUME PipelineInv, NEW w \in Workers, NEW result \in Results, Send(w, result),
           UNCHANGED <<relay, feedback, deduped>>
    PROVE  PipelineInv' /\ StoreMoves
  <1> DEFINE d == worker[w].d
             record == worker[w].record
             plan == PlanResult(result, Channel, record.possibly, LastCall(record))
             value == [pc |-> "finish", d |-> d, record |-> record, by |-> "attempt",
                       completion |-> plan, merge |-> TRUE, retry |-> TRUE]
  <1>1. /\ worker[w].pc = "begun" /\ Finish(w, "attempt", record, plan)
        /\ UNCHANGED <<status, outbox, delivery, attempt, gate, suppression, queue, faults>>
    BY Zenon DEF Send, At, storeVars
  <1>2. PICK accepted \in BOOLEAN :
          LET this == IF accepted THEN {record.count} ELSE {} IN
          provider' = [provider EXCEPT ![d] =
            [calls |-> @.calls + 1, accepted |-> @.accepted \cup this,
             misread |-> IF result = "retryable" THEN @.misread \cup this ELSE @.misread]]
    BY ZenonT(30) DEF Send, Accepts
  <1>3. /\ d \in Deliveries /\ record \in Rows /\ TypeInv /\ PlaceSound(worker[w])
        /\ delivery[d] \in Rows /\ Remembers(record, d) /\ record.state = "processing"
    BY <1>1, WorkerHas, Zenon DEF PipelineInv
  <1>4. record.count \in 1 .. delivery[d].count /\ record.count \in Calls /\ record.count > 0
    <2>1. record.count > 0 /\ record.count <= delivery[d].count
      BY <1>1, <1>3, Zenon DEF PlaceSound, Remembers
    <2>2. record.count \in 0 .. MaxProviderCalls /\ delivery[d].count \in 0 .. MaxProviderCalls
      BY <1>3, RowFlags, ZenonT(30)
    <2> QED  BY <2>1, <2>2, StoreAssumption, SMTT(30) DEF Calls
  <1>5. plan \in Completions /\ plan.outcome # "none"
    <2>1. record.possibly \in BOOLEAN /\ LastCall(record) \in BOOLEAN /\ result \in SendResults
      BY <1>3, RowFlags, WorkerAssumption, Zenon
    <2> QED  BY <2>1, PlanTypes, ZenonT(30)
  <1>6. Become(w, value)
    BY <1>1, ZenonT(30) DEF Finish
  <1> DEFINE this == IF accepted THEN {record.count} ELSE {}
             new == [calls |-> provider[d].calls + 1, accepted |-> provider[d].accepted \cup this,
                     misread |-> IF result = "retryable" THEN provider[d].misread \cup this
                                 ELSE provider[d].misread]
  <1>7. provider' = [provider EXCEPT ![d] = new]
    BY <1>2, Zenon
  <1>8. this \subseteq 1 .. delivery[d].count /\ this \subseteq Calls
    BY <1>4, ZenonT(30)
  <1> HIDE DEF this, plan
  <1>9. value \in WorkerStates /\ PlaceSound(value)
    <2>1. worker[w].pc # "idle"
      BY <1>1, Zenon
    <2> QED  BY <1>3, <1>4, <1>5, <2>1, FinishSound, ZenonT(30)
  <1>10. provider \in [Deliveries -> Providers]
    BY <1>3, Zenon DEF TypeInv, Providers
  <1>11. new \in Providers /\ new.accepted = provider[d].accepted \cup this
    <2>1. provider[d] \in Providers
      BY <1>3, <1>10, Zenon
    <2>2. /\ provider[d].calls \in Nat /\ provider[d].accepted \subseteq Calls
          /\ provider[d].misread \subseteq Calls
      BY <2>1, Zenon DEF Providers
    <2>3. /\ provider[d].accepted \cup this \subseteq Calls
          /\ provider[d].misread \cup this \subseteq Calls
      BY <1>8, <2>2, ZenonT(30)
    <2>4. provider[d].calls + 1 \in Nat
      BY <2>2
    <2> QED  BY <2>2, <2>3, <2>4, ZenonT(30) DEF Providers
  <1> HIDE DEF d, record, new
  <1>12. provider' \in [Deliveries -> Providers] /\ provider'[d] = new
    BY <1>3, <1>7, <1>10, <1>11, Zenon
  <1>13. AttemptsCounted
    <2>1. ASSUME NEW x \in Deliveries
          PROVE  /\ Len(attempt'[x]) = delivery'[x].count
                 /\ provider'[x].accepted \subseteq 1 .. delivery'[x].count
      <3>1. /\ Len(attempt[x]) = delivery[x].count
            /\ provider[x].accepted \subseteq 1 .. delivery[x].count
        BY ZenonT(30) DEF PipelineInv, RowSound
      <3>2. x # d => provider'[x] = provider[x]
        BY <1>7, <1>10, Zenon
      <3> QED  BY <1>1, <1>8, <1>11, <1>12, <3>1, <3>2, ZenonT(30)
    <2> QED  BY <2>1, Zenon DEF AttemptsCounted
  <1>14. ChannelKept
    BY <1>1, OutboxesSame, Zenon
  <1>15. StoreMoves
    BY <1>1, <1>14, ZenonT(30) DEF StoreMoves
  <1>16. RestKept
    BY <1>1, <1>13, <1>14, QueueSame, GatesSame, SuppressionsSame, ZenonT(30) DEF RestKept
  <1> HIDE DEF value
  <1>17. worker'[w] = value => WorkerSound(w)'
    <2> HAVE worker'[w] = value
    <2>1. PICK v : v = value
      BY Zenon
    <2>2. PlaceSound(v)'
      BY <1>1, <1>9, <2>1, PlaceKept, Zenon
    <2> QED  BY <2>1, <2>2, Zenon DEF WorkerSound
  <1>18. /\ delivery' \in [Deliveries -> Rows] /\ attempt' \in [Deliveries -> Seq(AttemptRows)]
         /\ suppression' \in [Recipients -> 0 .. 3]
    BY <1>1, <1>3, Zenon DEF TypeInv
  <1> QED  BY <1>1, <1>6, <1>9, <1>12, <1>15, <1>16, <1>17, <1>18, QueueSame, WorkerAct, ZenonT(30)

LEMMA KeepsReadDependency ==
    ASSUME PipelineInv, NEW w \in Workers, ReadDependency(w), UNCHANGED <<relay, feedback, deduped>>
    PROVE  PipelineInv' /\ StoreMoves
  <1> DEFINE x == worker[w]
             dep == Dependency(x.d, x.completion.next)
             value == [dep |-> dep, pc |-> "commit", d |-> x.d, record |-> x.record, by |-> x.by,
                       completion |-> x.completion, merge |-> x.merge, retry |-> x.retry]
  <1>1. /\ x.pc = "finish" /\ Become(w, value)
        /\ UNCHANGED <<status, outbox, delivery, attempt, gate, suppression, queue, provider>>
    BY Zenon DEF ReadDependency, At, storeVars
  <1>2. /\ x \in WorkerStates /\ PlaceSound(x) /\ x.d \in Deliveries /\ x.record \in Rows
    BY <1>1, WorkerHas, ZenonT(30)
  <1>3. /\ x.by \in {"attempt", "preflight", "cancel"} /\ x.completion \in Completions
        /\ x.merge \in BOOLEAN /\ x.retry \in BOOLEAN
    BY <1>1, <1>2, WorkerFields, Zenon
  <1>4. dep \in Dependencies /\ DependencyFits(x.d, x.completion.next, dep)
    BY <1>2, DependencyRead, ZenonT(30) DEF PipelineInv
  <1> HIDE DEF x, dep
  <1>5. value \in WorkerStates
    BY <1>2, <1>3, <1>4, Zenon DEF WorkerStates
  <1>6. PlaceSound(value)
    BY <1>1, <1>2, <1>4, ZenonT(30) DEF PlaceSound
  <1> HIDE DEF value
  <1> QED  BY <1>1, <1>5, <1>6, QueueSame, WorkerThinks, Zenon

(* A completion's row. *)
LEMMA CompletedRow ==
    ASSUME PipelineInv, NEW w \in Workers, worker[w].pc = "commit",
           NEW row \in Rows
    PROVE  /\ Completed(row, w) \in Rows
           /\ Completed(row, w).state = worker[w].completion.next
           /\ Completed(row, w).rev = row.rev + 1 /\ Completed(row, w).count = row.count
           /\ worker[w].completion.next = "retryable_failed" =>
                Completed(row, w).outcome = row.outcome
  <1> DEFINE b == Bumped(row)
             c == worker[w].completion
             succeeded == c.outcome = "succeeded"
             possibly == c.possibly \/ worker[w].record.possibly
             lease == Released(b.lease)
             outcome == IF succeeded THEN "accepted" ELSE b.outcome
             owner == IF succeeded THEN row.count ELSE b.owner
             new == [b EXCEPT !.state = c.next, !.possibly = possibly, !.exhausted = c.exhausted,
                              !.lease = lease, !.outcome = outcome, !.owner = owner]
  <1>1. worker[w] \in WorkerStates /\ worker[w].record \in Rows
    BY WorkerHas, Zenon
  <1>2. c \in Completions
    BY <1>1, WorkerFields, Zenon
  <1>3. c.next \in DeliveryStates \cup {"absent"} /\ c.exhausted \in BOOLEAN
    BY <1>2, Zenon DEF Completions, EndStates, DeliveryStates, TerminalStates, NonterminalStates
  <1>4. c.next = "retryable_failed" => ~succeeded
    BY <1>2, Zenon DEF Completions
  <1>5. /\ b \in Rows /\ b.rev = row.rev + 1 /\ b.count = row.count /\ b.outcome = row.outcome
    BY BumpedRow, ZenonT(30)
  <1>6. lease \in Leases(Workers)
    <2>1. b.lease \in Leases(Workers)  BY <1>5, ZenonT(30) DEF Rows
    <2> QED  BY <2>1, LeaseTypes, Zenon
  <1>7. possibly \in BOOLEAN
    BY Zenon
  <1>8. outcome \in ProviderOutcomes /\ owner \in 0 .. MaxProviderCalls
    BY <1>5, OutcomeList, Zenon DEF Rows
  <1>9. c.next = "retryable_failed" => outcome = row.outcome
    BY <1>4, <1>5, Zenon
  <1>10. Completed(row, w) = new
    BY Zenon DEF Completed
  <1> HIDE DEF b, c, possibly, lease, outcome, owner
  <1>11. new \in Rows
    BY <1>3, <1>5, <1>6, <1>7, <1>8, ZenonT(30) DEF Rows
  <1>12. new.state = c.next /\ new.rev = b.rev /\ new.count = b.count /\ new.outcome = outcome
    BY <1>5, Zenon DEF Rows
  <1> HIDE DEF new
  <1> QED  BY <1>5, <1>9, <1>10, <1>11, <1>12, ZenonT(30) DEF c

(* The attempt a handler ends is one its delivery counted. *)
LEMMA AttemptFinished ==
    ASSUME PipelineInv, NEW w \in Workers, worker[w].pc = "commit", FinishAttempt(w)
    PROVE  /\ attempt' \in [Deliveries -> Seq(AttemptRows)]
           /\ \A x \in Deliveries : Len(attempt'[x]) = Len(attempt[x])
  <1> DEFINE d == worker[w].d
             n == worker[w].record.count
             c == worker[w].completion
             a == AttemptDone(attempt[d][n], c)
  <1>1. /\ TypeInv /\ worker[w] \in WorkerStates /\ PlaceSound(worker[w])
        /\ d \in Deliveries /\ worker[w].record \in Rows /\ delivery[d] \in Rows
        /\ Remembers(worker[w].record, d)
    BY WorkerHas, ZenonT(30) DEF PipelineInv
  <1>2. CASE worker[w].by # "attempt"
    BY <1>1, <1>2, Zenon DEF FinishAttempt, TypeInv
  <1>3. CASE worker[w].by = "attempt"
    <2>1. attempt' = [attempt EXCEPT ![d][n] = a]
      BY <1>3, Zenon DEF FinishAttempt
    <2>2. n > 0 /\ c.outcome # "none" /\ n <= delivery[d].count
      BY <1>1, <1>3, ZenonT(30) DEF PlaceSound, Remembers
    <2>3. n \in 1 .. Len(attempt[d])
      <3>1. Len(attempt[d]) = delivery[d].count
        BY <1>1, ZenonT(30) DEF PipelineInv, RowSound
      <3>2. n \in Int /\ delivery[d].count \in Int
        BY <1>1, RowFlags, Zenon
      <3> QED  BY <2>2, <3>1, <3>2, SMTT(30)
    <2>4. c \in Completions
      BY <1>1, WorkerFields, Zenon
    <2>5. c.outcome \in AttemptOutcomes
      BY <2>2, <2>4, Zenon DEF Completions
    <2>6. attempt[d][n] \in AttemptRows
      BY <1>1, <2>3 DEF TypeInv
    <2>7. a \in AttemptRows
      <3> HIDE DEF c
      <3> QED  BY <2>5, <2>6, OutcomeList, Zenon DEF AttemptDone, AttemptRows
    <2> HIDE DEF a, n, d
    <2> QED  BY <1>1, <2>1, <2>3, <2>7, AttemptWritten, ZenonT(30)
  <1> QED  BY <1>2, <1>3, Zenon

LEMMA KeepsCommit ==
    ASSUME PipelineInv, NEW w \in Workers, Commit(w), UNCHANGED <<relay, feedback, deduped>>
    PROVE  PipelineInv' /\ StoreMoves
  <1> DEFINE d == worker[w].d
             row == Completed(delivery[d], w)
             dep == worker[w].dep
             next == worker[w].completion.next
  <1>1. /\ worker[w].pc = "commit" /\ CommitHolds(w) /\ FinishAttempt(w)
        /\ delivery' = Settled(d, row, dep)
        /\ SuppressDestination(w) /\ Become(w, Resting)
        /\ IF next \in TerminalStates THEN Delete(d) ELSE UNCHANGED queue
        /\ UNCHANGED <<status, outbox, gate, provider>>
    BY ZenonT(30) DEF Commit, At
  <1>2. /\ TypeInv /\ worker[w] \in WorkerStates /\ PlaceSound(worker[w])
        /\ d \in Deliveries /\ delivery[d] \in Rows
    BY <1>1, WorkerHas, ZenonT(30) DEF PipelineInv
  <1>3. dep \in Dependencies /\ worker[w].completion \in Completions
    BY <1>1, <1>2, WorkerFields, ZenonT(30)
  <1>4. next \in EndStates
    BY <1>3, ZenonT(30) DEF Completions
  <1>5. delivery[d].state = "processing" /\ DependencyHolds(d, dep)
    BY <1>1, ZenonT(30) DEF CommitHolds, HoldsClaim
  <1>6. /\ row \in Rows /\ row.state = next /\ row.rev = delivery[d].rev + 1
        /\ row.count = delivery[d].count
        /\ next = "retryable_failed" => row.outcome = delivery[d].outcome
    BY <1>1, <1>2, CompletedRow, ZenonT(30)
  <1>7. DependencyFits(d, next, dep)
    BY <1>1, <1>2, ZenonT(30) DEF PlaceSound
  <1> HIDE DEF d, row, dep, next
  <1>8. SettleMoves(d) /\ \A x \in Deliveries : delivery'[x].count = delivery[x].count
    <2>1. Ends(delivery[d].state, row.state)
      BY <1>4, <1>5, <1>6, Zenon DEF Ends
    <2>2. row.state \notin TerminalStates => row.outcome \in {"none", "delayed"}
      <3> HAVE row.state \notin TerminalStates
      <3>1. row.outcome = delivery[d].outcome
        BY <1>4, <1>6, Zenon DEF EndStates, TerminalStates
      <3>2. RowSound(d) /\ delivery[d].state \notin TerminalStates
        BY <1>2, <1>5, Zenon DEF PipelineInv, TerminalStates
      <3> QED  BY <3>1, <3>2, ZenonT(30) DEF RowSound
    <2>3. IF Unsettled(delivery[d].state) THEN DependencyFits(d, row.state, dep)
          ELSE dep.op = "none"
      BY <1>5, <1>6, <1>7, Zenon DEF Unsettled, NonterminalStates
    <2> QED  BY <1>1, <1>2, <1>3, <1>5, <1>6, <2>1, <2>2, <2>3, SettledMoves, ZenonT(30)
  <1>9. ChannelKept
    BY <1>1, OutboxesSame, Zenon
  <1>10. StoreMoves
    BY <1>2, <1>8, <1>9, Zenon DEF StoreMoves
  <1>11. QueueKept /\ queue' \subseteq Deliveries
    <2>1. delivery'[d].state = next
      BY <1>1, <1>2, <1>6, Zenon DEF Settled
    <2> QED  BY <1>1, <1>2, <2>1, QueueSame, JobDeleted, ZenonT(30)
  <1>12. SuppressionKept /\ suppression' \in [Recipients -> 0 .. 3]
    <2>1. CASE UNCHANGED suppression
      BY <1>2, <2>1, SuppressionsSame, Zenon DEF TypeInv
    <2>2. CASE Channel = "telegram" /\ suppression' = [suppression EXCEPT ![worker[w].d[2]] = 1]
      <3>1. suppression' \in [Recipients -> 0 .. 3]
        BY <1>2, <2>2, SuppressionWritten, SMTT(30)
      <3>2. Channel # "email"
        BY <2>2, Zenon
      <3> QED  BY <3>1, <3>2, Zenon DEF SuppressionKept
    <2> QED  BY <1>1, <2>1, <2>2, Zenon DEF SuppressDestination
  <1>13. /\ attempt' \in [Deliveries -> Seq(AttemptRows)]
         /\ \A x \in Deliveries : Len(attempt'[x]) = Len(attempt[x])
    BY <1>1, AttemptFinished, Zenon
  <1>14. AttemptsCounted
    BY <1>1, <1>8, <1>13, AttemptsKept, ZenonT(30)
  <1>15. RestKept
    BY <1>1, <1>9, <1>11, <1>12, <1>14, GatesSame, ZenonT(30) DEF RestKept
  <1>16. delivery' \in [Deliveries -> Rows] /\ provider' \in [Deliveries -> Providers]
    BY <1>1, <1>2, <1>8, Zenon DEF SettleMoves, TypeInv, Providers
  <1> QED  BY <1>1, <1>10, <1>11, <1>12, <1>13, <1>15, <1>16, AtRest, WorkerAct, ZenonT(30)

(* Ending only the attempt, beside a delivery that is over. *)
LEMMA KeepsBeside ==
    ASSUME PipelineInv, NEW w \in Workers, worker[w].pc = "commit",
           delivery[worker[w].d].state \in TerminalStates,
           FinishAttempt(w) \/ UNCHANGED attempt, Delete(worker[w].d), Become(w, Resting),
           UNCHANGED <<status, outbox, delivery, gate, suppression, provider>>,
           UNCHANGED <<relay, feedback, deduped>>
    PROVE  PipelineInv' /\ StoreMoves
  <1>1. worker[w].d \in Deliveries
    BY WorkerHas, ZenonT(30)
  <1>2. /\ attempt' \in [Deliveries -> Seq(AttemptRows)]
        /\ \A x \in Deliveries : Len(attempt'[x]) = Len(attempt[x])
    BY AttemptFinished, Zenon DEF PipelineInv, TypeInv
  <1>3. ChannelKept
    BY OutboxesSame, ZenonT(30)
  <1>4. /\ delivery' \in [Deliveries -> Rows]
        /\ \A d \in Deliveries : delivery'[d].count = delivery[d].count
    BY DeliveriesSame, ZenonT(30)
  <1>5. AttemptsCounted
    BY <1>2, <1>4, AttemptsKept, Zenon
  <1>6. QueueKept /\ queue' \subseteq Deliveries
    BY <1>1, JobDeleted, Zenon
  <1>7. RestKept
    BY <1>3, <1>5, <1>6, GatesSame, SuppressionsSame, ZenonT(30) DEF RestKept
  <1>8. StoreMoves
    BY <1>3, Zenon DEF StoreMoves
  <1>9. suppression' \in [Recipients -> 0 .. 3] /\ provider' \in [Deliveries -> Providers]
    BY Zenon DEF PipelineInv, TypeInv, Providers
  <1> QED  BY <1>2, <1>4, <1>6, <1>7, <1>8, <1>9, AtRest, WorkerAct, ZenonT(30)

LEMMA KeepsAgain ==
    ASSUME PipelineInv, NEW w \in Workers, worker[w].pc = "commit",
           NEW record \in Rows, record.state = "processing", Remembers(record, worker[w].d),
           worker[w].by = "attempt" => record.count > 0,
           NEW merge \in BOOLEAN, NEW retry \in BOOLEAN, Again(w, record, merge, retry),
           UNCHANGED <<status, outbox, delivery, attempt, gate, suppression, queue, provider>>,
           UNCHANGED <<relay, feedback, deduped>>
    PROVE  PipelineInv' /\ StoreMoves
  <1> DEFINE x == worker[w]
             value == [pc |-> "finish", d |-> x.d, record |-> record, by |-> x.by,
                       completion |-> x.completion, merge |-> merge, retry |-> retry]
  <1>1. Become(w, value)
    BY Zenon DEF Again
  <1>2. x \in WorkerStates /\ PlaceSound(x) /\ x.pc = "commit"
    BY WorkerHas, ZenonT(30)
  <1>3. x.by \in {"attempt", "preflight", "cancel"} /\ x.completion \in Completions
    BY <1>2, WorkerFields, ZenonT(30)
  <1>4. x.by = "attempt" => record.count > 0 /\ x.completion.outcome # "none"
    BY <1>2, ZenonT(30) DEF PlaceSound
  <1>5. value \in WorkerStates /\ PlaceSound(value)
    BY <1>3, <1>4, FinishSound, Zenon
  <1> HIDE DEF value
  <1> QED  BY <1>1, <1>5, QueueSame, WorkerThinks, ZenonT(30)

LEMMA KeepsCommitConflict ==
    ASSUME PipelineInv, NEW w \in Workers, CommitConflict(w), UNCHANGED <<relay, feedback, deduped>>
    PROVE  PipelineInv' /\ StoreMoves
  <1> DEFINE x == worker[w]
             row == delivery[x.d]
  <1>1. /\ x.pc = "commit"
        /\ UNCHANGED <<status, outbox, delivery, gate, suppression, provider>>
    BY ZenonT(30) DEF CommitConflict, At
  <1>2. /\ x \in WorkerStates /\ PlaceSound(x) /\ x.d \in Deliveries /\ x.record \in Rows
        /\ row \in Rows /\ x.record.state = "processing" /\ Remembers(x.record, x.d)
    BY <1>1, WorkerHas, Zenon
  <1>3. x.merge \in BOOLEAN /\ x.retry \in BOOLEAN
    BY <1>1, <1>2, WorkerFields, Zenon
  <1>4. x.by = "attempt" => x.record.count > 0
    BY <1>1, <1>2, ZenonT(30) DEF PlaceSound
  <1>5. CASE /\ Mergeable(w) /\ Again(w, row, FALSE, TRUE)
             /\ UNCHANGED <<attempt, queue>>
    <2>1. row.state = "processing" /\ row.count = x.record.count
      BY <1>5, ZenonT(30) DEF Mergeable
    <2>2. Remembers(row, x.d)
      BY <1>2, <2>1, RowFlags DEF Remembers, Unstarted
    <2> QED  BY <1>1, <1>2, <1>4, <1>5, <2>1, <2>2, KeepsAgain, ZenonT(30)
  <1>6. CASE /\ Again(w, x.record, x.merge, FALSE)
             /\ UNCHANGED <<attempt, queue>>
    BY <1>1, <1>2, <1>3, <1>4, <1>6, KeepsAgain, ZenonT(30)
  <1>7. CASE /\ row.state \in TerminalStates /\ Delete(x.d) /\ Become(w, Resting)
             /\ FinishAttempt(w) \/ UNCHANGED attempt
    BY <1>1, <1>7, KeepsBeside, ZenonT(30)
  <1>8. CASE Become(w, Resting) /\ UNCHANGED <<attempt, queue>>
    BY <1>1, <1>8, AtRest, QueueSame, WorkerThinks, ZenonT(30)
  <1> QED  BY <1>5, <1>6, <1>7, <1>8, Zenon DEF CommitConflict
-----------------------------------------------------------------------------
LEMMA KeepsWorker ==
    ASSUME PipelineInv, WorkerStep
    PROVE  PipelineInv' /\ StoreMoves
  <1>1. WorkerNext /\ UNCHANGED <<relay, feedback, deduped>>
    BY Zenon DEF WorkerStep
  <1>2. ASSUME NEW w \in Workers, \E d \in Deliveries : Claim(w, d)
        PROVE  PipelineInv' /\ StoreMoves
    BY <1>1, <1>2, KeepsClaim, Zenon
  <1>3. ASSUME NEW w \in Workers, Step(w) PROVE PipelineInv' /\ StoreMoves
    BY <1>1, <1>3, KeepsDeciding, KeepsRefresh, KeepsFinalizeUnknown, KeepsGatesAllow,
       KeepsBeginAttempt, KeepsSend, KeepsReadDependency, KeepsCommit, KeepsCommitConflict, Zenon
    DEF Step
  <1>4. ASSUME NEW w \in Workers, PreflightFails(w) \/ DeferClaim(w) \/ WorkerCrash(w)
        PROVE  PipelineInv' /\ StoreMoves
    BY <1>1, <1>4, KeepsDeciding, KeepsDeferClaim, KeepsWorkerCrash, Zenon
  <1>5. ASSUME NEW d \in Deliveries, ExpireLease(d) PROVE PipelineInv' /\ StoreMoves
    <2>1. worker' = worker /\ provider' = provider
      BY <1>5, Zenon DEF ExpireLease
    <2> QED  BY <1>1, <1>5, <2>1, KeepsLapse, ZenonT(30)
  <1>6. ASSUME NEW d \in Deliveries, AcquireTerminal(d) \/ RepairPublication(d)
        PROVE  PipelineInv' /\ StoreMoves
    BY <1>1, <1>6, KeepsAcquireTerminal, KeepsRepairPublication, Zenon
  <1> QED  BY <1>1, <1>2, <1>3, <1>4, <1>5, <1>6, Zenon DEF WorkerNext

(* Every step keeps the invariant and moves the deliveries in one of the    *)
(* ways a transaction may.                                                  *)
LEMMA StepSound ==
    ASSUME PipelineInv, [Next]_vars
    PROVE  PipelineInv' /\ StoreMoves
  <1>1. ASSUME UNCHANGED vars PROVE PipelineInv' /\ StoreMoves
    <2>1. /\ UNCHANGED <<status, outbox, delivery, attempt, gate, suppression, queue, relay>>
          /\ UNCHANGED <<worker, provider, feedback, deduped>>
      BY <1>1, Zenon DEF vars, storeVars
    <2>2. ChannelKept /\ StoreMoves
      BY <2>1, OutboxesSame, Zenon DEF StoreMoves
    <2>3. RestKept
      BY <2>1, <2>2, DeliveriesSame, RestSame, Zenon
    <2>4. /\ outbox' \in [Kinds -> Outboxes] /\ delivery' \in [Deliveries -> Rows]
          /\ gate' \in [Recipients -> [member : BOOLEAN, preference : BOOLEAN, version : Nat]]
          /\ queue' \subseteq Deliveries /\ status' \in {"open", "resolved"}
      BY <2>1, Zenon DEF PipelineInv, TypeInv
    <2> QED  BY <2>1, <2>2, <2>3, <2>4, StoreAct, Zenon
  <1> QED  BY <1>1, KeepsRelay, KeepsWorker, KeepsEnvironment, KeepsFeedback, Zenon DEF Next

LEMMA InitSound == ASSUME Init PROVE PipelineInv
  <1>1. StoreInit /\ RelayInit /\ WorkerInit /\ FeedbackInit
    BY Zenon DEF Init
  <1>2. PICK channel \in Channels :
          outbox = [k \in Kinds |->
                      Outbox(IF k = "opening" THEN "pending" ELSE "absent", channel)]
    BY <1>1, Zenon DEF StoreInit
  <1>3. /\ status = "open" /\ delivery = [d \in Deliveries |-> NoRow]
        /\ attempt = [d \in Deliveries |-> <<>>]
        /\ gate = [r \in Recipients |-> [member |-> TRUE, preference |-> TRUE, version |-> 1]]
        /\ suppression = [r \in Recipients |-> 0] /\ queue = {}
    BY <1>1, Zenon DEF StoreInit
  <1>4. /\ relay = [p \in Relays |-> Idle] /\ worker = [w \in Workers |-> Resting]
        /\ provider = [d \in Deliveries |-> [calls |-> 0, accepted |-> {}, misread |-> {}]]
        /\ feedback = [c \in Consumers |-> Resting] /\ deduped = {}
    BY <1>1, ZenonT(30) DEF RelayInit, WorkerInit, FeedbackInit
  <1>5. /\ NoRow \in Rows /\ NoRow.state = "absent" /\ NoRow.count = 0 /\ NoRow.outcome = "none"
    BY NewRow, Zenon DEF NoRow
  <1>6. \A in \in {"absent", "pending"} :
          Outbox(in, channel) \in Outboxes /\ Outbox(in, channel).channel = channel
    BY LeaseTypes, ZenonT(30) DEF Outbox, Outboxes
  <1>7. /\ outbox \in [Kinds -> Outboxes] /\ outbox["opening"].channel = channel
        /\ outbox["recovery"].channel = channel
    BY <1>2, <1>6, Zenon DEF Kinds
  <1>8. TypeInv
    <2>1. delivery \in [Deliveries -> Rows] /\ attempt \in [Deliveries -> Seq(AttemptRows)]
      BY <1>3, <1>5
    <2>2. gate \in [Recipients -> [member : BOOLEAN, preference : BOOLEAN, version : Nat]]
      BY <1>3, Zenon
    <2>3. suppression \in [Recipients -> 0 .. 3] /\ queue \subseteq Deliveries
          /\ status \in {"open", "resolved"}
      BY <1>3, SMTT(30)
    <2>4. relay \in [Relays -> RelayStates] /\ worker \in [Workers -> WorkerStates]
      BY <1>4, Zenon DEF RelayStates, WorkerStates
    <2>5. provider \in
            [Deliveries -> [calls : Nat, accepted : SUBSET Calls, misread : SUBSET Calls]]
      BY <1>4, Zenon
    <2>6. /\ feedback \in [Consumers -> FeedbackStates]
          /\ deduped \subseteq Deliveries \X Calls \X ProviderOutcomes
      BY <1>4, Zenon DEF FeedbackStates
    <2> QED  BY <1>7, <2>1, <2>2, <2>3, <2>4, <2>5, <2>6, ZenonT(30) DEF TypeInv
  <1>9. \A d \in Deliveries : RowSound(d)
    BY <1>3, <1>4, <1>5, Zenon DEF RowSound, Unfinished
  <1>10. \A r \in Recipients : PairSound(r)
    BY <1>3, <1>5, PairRows, ZenonT(30) DEF PairSound
  <1>11. /\ \A w \in Workers : WorkerSound(w)
         /\ \A c \in Consumers : FeedbackSound(c)
         /\ \A p \in Relays : RelaySound(p)
    BY <1>4, Zenon DEF WorkerSound, PlaceSound, FeedbackSound, RelaySound, Resting, Idle
  <1> QED  BY <1>4, <1>7, <1>8, <1>9, <1>10, <1>11, ZenonT(30) DEF PipelineInv, Channel, SuppressionRecorded

(* The invariant holds of every behaviour. *)
LEMMA AlwaysSound == Spec => []PipelineInv
  <1>1. Init => PipelineInv
    BY InitSound, Zenon
  <1>2. PipelineInv /\ [Next]_vars => PipelineInv'
    BY StepSound, Zenon
  <1> QED  BY <1>1, <1>2, PTL DEF Spec

(* A delivery's calls are counted only where a call is begun, for a         *)
(* recipient the state authorises and that no feedback has tied to a        *)
(* message.                                                                 *)
LEMMA CallBegun ==
    ASSUME PipelineInv, StoreMoves, NEW d \in Deliveries,
           delivery'[d].count > delivery[d].count
    PROVE  Authorised(d) /\ delivery[d].outcome = "none"
  <1>1. delivery \in [Deliveries -> Rows] /\ delivery[d].count \in Int
    BY RowFlags, ZenonT(30) DEF PipelineInv, TypeInv
  <1>2. delivery'[d].count # delivery[d].count /\ delivery' # delivery
    BY <1>1, SMTT(30)
  <1>3. ASSUME NEW x \in Deliveries, LeaseMoves(x) PROVE FALSE
    BY <1>2, <1>3, Zenon DEF LeaseMoves, OnlyRow, Core
  <1>4. ASSUME NEW x \in Deliveries, RowMoves(x)
        PROVE  Authorised(d) /\ delivery[d].outcome = "none"
    BY <1>2, <1>4, Zenon DEF RowMoves, OnlyRow
  <1>5. ASSUME NEW x \in Deliveries, SettleMoves(x) PROVE FALSE
    <2>1. /\ delivery'[x].count = delivery[x].count /\ Recovery(x) \in Deliveries
          /\ x[1] \in Kinds /\ x = <<x[1], x[2]>> /\ Recovery(x) = <<"recovery", x[2]>>
          /\ \A y \in Deliveries : y # x /\ y # Recovery(x) => delivery'[y] = delivery[y]
      BY <1>5, PairRows, Zenon DEF SettleMoves, Recovery
    <2>2. d = Recovery(x) /\ d # x
      BY <1>2, <2>1, Zenon
    <2>3. x[1] = "opening"
      BY <2>1, <2>2, Zenon DEF Kinds
    <2>4. \/ delivery'[d] = Promoted(delivery[d], delivery'[x].state)
          \/ delivery'[d] = delivery[d]
      BY <1>5, <2>2, <2>3, Zenon DEF SettleMoves
    <2> QED  BY <1>1, <1>2, <2>4, PromotedRow, SMTT(30)
  <1>6. ASSUME PageMoves PROVE FALSE
    BY <1>2, <1>6, CreatedFields, ZenonT(30) DEF PageMoves
  <1> QED  BY <1>2, <1>3, <1>4, <1>5, <1>6, Zenon DEF StoreMoves
-----------------------------------------------------------------------------
(* The durable items keep their types, a delivery's attempts are those it   *)
(* counted, and it counts no more than MaxProviderCalls.                    *)
THEOREM StoreWellTyped == Spec => []TypeOK
  <1>1. PipelineInv => TypeOK
    <2> HAVE PipelineInv
    <2>1. TypeInv /\ \A d \in Deliveries : RowSound(d)
      BY Zenon DEF PipelineInv
    <2>2. \A d \in Deliveries :
            /\ Len(attempt[d]) = delivery[d].count
            /\ \A n \in 1 .. delivery[d].count : attempt[d][n] \in AttemptRows
      BY <2>1, SMTT(30) DEF TypeInv, RowSound
    <2> QED  BY <2>1, <2>2, Zenon DEF TypeOK, TypeInv, Outboxes, AttemptRows
  <1> QED  BY <1>1, AlwaysSound, PTL

(* Every delivery that is not finished is where somebody will find it, on   *)
(* the relay index or in the jobs queue, whatever crashes or lapses between *)
(* fan-out, publication, claim and completion.                              *)
THEOREM UnfinishedAlwaysFindable == Spec => []UnfinishedIsFindable
  <1>1. PipelineInv => UnfinishedIsFindable
    BY ZenonT(30) DEF PipelineInv, RowSound, UnfinishedIsFindable, Unfinished
  <1> QED  BY <1>1, AlwaysSound, PTL

(* Every bounce and complaint taken off the feedback queue has suppressed   *)
(* its address, and no later or concurrent feedback lowers it.              *)
THEOREM SuppressionAlwaysRecorded == Spec => []SuppressionRecorded
  <1>1. PipelineInv => SuppressionRecorded
    BY Zenon DEF PipelineInv
  <1> QED  BY <1>1, AlwaysSound, PTL

(* A provider call is begun only for a recipient that is, in that very      *)
(* state, a member with the channel enabled and not suppressed, and, on     *)
(* Telegram, for an event still in the state the notification reports.      *)
THEOREM SendsAlwaysAuthorised == Spec => SendAuthorised
  <1>1. PipelineInv /\ [Next]_vars =>
          [\A d \in Deliveries : delivery'[d].count > delivery[d].count => Authorised(d)]_vars
    BY StepSound, CallBegun, Zenon
  <1> QED  BY <1>1, AlwaysSound, PTL DEF Spec, SendAuthorised

(* Once feedback has tied a delivery to a message at the provider, no       *)
(* further call is begun, even by a handler that claimed it before.         *)
THEOREM NeverCallsAfterFeedback == Spec => NoCallAfterFeedback
  <1>1. PipelineInv /\ [Next]_vars =>
          [\A d \in Deliveries :
             delivery'[d].count > delivery[d].count => delivery[d].outcome = "none"]_vars
    BY StepSound, CallBegun, Zenon
  <1> QED  BY <1>1, AlwaysSound, PTL DEF Spec, NoCallAfterFeedback
-----------------------------------------------------------------------------
(* The lifecycle's state of a recipient. *)
Stage(r) ==
    [opening |-> delivery[Opening(r)].state, recovery |-> delivery[<<"recovery", r>>].state]

(* The moves of one delivery that the lifecycle allows. *)
LEMMA AllowedMoves ==
    /\ \A x : Lifecycle!Moves(x, x)
    /\ Lifecycle!Moves("pending", "queued")
    /\ \A x \in Unfinished : Lifecycle!Moves(x, "processing")
    /\ \A x, y : Ends(x, y) => Lifecycle!Moves(x, y)
  <1>1. /\ DOMAIN DeliveryTransitions =
             {"waiting_dependency", "pending", "queued", "processing", "retryable_failed"}
        /\ "queued" \in DeliveryTransitions["pending"]
        /\ "processing" \in DeliveryTransitions["queued"]
        /\ "processing" \in DeliveryTransitions["retryable_failed"]
        /\ EndStates \subseteq DeliveryTransitions["processing"]
    BY Zenon DEF DeliveryTransitions, EndStates
  <1>2. /\ DOMAIN Lifecycle!LateMoves = {"processing", "retryable_failed", "unknown", "succeeded"}
        /\ {"succeeded", "permanent_failed"} \subseteq Lifecycle!LateMoves["retryable_failed"]
        /\ {"succeeded", "permanent_failed"} \subseteq Lifecycle!LateMoves["unknown"]
        /\ "permanent_failed" \in Lifecycle!LateMoves["succeeded"]
    BY Zenon DEF Lifecycle!LateMoves
  <1>3. \A x, y : CanTransition(x, y) => Lifecycle!Moves(x, y)
    BY Zenon DEF Lifecycle!Moves, CanTransition, Lifecycle!CanTransition, DeliveryTransitions,
           Lifecycle!DeliveryTransitions
  <1>4. \A x, y : x \in DOMAIN Lifecycle!LateMoves /\ y \in Lifecycle!LateMoves[x] =>
          Lifecycle!Moves(x, y)
    BY Zenon DEF Lifecycle!Moves
  <1>5. \A x : CanTransition(x, x)
    BY Zenon DEF CanTransition
  <1>6. CanTransition("pending", "queued") /\ \A x \in Unfinished : CanTransition(x, "processing")
    BY <1>1, Zenon DEF CanTransition, Unfinished
  <1>7. \A y \in EndStates : CanTransition("processing", y)
    BY <1>1, Zenon DEF CanTransition
  <1>8. \A x, y : Ends(x, y) => Lifecycle!Moves(x, y)
    BY <1>2, <1>3, <1>4, <1>5, <1>7, ZenonT(30) DEF Ends
  <1> QED  BY <1>3, <1>5, <1>6, <1>8, ZenonT(30)

(* An opening that moves, with the recovery that waits for it. *)
LEMMA OpeningMoves ==
    ASSUME NEW from, NEW to, NEW old, NEW new, from # "absent", Lifecycle!Moves(from, to),
           new = IF old = "waiting_dependency" /\ to # from /\ to \in SettledStates
                 THEN IF to = "succeeded" THEN "pending" ELSE "cancelled"
                 ELSE old
    PROVE  Lifecycle!Step([opening |-> from, recovery |-> old], [opening |-> to, recovery |-> new])
  <1>1. new = Lifecycle!Follows(from, old, to)
    BY Zenon DEF Lifecycle!Follows, SettledStates
  <1> QED  BY <1>1, Zenon DEF Lifecycle!Step, Lifecycle!MoveOpening

(* A recovery that moves by itself. *)
LEMMA RecoveryMoves ==
    ASSUME NEW opening, NEW from, NEW to, from \notin {"absent", "waiting_dependency"},
           Lifecycle!Moves(from, to)
    PROVE  Lifecycle!Step([opening |-> opening, recovery |-> from],
                          [opening |-> opening, recovery |-> to])
  BY Zenon DEF Lifecycle!Step, Lifecycle!MoveRecovery

(* One row moved, and no recovery was waiting for it to end. *)
LEMMA RowStep ==
    ASSUME PipelineInv, NEW d \in Deliveries, OnlyRow(d), NEW r \in Recipients,
           delivery[d].state \notin Unstarted,
           Lifecycle!Moves(delivery[d].state, delivery'[d].state),
           delivery'[d].state = delivery[d].state \/ delivery'[d].state \notin SettledStates
    PROVE  Stage(r)' = Stage(r) \/ Lifecycle!Step(Stage(r), Stage(r)')
  <1>1. Opening(r) \in Deliveries /\ <<"recovery", r>> \in Deliveries
        /\ Opening(r) # <<"recovery", r>>
    BY PairRows, Zenon DEF Opening
  <1>2. \A x \in Deliveries : x # d => delivery'[x] = delivery[x]
    BY Zenon DEF OnlyRow
  <1>3. CASE d # Opening(r) /\ d # <<"recovery", r>>
    BY <1>1, <1>2, <1>3, Zenon DEF Stage, Opening
  <1>4. CASE d = Opening(r)
    <2>1. delivery'[<<"recovery", r>>] = delivery[<<"recovery", r>>]
      BY <1>1, <1>2, <1>4, Zenon
    <2>2. delivery[d].state # "absent"
      BY Zenon DEF Unstarted
    <2>3. Lifecycle!Step([opening |-> delivery[d].state,
                          recovery |-> delivery[<<"recovery", r>>].state],
                         [opening |-> delivery'[d].state,
                          recovery |-> delivery[<<"recovery", r>>].state])
      BY <2>2, OpeningMoves, Zenon
    <2> QED  BY <1>4, <2>1, <2>3, Zenon DEF Stage, Opening
  <1>5. CASE d = <<"recovery", r>>
    <2>1. delivery'[Opening(r)] = delivery[Opening(r)]
      BY <1>1, <1>2, <1>5, Zenon
    <2>2. delivery[d].state \notin {"absent", "waiting_dependency"}
      BY Zenon DEF Unstarted
    <2>3. Lifecycle!Step([opening |-> delivery[Opening(r)].state, recovery |-> delivery[d].state],
                         [opening |-> delivery[Opening(r)].state, recovery |-> delivery'[d].state])
      BY <2>2, RecoveryMoves, ZenonT(30)
    <2> QED  BY <1>5, <2>1, <2>3, Zenon DEF Stage, Opening
  <1> QED  BY <1>3, <1>4, <1>5, ZenonT(30)

(* A delivery ended, with the recovery that waited for it. *)
LEMMA SettleStep ==
    ASSUME PipelineInv, NEW d \in Deliveries, SettleMoves(d), NEW r \in Recipients
    PROVE  Stage(r)' = Stage(r) \/ Lifecycle!Step(Stage(r), Stage(r)')
  <1> DEFINE R == <<"recovery", r>>
  <1>1. /\ Opening(r) \in Deliveries /\ R \in Deliveries /\ Opening(r) # R
        /\ d = <<d[1], d[2]>> /\ d[1] \in Kinds /\ Recovery(d) = <<"recovery", d[2]>>
        /\ delivery[R] \in Rows
    BY PairRows, ZenonT(30) DEF Opening, Recovery, PipelineInv, TypeInv
  <1>2. /\ Lifecycle!Moves(delivery[d].state, delivery'[d].state)
        /\ delivery[d].state \notin {"absent", "waiting_dependency"}
    BY AllowedMoves, Zenon DEF SettleMoves, Ends, Reconcilable, TerminalStates
  <1>3. \A x \in Deliveries : x # d /\ x # Recovery(d) => delivery'[x] = delivery[x]
    BY Zenon DEF SettleMoves
  <1>4. CASE d[2] # r
    BY <1>1, <1>3, <1>4, SMTT(30) DEF Stage, Opening
  <1>5. CASE d = Opening(r)
    <2>1. d[1] = "opening" /\ Recovery(d) = R
      BY <1>5, Zenon DEF Opening, Recovery
    <2>2. delivery'[R].state =
            IF /\ delivery[R].state = "waiting_dependency"
               /\ delivery'[d].state # delivery[d].state /\ delivery'[d].state \in SettledStates
            THEN IF delivery'[d].state = "succeeded" THEN "pending" ELSE "cancelled"
            ELSE delivery[R].state
      <3> HIDE DEF R
      <3> QED  BY <1>1, <2>1, PromotedRow, SMTT(30) DEF SettleMoves
    <2>3. Lifecycle!Step([opening |-> delivery[d].state, recovery |-> delivery[R].state],
                         [opening |-> delivery'[d].state, recovery |-> delivery'[R].state])
      <3> HIDE DEF R
      <3> QED  BY <1>2, <2>2, OpeningMoves, Zenon
    <2> QED  BY <1>5, <2>3, Zenon DEF Stage, Opening
  <1>6. CASE d = R
    <2>1. delivery'[Opening(r)] = delivery[Opening(r)]
      BY <1>1, <1>3, <1>6, Zenon
    <2>2. Lifecycle!Step([opening |-> delivery[Opening(r)].state, recovery |-> delivery[d].state],
                         [opening |-> delivery[Opening(r)].state, recovery |-> delivery'[d].state])
      BY <1>2, RecoveryMoves, Zenon
    <2> QED  BY <1>6, <2>1, <2>2, Zenon DEF Stage, Opening
  <1> QED  BY <1>1, <1>4, <1>5, <1>6, ZenonT(30) DEF Kinds, Opening

(* A page of rows was created. *)
LEMMA PageStep ==
    ASSUME PipelineInv, PageMoves, NEW r \in Recipients
    PROVE  Stage(r)' = Stage(r) \/ Lifecycle!Step(Stage(r), Stage(r)')
  <1> DEFINE R == <<"recovery", r>>
             O == Opening(r)
  <1>1. O \in Deliveries /\ R \in Deliveries /\ O[1] = "opening" /\ R[1] = "recovery" /\ R[2] = r
    BY PairRows, Zenon DEF Opening
  <1>2. /\ delivery'[O] = delivery[O] \/ Created(O)
        /\ delivery'[R] = delivery[R] \/ Created(R)
    BY <1>1, Zenon DEF PageMoves
  <1>3. delivery[R].state # "absent" => delivery[O].state # "absent"
    BY Zenon DEF PipelineInv, PairSound
  <1>4. CASE delivery'[O] = delivery[O] /\ delivery'[R] = delivery[R]
    BY <1>4, Zenon DEF Stage
  <1>5. CASE Created(O)
    <2>1. delivery[O].state = "absent" /\ delivery'[O].state \in {"pending", "cancelled"}
      <3> HIDE DEF O
      <3> QED  BY <1>1, <1>5, CreatedFields, ZenonT(30)
    <2>2. ~Created(R)
      BY <1>1, <2>1, Zenon DEF Created
    <2>3. delivery'[R] = delivery[R] /\ delivery[R].state = "absent"
      BY <1>2, <1>3, <2>1, <2>2, ZenonT(30)
    <2>4. ASSUME NEW first \in {"pending", "cancelled"}
          PROVE  Lifecycle!Step([opening |-> "absent", recovery |-> "absent"],
                                [opening |-> first, recovery |-> "absent"])
      <3>1. [opening |-> first, recovery |-> "absent"] = [Lifecycle!Absent EXCEPT !.opening = first]
        BY DEF Lifecycle!Absent
      <3>2. [opening |-> "absent", recovery |-> "absent"] = Lifecycle!Absent
        BY Zenon DEF Lifecycle!Absent
      <3> QED  BY <3>1, <3>2, ZenonT(30) DEF Lifecycle!Step, Lifecycle!Create
    <2>5. Lifecycle!Step([opening |-> "absent", recovery |-> "absent"],
                         [opening |-> delivery'[O].state, recovery |-> "absent"])
      BY <2>1, <2>4, Zenon
    <2> QED  BY <2>1, <2>3, <2>5, ZenonT(30) DEF Stage, Opening
  <1>6. CASE Created(R)
    <2>1. /\ delivery[O].state # "absent" /\ delivery'[O] = delivery[O]
          /\ delivery'[R].state \in Recoveries(delivery[O].state)
      BY <1>1, <1>6, Zenon DEF Created
    <2>2. delivery[R].state = "absent"
      <3> HIDE DEF R
      <3> QED  BY <1>1, <1>6, CreatedFields, Zenon
    <2>3. ASSUME NEW opening, opening # "absent", NEW to \in Recoveries(opening)
          PROVE  Lifecycle!Step([opening |-> opening, recovery |-> "absent"],
                                [opening |-> opening, recovery |-> to])
      BY <2>3, Zenon DEF Lifecycle!Step, Lifecycle!Create, Recoveries, Failed
    <2>4. Lifecycle!Step([opening |-> delivery[O].state, recovery |-> "absent"],
                         [opening |-> delivery[O].state, recovery |-> delivery'[R].state])
      BY <2>1, <2>3, Zenon
    <2> QED  BY <2>1, <2>2, <2>4, Zenon DEF Stage, Opening
  <1> QED  BY <1>2, <1>4, <1>5, <1>6, ZenonT(30)

(* The recipients' deliveries move as the lifecycle lets them. *)
LEMMA LifecycleStep ==
    ASSUME PipelineInv, StoreMoves, NEW r \in Recipients
    PROVE  Stage(r)' = Stage(r) \/ Lifecycle!Step(Stage(r), Stage(r)')
  <1>1. CASE delivery' = delivery
    BY <1>1, Zenon DEF Stage, Opening
  <1>2. ASSUME NEW d \in Deliveries, LeaseMoves(d)
        PROVE  Stage(r)' = Stage(r)
    <2>1. \A x \in Deliveries : delivery'[x].state = delivery[x].state
      BY <1>2, Zenon DEF LeaseMoves, OnlyRow, Core
    <2> QED  BY <2>1, PairRows, Zenon DEF Stage, Opening
  <1>3. ASSUME NEW d \in Deliveries, RowMoves(d)
        PROVE  Stage(r)' = Stage(r) \/ Lifecycle!Step(Stage(r), Stage(r)')
    <2>1. /\ delivery[d].state \notin Unstarted
          /\ delivery'[d].state = delivery[d].state \/ delivery'[d].state \notin SettledStates
      BY <1>3, Zenon DEF RowMoves, Unstarted, Unfinished, SettledStates
    <2>2. Lifecycle!Moves(delivery[d].state, delivery'[d].state)
      <3>1. \/ delivery'[d].state = delivery[d].state
            \/ delivery[d].state = "pending" /\ delivery'[d].state = "queued"
            \/ delivery[d].state \in Unfinished /\ delivery'[d].state = "processing"
            \/ delivery[d].state = "processing" /\ delivery'[d].state \in EndStates
        BY <1>3, Zenon DEF RowMoves, EndStates
      <3> QED  BY <3>1, AllowedMoves, Zenon DEF Ends
    <2> QED  BY <1>3, <2>1, <2>2, RowStep, ZenonT(30) DEF RowMoves
  <1> QED  BY <1>1, <1>2, <1>3, SettleStep, PageStep, Zenon DEF StoreMoves

(* The pipeline implements the lifecycle the domain model promises: each    *)
(* delivery moves along the domain's transitions or by reconciliation, and  *)
(* a recovery is created and released as its opening ended.                 *)
THEOREM LifecycleImplemented == Spec => ImplementsLifecycle
  <1> DEFINE State == [r \in Recipients |->
                         [opening |-> delivery[Opening(r)].state,
                          recovery |-> delivery[<<"recovery", r>>].state]]
  <1>1. Init => Lifecycle!Init
    <2> HAVE Init
    <2>1. PipelineInv /\ delivery = [d \in Deliveries |-> NoRow]
      BY InitSound, Zenon DEF Init, StoreInit
    <2>2. Channel \in {"email", "telegram"}
      BY <2>1, StoreAssumption, ZenonT(30) DEF PipelineInv, TypeInv, Outboxes, Channel, Kinds
    <2>3. \A r \in Recipients : State[r] = Lifecycle!Absent
      BY <2>1, PairRows, NewRow, ZenonT(30) DEF Lifecycle!Absent, NoRow
    <2>4. State = [r \in Recipients |-> Lifecycle!Absent]
      BY <2>3, ZenonT(30)
    <2> QED  BY <2>2, <2>4, Zenon DEF Lifecycle!Init
  <1>2. PipelineInv /\ [Next]_vars => [Lifecycle!Next]_<<State, Channel>>
    <2> HAVE PipelineInv /\ [Next]_vars
    <2>1. StoreMoves
      BY StepSound, Zenon
    <2>2. Channel' = Channel
      BY <2>1, Zenon DEF StoreMoves, ChannelKept
    <2>3. \A r \in Recipients : Stage(r)' = Stage(r) \/ Lifecycle!Step(Stage(r), Stage(r)')
      BY <2>1, LifecycleStep, Zenon
    <2>4. \A r \in Recipients : State[r] = Stage(r) /\ State'[r] = Stage(r)'
      BY Zenon DEF Stage, Opening
    <2>5. DOMAIN State' = Recipients
      BY Zenon
    <2> QED  BY <2>2, <2>3, <2>4, <2>5, ZenonT(30) DEF Lifecycle!Next, Stage, Opening
  <1> QED  BY <1>1, <1>2, AlwaysSound, PTL DEF Spec, ImplementsLifecycle, Lifecycle!Spec
=============================================================================
