------------------------ MODULE NotificationPipeline ------------------------
(***************************************************************************)
(* The notification pipeline: relay runs, jobs consumers and SES feedback  *)
(* consumers over one durable store, and the properties they keep between  *)
(* them.                                                                   *)
(***************************************************************************)
EXTENDS NotificationRelay, SesFeedback

vars == <<storeVars, relay, worker, provider, feedback, deduped>>

Init == StoreInit /\ RelayInit /\ WorkerInit /\ FeedbackInit

RelayStep == RelayNext /\ UNCHANGED <<worker, provider, feedback, deduped>>

WorkerStep == WorkerNext /\ UNCHANGED <<relay, feedback, deduped>>

FeedbackStep(c) == FeedbackNext(c) /\ UNCHANGED relay

EnvironmentStep ==
    /\ \/ Recover \/ ResolveManually
       \/ \E r \in Recipients, member \in BOOLEAN, preference \in BOOLEAN :
            ChangeGate(r, member, preference)
    /\ UNCHANGED <<relay, worker, provider, feedback, deduped>>

Next ==
    \/ RelayStep \/ WorkerStep \/ EnvironmentStep
    \/ \E c \in Consumers : FeedbackStep(c)

Spec == Init /\ [][Next]_vars

(* A relay runs every minute and looks at both lanes of its index; handlers *)
(* keep receiving the jobs that are in the queue; a step begun is gone on   *)
(* with; time passes, so leases run out.  Nothing is asked of SES, of the   *)
(* people who change gates, or of faults.                                   *)
RelayFairness(p) ==
    /\ \A k \in Kinds : WF_vars(ClaimOutbox(p, k) /\ RelayStep)
    /\ \A d \in Deliveries : WF_vars(ClaimDelivery(p, d) /\ RelayStep)
    /\ WF_vars(RelayWork(p) /\ RelayStep)

WorkerFairness(w) ==
    /\ \A d \in Deliveries : WF_vars(Claim(w, d) /\ WorkerStep)
    /\ WF_vars(Step(w) /\ WorkerStep)

Fairness ==
    /\ \A p \in Relays : RelayFairness(p)
    /\ \A w \in Workers : WorkerFairness(w)
    /\ \A k \in Kinds : WF_vars(ExpireOutboxLease(k) /\ RelayStep)
    /\ \A d \in Deliveries :
         /\ WF_vars(ExpireRelayLease(d) /\ RelayStep)
         /\ WF_vars(ExpireLease(d) /\ WorkerStep)
         /\ WF_vars(RepairPublication(d) /\ WorkerStep)

FairSpec == Spec /\ Fairness
-----------------------------------------------------------------------------
Leases(owners) == [owner : owners \cup {NoOwner}, epoch : Nat, live : BOOLEAN]

Rows ==
    [state : DeliveryStates \cup {"absent"}, rev : Nat, count : 0 .. MaxProviderCalls,
     possibly : BOOLEAN, exhausted : BOOLEAN, outcome : ProviderOutcomes,
     owner : 0 .. MaxProviderCalls, accepted : BOOLEAN, indexed : BOOLEAN,
     lease : Leases(Workers), relay : Leases(Relays)]

(* The types of the durable items; a row's attempts are those it counted,   *)
(* and no delivery is begun more often than MaxProviderCalls.               *)
TypeOK ==
    /\ status \in {"open", "resolved"}
    /\ outbox \in [Kinds -> [status : {"absent", "pending", "expanded"}, channel : Channels,
                             rev : Nat, cursor : Nat, lease : Leases(Relays)]]
    /\ delivery \in [Deliveries -> Rows]
    /\ \A d \in Deliveries :
         /\ Len(attempt[d]) = delivery[d].count
         /\ \A n \in 1 .. delivery[d].count :
              attempt[d][n] \in [outcome : AttemptOutcomes, provider : ProviderOutcomes,
                                 accepted : BOOLEAN]
    /\ gate \in [Recipients -> [member : BOOLEAN, preference : BOOLEAN, version : Nat]]
    /\ suppression \in [Recipients -> 0 .. 3]
    /\ queue \subseteq Deliveries

(* Every delivery that is not finished is where somebody will find it: on   *)
(* the relay index while pending, in the jobs queue from then on, whatever  *)
(* crashes between publishing, marking queued, claiming and completing.     *)
UnfinishedIsFindable ==
    \A d \in Deliveries :
      /\ delivery[d].state = "pending" => delivery[d].indexed
      /\ delivery[d].state \in {"queued", "processing", "retryable_failed"} => d \in queue

(* attempt_count bounds the provider calls, those about to be made          *)
(* included: duplicate jobs and stalled handlers make no call that          *)
(* BeginAttempt did not count, and it counts no more than MaxProviderCalls. *)
CallsCounted ==
    \A d \in Deliveries :
      /\ provider[d].calls + Cardinality({w \in Workers : At(w, "begun") /\ worker[w].d = d})
           <= delivery[d].count
      /\ delivery[d].count <= MaxProviderCalls

(* A delivery the provider accepted, by a call that succeeded or ended      *)
(* ambiguously, is recorded as failed only on a rejection SES reported: a   *)
(* later call's permanent error, an exhausted limit or a handler that never *)
(* saw the answer do not make it a failure.                                 *)
AcceptedNotFailed ==
    \A d \in Deliveries :
      delivery[d].state = "permanent_failed" /\ provider[d].accepted # provider[d].misread
        => \E n \in 1 .. MaxProviderCalls : <<d, n, "rejected">> \in deduped

(* Every bounce and complaint that was taken off the feedback queue counts: *)
(* concurrent feedback never lowers or loses the suppression of an address. *)
SuppressionRecorded ==
    \A key \in deduped :
      /\ key[3] = "hard_bounced" => suppression[key[1][2]] >= 2
      /\ key[3] = "complained" => suppression[key[1][2]] >= 3

(* A provider call is begun only for a recipient that is, in that very      *)
(* state, a member with the channel enabled and not suppressed, and, on     *)
(* Telegram, for an event still in the state the notification reports.      *)
SendAuthorised ==
    [][\A d \in Deliveries : delivery'[d].count > delivery[d].count => Authorised(d)]_vars

(* Once feedback has tied the delivery to a message at the provider, no     *)
(* further call is begun, even by a handler that claimed it before.         *)
NoCallAfterFeedback ==
    [][\A d \in Deliveries :
         delivery'[d].count > delivery[d].count => delivery[d].outcome = "none"]_vars

(* Fan-out forgets nobody: an expanded recovery has a row for every opening *)
(* row, and an expanded opening has one for every member whose preference   *)
(* never left it out, across pages, conflicts and crashed runs.             *)
FanoutComplete ==
    \A r \in Recipients :
      /\ outbox["recovery"].status = "expanded" /\ delivery[Opening(r)] # NoRow
           => delivery[<<"recovery", r>>] # NoRow
      /\ outbox["opening"].status = "expanded" /\ gate[r].version = 1
           => delivery[Opening(r)] # NoRow

(* The pipeline implements the lifecycle the domain model promises.         *)
Lifecycle ==
    INSTANCE DeliveryLifecycle WITH
      channel <- Channel,
      state <- [r \in Recipients |-> [opening |-> delivery[Opening(r)].state,
                                      recovery |-> delivery[<<"recovery", r>>].state]]

(* Refinement: whatever the processes do, each delivery moves along the     *)
(* domain's transitions or by reconciliation, cancelled and failed ones     *)
(* stay so, and a recovery is created and released as its opening ended: a  *)
(* waiting one, on no index and in no queue, is never left behind an        *)
(* opening that already settled (the absence and revision fences of the     *)
(* fan-out and of the dependency).                                          *)
ImplementsLifecycle == Lifecycle!Spec

(* Every outbox is expanded and every delivery ends, as unknown at worst,   *)
(* although relay runs and handlers crash, publications fail, claims lapse  *)
(* and no feedback ever comes.                                              *)
DeliveriesEnd ==
    /\ \A k \in Kinds : outbox[k].status = "pending" ~> outbox[k].status = "expanded"
    /\ \A d \in Deliveries :
         delivery[d].state \in NonterminalStates ~> delivery[d].state \in TerminalStates

(* A delivery whose claim lapsed is taken over by the next handler of its   *)
(* job: "A crash between Claim and BeginAttempt may therefore reclaim" and  *)
(* "exhausted ambiguity without feedback ends in unknown".                  *)
LapsedClaimRecoverable ==
    \A d \in Deliveries :
      delivery[d].state = "processing" /\ ~delivery[d].lease.live => Claimable(d)
=============================================================================
