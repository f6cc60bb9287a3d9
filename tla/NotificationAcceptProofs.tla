------------------------ MODULE NotificationAcceptProofs ------------------------
(***************************************************************************)
(* A delivery the provider accepted is not recorded as failed.  AcceptInv  *)
(* accounts for every accepted call beside PipelineInv: the row says that  *)
(* a message may be at the provider, or the call is the last one counted,  *)
(* its attempt is still started, and whoever closes it knows the answer or *)
(* records it as ambiguous.                                                *)
(***************************************************************************)
EXTENDS NotificationStepProofs

(* Acceptance.  The calls the provider accepted and did not report as       *)
(* refused, and what accounts for them in the store.                        *)
Answered(d) == provider[d].accepted \ provider[d].misread

Rejected(d) == \E n \in Calls : <<d, n, "rejected">> \in deduped

(* The row says that a message may be at the provider, or SES refused one. *)
Excused(d) ==
    \/ Rejected(d)
    \/ delivery[d].possibly /\ delivery[d].state # "permanent_failed"
    \/ delivery[d].state \in {"succeeded", "cancelled", "unknown"}

LastStarted(d) == delivery[d].count > 0 /\ LastOutcome(d) = "started"

InFlight(d) == delivery[d].state = "processing" /\ LastStarted(d)

AcceptanceSound(d) ==
    /\ provider[d].misread \subseteq provider[d].accepted
    /\ Answered(d) # {} =>
         Excused(d) \/ (InFlight(d) /\ Answered(d) \subseteq {delivery[d].count})
    /\ delivery[d].state \notin TerminalStates \cup {"processing"} => ~LastStarted(d)

Completing(x) == x.pc \in {"finish", "commit"}

(* A handler that neither makes nor completes a call, and one that answers  *)
(* for its call: whoever took the delivery over completes it as ambiguous.  *)
Apart(x) ==
    \/ x.pc \in {"claimed", "ready", "limited", "fenced"}
    \/ Completing(x) /\ x.by # "attempt"

Caller(x) ==
    \/ x.pc = "begun"
    \/ Completing(x) /\ x.by = "attempt" /\ x.completion.outcome # "ambiguous"

HandlerHonest(x) ==
    /\ x.pc = "begun" =>
         /\ x.record.count \notin provider[x.d].accepted
         /\ Excused(x.d) \/ (InFlight(x.d) /\ x.record.count = delivery[x.d].count)
    /\ Apart(x) /\ x.record.rev = delivery[x.d].rev => ~LastStarted(x.d)
    /\ Completing(x) =>
         /\ x.by # "attempt" => x.completion.outcome = "none"
         /\ x.completion.next = "permanent_failed" => ~x.record.possibly
         /\ x.completion.outcome = "ambiguous" =>
              x.completion.possibly /\ x.completion.next # "permanent_failed"
         /\ Caller(x) /\ x.record.count \in Answered(x.d) =>
              x.completion.outcome = "succeeded"

(* No two handlers answer for the same call. *)
OneCaller ==
    \A w, x \in Workers :
      w # x /\ Caller(worker[w]) /\ Caller(worker[x]) /\ worker[w].d = worker[x].d =>
        worker[w].record.count # worker[x].record.count

AcceptInv ==
    /\ \A d \in Deliveries : AcceptanceSound(d)
    /\ \A w \in Workers : HandlerHonest(worker[w])
    /\ OneCaller

(* What a step may do to the account of a delivery.  Only a call that was   *)
(* neither accepted nor is about to be made may be closed without trace.    *)
Watched(d) ==
    Answered(d) # {} \/ \E w \in Workers : worker[w].pc = "begun" /\ worker[w].d = d

AccountKept(d) ==
    /\ Excused(d) => Excused(d)'
    /\ LastStarted(d)' /\ delivery'[d].rev = delivery[d].rev => LastStarted(d)
    /\ delivery'[d].state \notin TerminalStates \cup {"processing"} => ~LastStarted(d)'
    /\ InFlight(d) /\ Watched(d) =>
         Excused(d)' \/ (InFlight(d)' /\ delivery'[d].count = delivery[d].count)

(* No row's revision goes down. *)
LEMMA RevsRise ==
    ASSUME PipelineInv, StoreMoves, NEW d \in Deliveries
    PROVE  delivery[d].rev \in Int /\ delivery'[d].rev \in Int
           /\ delivery[d].rev <= delivery'[d].rev
  <1>1. delivery[d] \in Rows /\ delivery[d].rev \in Int
    BY DEF PipelineInv, TypeInv, Rows
  <1>2. CASE delivery' = delivery
    BY <1>1, <1>2
  <1>3. ASSUME NEW x \in Deliveries, LeaseMoves(x) \/ RowMoves(x)
        PROVE  delivery'[d].rev \in {delivery[d].rev, delivery[d].rev + 1}
    BY <1>3, Zenon DEF LeaseMoves, RowMoves, OnlyRow, Core
  <1>4. ASSUME NEW x \in Deliveries, SettleMoves(x)
        PROVE  delivery'[d].rev \in {delivery[d].rev, delivery[d].rev + 1}
    <2>1. x = <<x[1], x[2]>> /\ x[1] \in Kinds /\ Recovery(x) = <<"recovery", x[2]>>
      BY PairRows, Zenon DEF Recovery
    <2>2. CASE d = Recovery(x) /\ d # x
      <3>1. x[1] = "opening"
        BY <2>1, <2>2, Zenon DEF Kinds
      <3>2. \/ delivery'[d] = Promoted(delivery[d], delivery'[x].state)
            \/ delivery'[d] = delivery[d]
        BY <1>4, <2>2, <3>1, Zenon DEF SettleMoves
      <3> QED  BY <1>1, <3>2, PromotedRow
    <2> QED  BY <1>4, <2>2, Zenon DEF SettleMoves
  <1>5. ASSUME PageMoves PROVE delivery'[d].rev = delivery[d].rev
    BY <1>5, CreatedFields, ZenonT(30) DEF PageMoves
  <1>6. delivery'[d].rev \in {delivery[d].rev, delivery[d].rev + 1}
    BY <1>2, <1>3, <1>4, <1>5, Zenon DEF StoreMoves
  <1> QED  BY <1>1, <1>6

(* A handler that a step leaves alone. *)
LEMMA HandlerLeft ==
    ASSUME PipelineInv, AcceptInv, StoreMoves, provider' = provider, NEW w \in Workers,
           worker'[w] = worker[w], \A d \in Deliveries : AccountKept(d)
    PROVE  HandlerHonest(worker[w])'
  <1>1. HandlerHonest(worker[w])
    BY Zenon DEF AcceptInv
  <1>2. CASE worker[w].pc = "idle"
    BY <1>2, Zenon DEF HandlerHonest, Apart, Completing
  <1>3. CASE worker[w].pc # "idle"
    <2>1. /\ worker[w].d \in Deliveries /\ Remembers(worker[w].record, worker[w].d)
          /\ worker[w].record.rev \in Int
      BY <1>3, WorkerHas, RowFlags, SMTT(30)
    <2>2. /\ AccountKept(worker[w].d)
          /\ delivery[worker[w].d].rev \in Int /\ delivery'[worker[w].d].rev \in Int
          /\ delivery[worker[w].d].rev <= delivery'[worker[w].d].rev
      BY <2>1, RevsRise, Zenon
    <2>3. worker[w].record.rev = delivery'[worker[w].d].rev =>
            worker[w].record.rev = delivery[worker[w].d].rev
          /\ delivery'[worker[w].d].rev = delivery[worker[w].d].rev
      BY <2>1, <2>2 DEF Remembers
    <2>4. worker[w].pc = "begun" => Watched(worker[w].d)
      BY Zenon DEF Watched
    <2>5. (worker[w].pc = "begun" =>
             /\ worker[w].record.count \notin provider[worker[w].d].accepted
             /\ \/ Excused(worker[w].d)
                \/ /\ InFlight(worker[w].d)
                   /\ worker[w].record.count = delivery[worker[w].d].count)'
      BY <1>1, <2>2, <2>4, ZenonT(30) DEF HandlerHonest, AccountKept
    <2>6. (Apart(worker[w]) /\ worker[w].record.rev = delivery[worker[w].d].rev =>
             ~LastStarted(worker[w].d))'
      BY <1>1, <2>2, <2>3, Zenon DEF HandlerHonest, AccountKept
    <2> QED  BY <1>1, <2>5, <2>6, ZenonT(30) DEF HandlerHonest, Answered
  <1> QED  BY <1>2, <1>3, Zenon

LEMMA AcceptKept ==
    ASSUME PipelineInv, AcceptInv, StoreMoves, provider' = provider, OneCaller',
           \A d \in Deliveries : AccountKept(d),
           \A w \in Workers : worker'[w] = worker[w] \/ HandlerHonest(worker[w])'
    PROVE  AcceptInv'
  <1>1. ASSUME NEW d \in Deliveries PROVE AcceptanceSound(d)'
    BY Zenon DEF AcceptInv, AcceptanceSound, AccountKept, Answered, Watched
  <1>2. \A w \in Workers : HandlerHonest(worker[w])'
    BY HandlerLeft, ZenonT(30)
  <1> QED  BY <1>1, <1>2, Zenon DEF AcceptInv

(* A handler's step that begins no call. *)
LEMMA HandlerActs ==
    ASSUME PipelineInv, AcceptInv, StoreMoves, provider' = provider, NEW w \in Workers,
           NEW value, Become(w, value), \A d \in Deliveries : AccountKept(d),
           HandlerHonest(worker[w])',
           Caller(value) => /\ Caller(worker[w]) /\ value.d = worker[w].d
                            /\ value.record.count = worker[w].record.count
    PROVE  AcceptInv'
  <1>1. \A x \in Workers : worker'[x] = IF x = w THEN value ELSE worker[x]
    BY ZenonT(30) DEF Become, PipelineInv, TypeInv
  <1>2. \A x \in Workers : Caller(worker'[x]) =>
          /\ Caller(worker[x]) /\ worker'[x].d = worker[x].d
          /\ worker'[x].record.count = worker[x].record.count
    BY <1>1, ZenonT(30)
  <1>3. OneCaller'
    BY <1>2 DEF AcceptInv, OneCaller
  <1> QED  BY <1>1, <1>3, AcceptKept, Zenon

LEMMA HandlerRests ==
    ASSUME PipelineInv, AcceptInv, StoreMoves, provider' = provider, NEW w \in Workers,
           Become(w, Resting), \A d \in Deliveries : AccountKept(d)
    PROVE  AcceptInv'
  <1>1. worker'[w] = Resting /\ Resting.pc = "idle"
    BY Zenon DEF Become, Resting, PipelineInv, TypeInv
  <1>2. HandlerHonest(worker[w])' /\ ~Caller(Resting)
    BY <1>1, Zenon DEF HandlerHonest, Apart, Caller, Completing
  <1> QED  BY <1>2, HandlerActs, Zenon

(* Nothing happens to a delivery. *)
LEMMA AccountSame ==
    ASSUME PipelineInv, AcceptInv, NEW d \in Deliveries, delivery'[d] = delivery[d],
           attempt'[d] = attempt[d], deduped \subseteq deduped'
    PROVE  AccountKept(d)
  <1>1. Rejected(d) => Rejected(d)'
    BY Zenon DEF Rejected
  <1>2. LastStarted(d)' <=> LastStarted(d)
    BY Zenon DEF LastStarted, LastOutcome
  <1> QED  BY <1>1, <1>2, Zenon DEF AccountKept, Excused, InFlight, AcceptInv, AcceptanceSound

(* A row moves on with its attempts as they are. *)
LEMMA AccountMoves ==
    ASSUME PipelineInv, AcceptInv, NEW d \in Deliveries, attempt'[d] = attempt[d],
           deduped \subseteq deduped', delivery'[d].count = delivery[d].count,
           delivery[d].state \notin TerminalStates, delivery'[d].state # "permanent_failed",
           delivery[d].possibly => delivery'[d].possibly,
           LastStarted(d) => delivery'[d].state \in {"processing", "unknown"}
    PROVE  AccountKept(d)
  <1>1. Rejected(d) => Rejected(d)'
    BY Zenon DEF Rejected
  <1>2. LastStarted(d)' <=> LastStarted(d)
    BY Zenon DEF LastStarted, LastOutcome
  <1> QED  BY <1>1, <1>2, ZenonT(30) DEF AccountKept, Excused, InFlight, TerminalStates

(* Only a row's leases change. *)
LEMMA AccountLeased ==
    ASSUME PipelineInv, AcceptInv, NEW d \in Deliveries, attempt'[d] = attempt[d],
           deduped \subseteq deduped', Core(delivery'[d]) = Core(delivery[d])
    PROVE  AccountKept(d)
  <1>1. /\ delivery'[d].state = delivery[d].state /\ delivery'[d].count = delivery[d].count
        /\ delivery'[d].possibly = delivery[d].possibly
    BY Zenon DEF Core
  <1>2. Rejected(d) => Rejected(d)'
    BY Zenon DEF Rejected
  <1>3. LastStarted(d)' <=> LastStarted(d)
    BY <1>1, ZenonT(30) DEF LastStarted, LastOutcome
  <1> QED  BY <1>1, <1>2, <1>3, Zenon DEF AccountKept, Excused, InFlight, AcceptInv, AcceptanceSound

(* What becomes of the mark that a message may be at the provider. *)
LEMMA MarkKept ==
    ASSUME NEW row \in Rows
    PROVE  /\ Queued(row).possibly = row.possibly /\ Deferred(row).possibly = row.possibly
           /\ Unknown(row).state = "unknown" /\ Unknown(row).count = row.count
           /\ Unknown(row).possibly
           /\ \A next : Promoted(row, next).possibly = row.possibly
           /\ \A lease : [Bumped(row) EXCEPT !.state = "processing", !.lease = lease].possibly
                           = row.possibly
           /\ \A lease : [Bumped(row) EXCEPT !.relay = lease].possibly = row.possibly
           /\ [Bumped(row) EXCEPT !.count = @ + 1].possibly = row.possibly
  <1> DEFINE b == Bumped(row)
  <1>1. b \in Rows /\ b.possibly = row.possibly /\ b.count = row.count
    BY BumpedRow, Zenon
  <1> HIDE DEF b
  <1>2. /\ [b EXCEPT !.state = "queued", !.indexed = FALSE, !.relay = NoLease].possibly
             = b.possibly
        /\ \A lease : [b EXCEPT !.state = "retryable_failed", !.lease = lease].possibly
                        = b.possibly
        /\ \A lease : [b EXCEPT !.state = "processing", !.lease = lease].possibly = b.possibly
        /\ \A lease : [b EXCEPT !.relay = lease].possibly = b.possibly
        /\ [b EXCEPT !.state = "pending", !.indexed = TRUE].possibly = b.possibly
        /\ [b EXCEPT !.state = "cancelled", !.indexed = FALSE].possibly = b.possibly
        /\ [b EXCEPT !.count = @ + 1].possibly = b.possibly
    BY <1>1, ZenonT(30) DEF Rows
  <1>3. \A lease : LET new == [b EXCEPT !.state = "unknown", !.possibly = TRUE,
                                        !.exhausted = FALSE, !.lease = lease]
                   IN new.state = "unknown" /\ new.count = b.count /\ new.possibly
    BY <1>1, ZenonT(30) DEF Rows
  <1> QED  BY <1>1, <1>2, <1>3, Zenon DEF Queued, Deferred, Unknown, Promoted, b

(* A handler goes on with the same record, the store as it is. *)
LEMMA HandlerMoves ==
    ASSUME PipelineInv, AcceptInv, StoreMoves, NEW w \in Workers, NEW value, Become(w, value),
           UNCHANGED <<delivery, attempt, provider, deduped>>, value.pc # "begun",
           value.d = worker[w].d, value.record = worker[w].record,
           Apart(value) => Apart(worker[w]), Caller(value) => Caller(worker[w]),
           Completing(value) =>
             /\ value.by # "attempt" => value.completion.outcome = "none"
             /\ value.completion.next = "permanent_failed" => ~value.record.possibly
             /\ value.completion.outcome = "ambiguous" =>
                  value.completion.possibly /\ value.completion.next # "permanent_failed"
             /\ Caller(value) /\ value.record.count \in Answered(value.d) =>
                  value.completion.outcome = "succeeded"
    PROVE  AcceptInv'
  <1>1. worker'[w] = value
    BY ZenonT(30) DEF Become, PipelineInv, TypeInv
  <1>2. \A d \in Deliveries : AccountKept(d)
    BY AccountSame, Zenon
  <1>3. \A d : (LastStarted(d)' <=> LastStarted(d)) /\ Answered(d)' = Answered(d)
    BY ZenonT(30) DEF LastStarted, LastOutcome, Answered
  <1>4. HandlerHonest(worker[w])
    BY Zenon DEF AcceptInv
  <1>5. HandlerHonest(worker[w])'
    BY <1>1, <1>3, <1>4, Zenon DEF HandlerHonest
  <1> QED  BY <1>2, <1>5, HandlerActs, Zenon

(* The plans that do without a call. *)
LEMMA PlansApart ==
    ASSUME NEW possibly \in BOOLEAN
    PROVE  \A plan \in {PlanPermanent("none", possibly), PlanFatal("none", possibly)} :
             plan.outcome = "none" /\ (plan.next = "permanent_failed" => ~possibly)
  BY DEF PlanPermanent, PlanFatal, Completion

LEMMA AcceptFinishes ==
    ASSUME PipelineInv, AcceptInv, StoreMoves, NEW w \in Workers, deduped' = deduped,
           CompleteInterrupted(w) \/ CallLimit(w) \/ GatesDeny(w) \/ PreflightFails(w)
    PROVE  AcceptInv'
  <1>0. /\ UNCHANGED <<delivery, attempt, provider, deduped>>
        /\ worker[w].pc \in {"interrupted", "ready", "limited"}
    BY Zenon DEF CompleteInterrupted, CallLimit, GatesDeny, PreflightFails, Ready, At, storeVars
  <1>1. worker[w].record.possibly \in BOOLEAN
    BY <1>0, WorkerHas, RowFlags, Zenon
  <1> DEFINE Plan(by, completion) ==
        [pc |-> "finish", d |-> worker[w].d, record |-> worker[w].record, by |-> by,
         completion |-> completion, merge |-> by = "attempt", retry |-> by = "attempt"]
  <1>2. CASE CompleteInterrupted(w)
    <2>1. PICK completion :
            /\ Become(w, Plan("attempt", completion)) /\ completion.outcome = "ambiguous"
            /\ completion.possibly /\ completion.next # "permanent_failed"
      <3>1. \A last : LET plan == PlanAmbiguous(Channel, last) IN
              plan.outcome = "ambiguous" /\ plan.possibly /\ plan.next # "permanent_failed"
        BY ZenonT(30) DEF PlanAmbiguous, Completion
      <3> QED  BY <1>2, <3>1, Zenon DEF CompleteInterrupted, Finish
    <2>2. LET value == Plan("attempt", completion) IN
            ~Apart(value) /\ ~Caller(value) /\ value.completion = completion
      BY <2>1, Zenon DEF Apart, Caller, Completing
    <2> QED  BY <1>0, <2>1, <2>2, HandlerMoves, ZenonT(30)
  <1>3. ASSUME NEW by \in {"preflight", "cancel"}, NEW completion,
               Become(w, Plan(by, completion)), worker[w].pc \in {"ready", "limited"},
               completion.outcome = "none",
               completion.next = "permanent_failed" => ~worker[w].record.possibly
        PROVE  AcceptInv'
    <2>1. LET value == Plan(by, completion) IN ~Caller(value) /\ value.completion = completion
      BY Zenon DEF Caller, Completing
    <2>2. Apart(worker[w])
      BY <1>3, Zenon DEF Apart
    <2> QED  BY <1>0, <1>3, <2>1, <2>2, HandlerMoves, ZenonT(30)
  <1>4. CASE CallLimit(w)
    <2>1. worker[w].pc = "ready"
          /\ Become(w, Plan("preflight", PlanPermanent("none", worker[w].record.possibly)))
      BY <1>4, Zenon DEF CallLimit, Finish, At
    <2> QED  BY <1>1, <1>3, <2>1, PlansApart, ZenonT(30)
  <1>5. CASE GatesDeny(w)
    <2>1. PICK possibly, exhausted : /\ worker[w].pc \in {"ready", "limited"}
                /\ Become(w, Plan("cancel", Completion("none", "cancelled", possibly, exhausted)))
      BY <1>5 DEF GatesDeny, Finish, At, Ready
    <2>2. LET plan == Completion("none", "cancelled", possibly, exhausted) IN
            plan.outcome = "none" /\ plan.next = "cancelled"
      BY Zenon DEF Completion
    <2> QED  BY <1>3, <2>1, <2>2, ZenonT(30)
  <1>6. CASE PreflightFails(w)
    <2>1. PICK plan \in {PlanPermanent("none", worker[w].record.possibly),
                         PlanFatal("none", worker[w].record.possibly)} :
            worker[w].pc = "limited" /\ Become(w, Plan("preflight", plan))
      BY <1>6, Zenon DEF PreflightFails, Finish, At
    <2> QED  BY <1>1, <1>3, <2>1, PlansApart, ZenonT(30)
  <1> QED  BY <1>2, <1>4, <1>5, <1>6, ZenonT(30)

LEMMA AcceptThinks ==
    ASSUME PipelineInv, AcceptInv, StoreMoves, NEW w \in Workers, deduped' = deduped,
           Refresh(w) \/ GatesAllow(w) \/ ReadDependency(w) \/ WorkerCrash(w)
    PROVE  AcceptInv'
  <1>0. UNCHANGED <<delivery, attempt, provider, deduped>> /\ worker[w].pc # "idle"
    BY Zenon DEF Refresh, GatesAllow, ReadDependency, WorkerCrash, Ready, At, storeVars
  <1>1. worker[w] \in WorkerStates /\ HandlerHonest(worker[w])
    BY <1>0, WorkerHas, Zenon DEF AcceptInv
  <1>2. CASE Become(w, Resting)
    BY <1>0, <1>2, AccountSame, HandlerRests, ZenonT(30)
  <1>3. ASSUME NEW pc \in {"ready", "limited"}, worker[w].pc \in {"claimed", "ready"},
               Become(w, [worker[w] EXCEPT !.pc = pc])
        PROVE  AcceptInv'
    <2> DEFINE value == [worker[w] EXCEPT !.pc = pc]
    <2>1. value.pc = pc /\ value.d = worker[w].d /\ value.record = worker[w].record
      BY <1>1, <1>3 DEF WorkerStates, Resting
    <2> HIDE DEF value
    <2>2. ~Caller(value) /\ ~Completing(value) /\ Apart(worker[w])
      BY <1>3, <2>1, Zenon DEF Caller, Completing, Apart
    <2> QED  BY <1>0, <1>3, <2>1, <2>2, HandlerMoves, ZenonT(30) DEF value
  <1>4. CASE Refresh(w)
    BY <1>2, <1>3, <1>4, ZenonT(30) DEF Refresh, At
  <1>5. CASE GatesAllow(w)
    <2>1. CASE At(w, "ready")
      BY <1>3, <1>5, <2>1, ZenonT(30) DEF GatesAllow, At
    <2>2. CASE ~At(w, "ready")
      <3>1. PICK fence :
              Become(w, [pc |-> "fenced", d |-> worker[w].d, record |-> worker[w].record,
                         fence |-> fence])
        BY <1>5, <2>2, ZenonT(30) DEF GatesAllow
      <3>2. Apart(worker[w])
        BY <1>5, <2>2, ZenonT(30) DEF GatesAllow, Ready, At, Apart
      <3>3. LET value == [pc |-> "fenced", d |-> worker[w].d, record |-> worker[w].record,
                          fence |-> fence]
            IN ~Caller(value) /\ ~Completing(value)
        BY Zenon DEF Caller, Completing
      <3> QED  BY <1>0, <3>1, <3>2, <3>3, HandlerMoves, ZenonT(30)
    <2> QED  BY <2>1, <2>2, Zenon
  <1>6. CASE ReadDependency(w)
    <2>1. PICK dep :
            Become(w, [dep |-> dep, pc |-> "commit", d |-> worker[w].d,
                       record |-> worker[w].record, by |-> worker[w].by,
                       completion |-> worker[w].completion, merge |-> worker[w].merge,
                       retry |-> worker[w].retry])
      BY <1>6, ZenonT(30) DEF ReadDependency
    <2> DEFINE value == [dep |-> dep, pc |-> "commit", d |-> worker[w].d,
                         record |-> worker[w].record, by |-> worker[w].by,
                         completion |-> worker[w].completion, merge |-> worker[w].merge,
                         retry |-> worker[w].retry]
    <2>2. /\ value.pc = "commit" /\ value.d = worker[w].d /\ value.record = worker[w].record
          /\ value.by = worker[w].by /\ value.completion = worker[w].completion
      BY Zenon
    <2>3. worker[w].pc = "finish"
      BY <1>6, Zenon DEF ReadDependency, At
    <2> HIDE DEF value
    <2>4. /\ Completing(worker[w]) /\ Completing(value)
          /\ Apart(value) => Apart(worker[w])
          /\ Caller(value) <=> Caller(worker[w])
      BY <2>2, <2>3, Zenon DEF Completing, Apart, Caller
    <2>5. Become(w, value)
      BY <2>1, ZenonT(30) DEF value
    <2> QED  BY <1>0, <1>1, <2>2, <2>4, <2>5, HandlerMoves, ZenonT(30) DEF HandlerHonest
  <1>7. CASE WorkerCrash(w)
    BY <1>2, <1>7, Zenon DEF WorkerCrash
  <1> QED  BY <1>4, <1>5, <1>6, <1>7, ZenonT(30)

(* One row moves on with its attempts as they are; the others stay. *)
LEMMA AccountsMove ==
    ASSUME PipelineInv, AcceptInv, NEW d \in Deliveries, attempt' = attempt,
           deduped' = deduped, \A x \in Deliveries : x # d => delivery'[x] = delivery[x],
           AccountKept(d)
    PROVE  \A x \in Deliveries : AccountKept(x)
  BY AccountSame, Zenon

LEMMA AcceptClaims ==
    ASSUME PipelineInv, AcceptInv, StoreMoves, NEW w \in Workers, NEW d \in Deliveries,
           deduped' = deduped, Claim(w, d)
    PROVE  AcceptInv'
  <1> DEFINE lease == [owner |-> w, epoch |-> Bumped(delivery[d]).lease.epoch + 1, live |-> TRUE]
             claimed == [Bumped(delivery[d]) EXCEPT !.state = "processing", !.lease = lease]
             started == delivery[d].state = "processing" /\ LastStarted(d)
  <1>1. /\ Claimable(d) /\ delivery' = [delivery EXCEPT ![d] = claimed]
        /\ attempt' = attempt /\ provider' = provider
    BY Zenon DEF Claim
  <1>2. PICK pc \in {"interrupted", "claimed", "ready"} :
          /\ Become(w, [pc |-> pc, d |-> d, record |-> claimed])
          /\ started => pc = "interrupted"
    BY Zenon DEF Claim, LastStarted
  <1>3. delivery[d] \in Rows /\ delivery \in [Deliveries -> Rows]
    BY Zenon DEF PipelineInv, TypeInv
  <1>4. /\ claimed.state = "processing" /\ claimed.count = delivery[d].count
        /\ claimed.possibly = delivery[d].possibly
    BY <1>3, ClaimedRow, MarkKept, ZenonT(30)
  <1> HIDE DEF claimed
  <1>5. delivery'[d] = claimed /\ \A x \in Deliveries : x # d => delivery'[x] = delivery[x]
    BY <1>1, <1>3, Zenon
  <1>6. delivery[d].state \in {"queued", "retryable_failed", "processing"}
    BY <1>1, ZenonT(30) DEF Claimable
  <1>7. AccountKept(d)
    BY <1>1, <1>4, <1>5, <1>6, AccountMoves, ZenonT(30) DEF TerminalStates
  <1>8. \A x \in Deliveries : AccountKept(x)
    BY <1>1, <1>5, <1>7, AccountsMove, ZenonT(30)
  <1>9. worker'[w] = [pc |-> pc, d |-> d, record |-> claimed]
    BY <1>2, Zenon DEF Become, PipelineInv, TypeInv
  <1>10. pc # "interrupted" => ~LastStarted(d)'
    <2>1. LastStarted(d)' <=> LastStarted(d)
      BY <1>1, <1>4, <1>5, ZenonT(30) DEF LastStarted, LastOutcome
    <2>2. delivery[d].state # "processing" => ~LastStarted(d)
      BY <1>6, Zenon DEF AcceptInv, AcceptanceSound, TerminalStates
    <2> QED  BY <1>2, <2>1, <2>2, ZenonT(30)
  <1>11. HandlerHonest(worker[w])'
    BY <1>9, <1>10, SMTT(30) DEF HandlerHonest, Apart, Completing
  <1>12. ~Caller([pc |-> pc, d |-> d, record |-> claimed])
    BY Zenon DEF Caller, Completing
  <1> QED  BY <1>1, <1>2, <1>8, <1>11, <1>12, HandlerActs, ZenonT(30)

(* The claim is ended without a call. *)
LEMMA AcceptGivesUp ==
    ASSUME PipelineInv, AcceptInv, StoreMoves, NEW w \in Workers, deduped' = deduped,
           FinalizeUnknown(w) \/ DeferClaim(w)
    PROVE  AcceptInv'
  <1> DEFINE d == worker[w].d
  <1>1. /\ Become(w, Resting) /\ UNCHANGED <<attempt, provider>>
        /\ worker[w].pc \in {"claimed", "ready", "limited", "fenced"}
    BY ZenonT(30) DEF FinalizeUnknown, DeferClaim, Ready, At
  <1>2. /\ d \in Deliveries /\ delivery \in [Deliveries -> Rows] /\ delivery[d] \in Rows
        /\ HandlerHonest(worker[w])
    BY <1>1, WorkerHas, ZenonT(30) DEF PipelineInv, TypeInv, AcceptInv
  <1>3. CASE delivery' = delivery
    BY <1>1, <1>3, AccountSame, HandlerRests, ZenonT(30)
  <1>4. CASE /\ HoldsClaim(w)
             /\ \E row \in {Unknown(delivery[d]), Deferred(delivery[d])} :
                  delivery' = [delivery EXCEPT ![d] = row]
    <2>1. PICK row \in {Unknown(delivery[d]), Deferred(delivery[d])} :
            delivery' = [delivery EXCEPT ![d] = row]
      BY <1>4, ZenonT(30)
    <2>2. /\ row.state \in {"unknown", "retryable_failed"} /\ row.count = delivery[d].count
          /\ delivery[d].possibly => row.possibly
      BY <1>2, <2>1, MarkKept, DeferredRow
    <2>3. delivery[d].state = "processing" /\ ~LastStarted(d)
      BY <1>1, <1>2, <1>4, ZenonT(30) DEF HoldsClaim, HandlerHonest, Apart
    <2> HIDE DEF d
    <2>4. delivery'[d] = row /\ \A x \in Deliveries : x # d => delivery'[x] = delivery[x]
      BY <1>2, <2>1, Zenon
    <2>5. \A x \in Deliveries : x = d => AccountKept(x)
      BY <1>1, <2>2, <2>3, <2>4, AccountMoves, ZenonT(30) DEF TerminalStates
    <2>6. \A x \in Deliveries : AccountKept(x)
      BY <1>1, <1>2, <2>4, <2>5, AccountSame, ZenonT(30)
    <2> QED  BY <1>1, <2>6, HandlerRests, Zenon
  <1> QED  BY <1>3, <1>4, Zenon DEF FinalizeUnknown, DeferClaim

(* A call is begun: no handler answers for it but this one. *)
LEMMA AcceptBegins ==
    ASSUME PipelineInv, AcceptInv, StoreMoves, NEW w \in Workers, deduped' = deduped,
           BeginAttempt(w)
    PROVE  AcceptInv'
  <1>1. /\ worker[w].pc = "fenced" /\ provider' = provider
        /\ attempt \in [Deliveries -> Seq(AttemptRows)] /\ delivery \in [Deliveries -> Rows]
    BY Zenon DEF BeginAttempt, At, PipelineInv, TypeInv
  <1>2. PICK d \in Deliveries : d = worker[w].d /\ delivery[d] \in Rows
    BY <1>1, WorkerHas, Zenon
  <1> DEFINE begun == [Bumped(delivery[d]) EXCEPT !.count = @ + 1]
             added == [outcome |-> "started", provider |-> "none", accepted |-> FALSE]
             value == [pc |-> "begun", d |-> d, record |-> begun]
  <1>3. CASE Become(w, Resting) /\ UNCHANGED <<delivery, attempt>>
    BY <1>1, <1>3, AccountSame, HandlerRests, ZenonT(30)
  <1>4. CASE /\ HoldsClaim(w) /\ Become(w, value)
             /\ delivery' = [delivery EXCEPT ![d] = begun]
             /\ attempt' = [attempt EXCEPT ![d] = Append(@, added)]
    <2>1. delivery[d].state = "processing" /\ ~LastStarted(d)
      <3>1. HandlerHonest(worker[w]) /\ Apart(worker[w])
        BY <1>1, Zenon DEF AcceptInv, Apart
      <3> QED  BY <1>2, <1>4, <3>1, ZenonT(30) DEF HoldsClaim, HandlerHonest
    <2>2. /\ delivery[d].count \in Nat /\ Len(attempt[d]) = delivery[d].count
          /\ provider[d].accepted \subseteq 1 .. delivery[d].count /\ delivery[d].rev \in Nat
      BY <1>2, RowFlags DEF PipelineInv, RowSound
    <2>3. /\ begun.count = delivery[d].count + 1 /\ begun.rev = delivery[d].rev + 1
          /\ begun.state = "processing" /\ begun.possibly = delivery[d].possibly
      <3>1. LET b == Bumped(delivery[d]) IN
            /\ b \in Rows /\ b.count = delivery[d].count /\ b.rev = delivery[d].rev + 1
            /\ b.state = delivery[d].state
        BY <1>2, BumpedRow, Zenon
      <3>2. \A b \in Rows : LET new == [b EXCEPT !.count = @ + 1] IN
              new.count = b.count + 1 /\ new.rev = b.rev /\ new.state = b.state
        BY Zenon DEF Rows
      <3> QED  BY <1>2, <2>1, <3>1, <3>2, MarkKept, SMTT(30)
    <2> HIDE DEF begun
    <2>4. delivery'[d] = begun /\ \A x \in Deliveries : x # d => delivery'[x] = delivery[x]
      BY <1>1, <1>4, Zenon
    <2>5. attempt'[d] = Append(attempt[d], added)
          /\ \A x \in Deliveries : x # d => attempt'[x] = attempt[x]
      BY <1>1, <1>4, Zenon
    <2>6. LastStarted(d)'
      <3>1. attempt[d] \in Seq(AttemptRows)
        BY <1>1, Zenon
      <3>2. attempt'[d][delivery[d].count + 1] = added
        BY <2>2, <2>5, <3>1, SMTT(30)
      <3> QED  BY <2>2, <2>3, <2>4, <3>2, SMTT(30) DEF LastStarted, LastOutcome
    <2>7. InFlight(d)'
      BY <2>3, <2>4, <2>6, ZenonT(30) DEF InFlight
    <2>8. AccountKept(d)
      <3>1. Excused(d) => Excused(d)'
        BY <2>1, <2>3, <2>4, Zenon DEF Excused, Rejected
      <3>2. delivery'[d].rev # delivery[d].rev
        BY <2>2, <2>3, <2>4
      <3> QED  BY <2>1, <2>3, <2>4, <3>1, <3>2, ZenonT(30) DEF AccountKept, InFlight
    <2>9. \A x \in Deliveries : AccountKept(x)
      BY <2>4, <2>5, <2>8, AccountSame, ZenonT(30)
    <2>10. \A x \in Workers : worker'[x] = IF x = w THEN value ELSE worker[x]
      BY <1>4, Zenon DEF Become, PipelineInv, TypeInv
    <2>11. HandlerHonest(worker[w])'
      <3>1. value.record.count \notin provider[d].accepted
        BY <2>2, <2>3
      <3> QED  BY <1>1, <2>4, <2>7, <2>10, <3>1 DEF HandlerHonest, Apart, Completing
    <2>12. \A x \in Workers : x # w /\ Caller(worker[x]) /\ worker[x].d = d =>
             worker[x].record.count # value.record.count
      <3> SUFFICES ASSUME NEW x \in Workers, Caller(worker[x]), worker[x].d = d
                   PROVE  worker[x].record.count # value.record.count
        BY Zenon
      <3>1. worker[x].pc # "idle"
        BY Zenon DEF Caller, Completing
      <3>2. worker[x].record \in Rows /\ worker[x].record.count <= delivery[d].count
        BY <3>1, WorkerHas, Zenon DEF Remembers
      <3> QED  BY <2>2, <2>3, <3>2, RowFlags
    <2>13. OneCaller'
      BY <2>10, <2>12, SMTT(30) DEF AcceptInv, OneCaller
    <2> QED  BY <1>1, <2>9, <2>10, <2>11, <2>13, AcceptKept, ZenonT(30)
  <1> QED  BY <1>2, <1>3, <1>4, ZenonT(30) DEF BeginAttempt

(* The plan for how a call ended. *)
LEMMA PlansAnswer ==
    ASSUME NEW result \in SendResults, NEW possibly \in BOOLEAN, NEW last \in BOOLEAN
    PROVE  LET plan == PlanResult(result, Channel, possibly, last) IN
           /\ plan.next = "permanent_failed" => ~possibly
           /\ plan.outcome = "ambiguous" => plan.possibly /\ plan.next # "permanent_failed"
           /\ result = "accepted" => plan.outcome = "succeeded"
           /\ result = "ambiguous" => plan.outcome = "ambiguous"
  <1>1. CASE result = "accepted"
    BY <1>1, Zenon DEF PlanResult, Completion
  <1>2. CASE result = "permanent"
    BY <1>2, ZenonT(30) DEF PlanResult, PlanPermanent, Completion
  <1>3. CASE result = "fatal"
    BY <1>3, ZenonT(30) DEF PlanResult, PlanFatal, Completion
  <1>4. CASE result = "retryable"
    <2>1. PlanResult(result, Channel, possibly, last) = PlanRetryable(possibly, last)
      BY <1>4, Zenon DEF PlanResult
    <2>2. PlanRetryable(possibly, last).outcome = "retryable"
          /\ (PlanRetryable(possibly, last).next = "permanent_failed" => ~possibly)
      BY Zenon DEF PlanRetryable, Completion
    <2> QED  BY <1>4, <2>1, <2>2, ZenonT(30)
  <1>5. CASE result = "ambiguous"
    BY <1>5, Zenon DEF PlanResult, PlanAmbiguous, Completion
  <1> QED  BY <1>1, <1>2, <1>3, <1>4, <1>5, ZenonT(30) DEF SendResults

(* A call is made: the provider may accept it, and the handler learns how   *)
(* it ended or that it does not know.                                       *)
LEMMA AcceptSends ==
    ASSUME PipelineInv, AcceptInv, NEW w \in Workers, deduped' = deduped,
           NEW result \in Results, Send(w, result)
    PROVE  AcceptInv'
  <1>1. worker[w].pc = "begun" /\ UNCHANGED <<delivery, attempt, deduped>>
    BY ZenonT(30) DEF Send, At, storeVars
  <1>2. PICK d \in Deliveries : d = worker[w].d
    BY <1>1, WorkerHas, Zenon
  <1>3. PICK n \in Int : n = worker[w].record.count
    BY <1>1, WorkerHas, RowFlags, ZenonT(30)
  <1>4. worker[w].record \in Rows /\ result \in SendResults
    BY <1>1, WorkerHas, WorkerAssumption, ZenonT(30)
  <1> DEFINE plan == PlanResult(result, Channel, worker[w].record.possibly,
                                LastCall(worker[w].record))
             value == [pc |-> "finish", d |-> d, record |-> worker[w].record, by |-> "attempt",
                       completion |-> plan, merge |-> TRUE, retry |-> TRUE]
  <1>5. /\ plan.next = "permanent_failed" => ~worker[w].record.possibly
        /\ plan.outcome = "ambiguous" => plan.possibly /\ plan.next # "permanent_failed"
        /\ result = "accepted" => plan.outcome = "succeeded"
        /\ result = "ambiguous" => plan.outcome = "ambiguous"
    BY <1>4, RowFlags, PlansAnswer, SMTT(30)
  <1>6. Become(w, value)
    BY <1>2, Zenon DEF Send, Finish
  <1> HIDE DEF plan
  <1>7. \A x \in Workers : worker'[x] = IF x = w THEN value ELSE worker[x]
    BY <1>6, Zenon DEF Become, PipelineInv, TypeInv
  <1>8. /\ value.pc = "finish" /\ value.d = d /\ value.record.count = n /\ value.by = "attempt"
        /\ value.record = worker[w].record /\ value.completion = plan
    BY <1>3, Zenon
  <1> HIDE DEF value
  <1>9. PICK accepted \in Accepts(result) :
          LET this == IF accepted THEN {n} ELSE {} IN
          provider' = [provider EXCEPT ![d] =
            [calls |-> provider[d].calls + 1, accepted |-> provider[d].accepted \cup this,
             misread |-> IF result = "retryable" THEN provider[d].misread \cup this
                         ELSE provider[d].misread]]
    BY <1>2, <1>3, Zenon DEF Send
  <1> DEFINE this == IF accepted THEN {n} ELSE {}
  <1>10. /\ \A x \in Deliveries : x # d => provider'[x] = provider[x]
         /\ provider'[d].accepted = provider[d].accepted \cup this
         /\ provider'[d].misread = IF result = "retryable" THEN provider[d].misread \cup this
                                   ELSE provider[d].misread
    BY <1>9, ZenonT(30) DEF PipelineInv, TypeInv
  <1>11. this # {} => this = {n} /\ result \in {"accepted", "ambiguous", "retryable"}
    BY <1>4, <1>9, ZenonT(30) DEF Accepts, SendResults
  <1> HIDE DEF this
  <1>12. /\ n \notin provider[d].accepted
         /\ Excused(d) \/ (InFlight(d) /\ n = delivery[d].count)
    BY <1>1, <1>2, <1>3, Zenon DEF AcceptInv, HandlerHonest
  <1>13. /\ provider[d].misread \subseteq provider[d].accepted
         /\ provider'[d].misread \subseteq provider'[d].accepted
    BY <1>10, ZenonT(30) DEF AcceptInv, AcceptanceSound
  <1>14. /\ Answered(d)' \subseteq Answered(d) \cup {n}
         /\ n \in Answered(d)' => result \in {"accepted", "ambiguous"}
    BY <1>10, <1>11, <1>12, <1>13, ZenonT(30) DEF Answered
  <1>15. \A x : /\ LastStarted(x)' <=> LastStarted(x)
                /\ Excused(x)' <=> Excused(x)
                /\ InFlight(x)' <=> InFlight(x)
    BY <1>1, Zenon DEF LastStarted, LastOutcome, Excused, Rejected, InFlight
  <1>16. \A x \in Deliveries : x # d => Answered(x)' = Answered(x)
    BY <1>10, ZenonT(30) DEF Answered
  <1>17. ASSUME NEW x \in Deliveries PROVE AcceptanceSound(x)'
    <2>1. AcceptanceSound(x)
      BY Zenon DEF AcceptInv
    <2>2. CASE x # d
      BY <1>1, <1>10, <1>15, <1>16, <2>1, <2>2, ZenonT(30) DEF AcceptanceSound
    <2>3. CASE x = d
      BY <1>1, <1>12, <1>13, <1>14, <1>15, <2>1, <2>3, ZenonT(30) DEF AcceptanceSound
    <2> QED  BY <2>2, <2>3, Zenon
  <1>18. ASSUME NEW x \in Workers, x # w PROVE HandlerHonest(worker[x])'
    <2>1. HandlerHonest(worker[x]) /\ worker'[x] = worker[x]
      BY <1>7, <1>18, ZenonT(30) DEF AcceptInv
    <2>2. Caller(worker[w])
      BY <1>1, Zenon DEF Caller
    <2>3. Caller(worker[x]) /\ worker[x].d = d => worker[x].record.count # n
      BY <1>2, <1>3, <1>18, <2>2, ZenonT(30) DEF AcceptInv, OneCaller
    <2>4. Caller(worker[x]) => worker[x].pc # "idle"
      BY Zenon DEF Caller, Completing
    <2>5. Caller(worker[x]) =>
            /\ worker[x].record.count \notin provider[worker[x].d].accepted =>
                 worker[x].record.count \notin provider'[worker[x].d].accepted
            /\ worker[x].record.count \in Answered(worker[x].d)' =>
                 worker[x].record.count \in Answered(worker[x].d)
      <3> HAVE Caller(worker[x])
      <3>1. worker[x].d \in Deliveries
        BY <2>4, WorkerHas, Zenon
      <3>2. CASE worker[x].d # d
        BY <1>10, <1>16, <2>1, <3>1, <3>2, ZenonT(30)
      <3>3. CASE worker[x].d = d
        BY <1>10, <1>11, <1>14, <2>1, <2>3, <3>3, ZenonT(30)
      <3> QED  BY <3>2, <3>3, Zenon
    <2>6. worker[x].pc = "begun" => Caller(worker[x])
      BY Zenon DEF Caller
    <2> QED  BY <1>1, <1>15, <2>1, <2>5, <2>6, ZenonT(30) DEF HandlerHonest
  <1>19. HandlerHonest(worker[w])'
    <2>1. worker'[w] = value
      BY <1>7, Zenon
    <2>2. Caller(value) => plan.outcome # "ambiguous"
      BY <1>8, Zenon DEF Caller
    <2>3. Caller(value) /\ n \in Answered(d)' => plan.outcome = "succeeded"
      BY <1>5, <1>14, <2>2, ZenonT(30)
    <2>4. ~Apart(value)
      BY <1>8, Zenon DEF Apart, Completing
    <2>5. Answered(worker[w].d)' = Answered(d)'
      BY <1>8, <2>1, Zenon DEF Answered
    <2> QED  BY <1>5, <1>8, <2>1, <2>3, <2>4, <2>5, ZenonT(30) DEF HandlerHonest
  <1>20. OneCaller'
    <2>1. Caller(worker[w])
      BY <1>1, Zenon DEF Caller
    <2>2. \A x \in Workers : Caller(worker'[x]) =>
            /\ Caller(worker[x]) /\ worker'[x].d = worker[x].d
            /\ worker'[x].record.count = worker[x].record.count
      BY <1>2, <1>3, <1>7, <1>8, <2>1, ZenonT(30)
    <2> QED  BY <2>2, SMTT(30) DEF AcceptInv, OneCaller
  <1> QED  BY <1>17, <1>18, <1>19, <1>20, ZenonT(30) DEF AcceptInv

(* The recovery that a transaction releases has made no call. *)
LEMMA AccountsSettle ==
    ASSUME PipelineInv, AcceptInv, NEW d \in Deliveries, NEW row, NEW dep \in Dependencies,
           DependencyHolds(d, dep), delivery' = Settled(d, row, dep), AccountKept(d),
           \A x \in Deliveries : x # d => attempt'[x] = attempt[x], deduped \subseteq deduped'
    PROVE  \A x \in Deliveries : AccountKept(x)
  <1> SUFFICES ASSUME NEW x \in Deliveries, x # d PROVE AccountKept(x)
    BY Zenon
  <1>1. delivery[x] \in Rows
    BY Zenon DEF PipelineInv, TypeInv
  <1>2. CASE x = Recovery(d) /\ dep.op = "release"
    <2>1. delivery[x].state = "waiting_dependency"
      BY <1>2, Zenon DEF DependencyHolds
    <2>2. delivery'[x] = Promoted(delivery[x], row.state)
      BY <1>2, Zenon DEF Settled
    <2>3. /\ delivery'[x].count = delivery[x].count
          /\ delivery'[x].possibly = delivery[x].possibly
          /\ delivery'[x].state \in {"pending", "cancelled"}
      BY <1>1, <2>2, PromotedRow, MarkKept, SMTT(30)
    <2>4. ~LastStarted(x)
      BY <2>1, Zenon DEF AcceptInv, AcceptanceSound, TerminalStates
    <2> QED  BY <2>1, <2>3, <2>4, AccountMoves, ZenonT(30) DEF TerminalStates
  <1>3. CASE ~(x = Recovery(d) /\ dep.op = "release")
    <2>1. delivery'[x] = delivery[x]
      BY <1>3, Zenon DEF Settled
    <2> QED  BY <2>1, AccountSame, Zenon
  <1> QED  BY <1>2, <1>3, Zenon

(* The last attempt of a row that counts one is among its attempts. *)
LEMMA CountsAttempts ==
    ASSUME PipelineInv, NEW d \in Deliveries, delivery[d].count > 0
    PROVE  delivery[d].count \in 1 .. Len(attempt[d])
  <1>1. delivery[d] \in Rows /\ Len(attempt[d]) = delivery[d].count
    BY Zenon DEF PipelineInv, TypeInv, RowSound
  <1>2. delivery[d].count \in Int
    BY <1>1, RowFlags, Zenon
  <1> QED  BY <1>1, <1>2, SMTT(30)

(* The attempt a handler ends is no longer started. *)
LEMMA AttemptClosed ==
    ASSUME PipelineInv, NEW w \in Workers, worker[w].pc = "commit", worker[w].by = "attempt",
           FinishAttempt(w), NEW d \in Deliveries, d = worker[w].d,
           NEW n, n = worker[w].record.count
    PROVE  /\ attempt'[d][n].outcome = worker[w].completion.outcome
           /\ worker[w].completion.outcome # "started"
           /\ \A m \in 1 .. Len(attempt[d]) : m # n => attempt'[d][m] = attempt[d][m]
           /\ \A x \in Deliveries : x # d => attempt'[x] = attempt[x]
  <1> DEFINE a == AttemptDone(attempt[d][n], worker[w].completion)
  <1>1. /\ worker[w] \in WorkerStates /\ worker[w].record \in Rows /\ n > 0
        /\ delivery[d] \in Rows /\ n <= delivery[d].count /\ Len(attempt[d]) = delivery[d].count
        /\ attempt \in [Deliveries -> Seq(AttemptRows)] /\ attempt[d] \in Seq(AttemptRows)
    BY WorkerHas, ZenonT(30) DEF PlaceSound, Remembers, PipelineInv, RowSound, TypeInv
  <1>2. n \in 1 .. Len(attempt[d])
    BY <1>1, RowFlags
  <1>3. worker[w].completion.outcome # "started"
    <2>1. worker[w].completion \in Completions
      BY <1>1, WorkerFields, Zenon
    <2> QED  BY <2>1, Zenon DEF Completions, AttemptOutcomes
  <1>4. a.outcome = worker[w].completion.outcome
    <2>1. attempt[d][n] \in AttemptRows
      BY <1>1, <1>2, SMTT(30)
    <2> QED  BY <2>1, Zenon DEF AttemptDone, AttemptRows
  <1>5. attempt' = [attempt EXCEPT ![d][n] = a]
    BY Zenon DEF FinishAttempt
  <1> HIDE DEF a
  <1>6. d \in DOMAIN attempt /\ DOMAIN attempt[d] = 1 .. Len(attempt[d])
    BY <1>1, SMTT(30)
  <1>7. attempt'[d] = [attempt[d] EXCEPT ![n] = a]
    BY <1>5, <1>6, Zenon
  <1>8. attempt'[d][n] = a
    BY <1>2, <1>6, <1>7, Zenon
  <1>9. \A m \in 1 .. Len(attempt[d]) : m # n => attempt'[d][m] = attempt[d][m]
    BY <1>6, <1>7, Zenon
  <1>10. \A x \in Deliveries : x # d => attempt'[x] = attempt[x]
    BY <1>1, <1>5, Zenon
  <1> QED  BY <1>3, <1>4, <1>8, <1>9, <1>10, Zenon

(* The row a handler writes keeps the mark that a message may be there. *)
LEMMA MarkCompleted ==
    ASSUME NEW row \in Rows, NEW w
    PROVE  Completed(row, w).possibly = (worker[w].completion.possibly \/ worker[w].record.possibly)
  <1> DEFINE b == Bumped(row)
             c == worker[w].completion
             possibly == c.possibly \/ worker[w].record.possibly
  <1>1. b \in Rows
    BY BumpedRow, Zenon
  <1>2. \E lease, outcome, owner : Completed(row, w) =
          [b EXCEPT !.state = c.next, !.possibly = possibly, !.exhausted = c.exhausted,
                    !.lease = lease, !.outcome = outcome, !.owner = owner]
    BY Zenon DEF Completed
  <1> HIDE DEF b, c, possibly
  <1>3. Completed(row, w).possibly = possibly
    BY <1>1, <1>2, Zenon DEF Rows
  <1> QED  BY <1>3, Zenon DEF possibly, c

(* A completion is written: what is known of the call is in the row, or the *)
(* row says that it is not known.                                           *)
LEMMA AcceptCommits ==
    ASSUME PipelineInv, AcceptInv, StoreMoves, NEW w \in Workers, deduped' = deduped, Commit(w)
    PROVE  AcceptInv'
  <1>1. /\ worker[w].pc = "commit" /\ HoldsClaim(w) /\ FinishAttempt(w) /\ provider' = provider
        /\ Become(w, Resting)
    BY Zenon DEF Commit, At, CommitHolds
  <1>2. PICK d \in Deliveries : d = worker[w].d /\ delivery[d] \in Rows
    BY <1>1, WorkerHas, Zenon
  <1>3. /\ delivery' = Settled(d, Completed(delivery[d], w), worker[w].dep)
        /\ DependencyHolds(d, worker[w].dep)
    BY <1>2, ZenonT(30) DEF Commit, CommitHolds
  <1>4. worker[w] \in WorkerStates /\ worker[w].dep \in Dependencies
        /\ worker[w].completion \in Completions /\ worker[w].record \in Rows
    BY <1>1, WorkerHas, WorkerFields, Zenon
  <1>5. /\ delivery[d].state = "processing" /\ worker[w].record.count = delivery[d].count
        /\ worker[w].record.possibly = delivery[d].possibly
        /\ worker[w].record.rev = delivery[d].rev
    BY <1>1, <1>2, ClaimHeld, CoreFields, SMTT(30)
  <1> DEFINE row == Completed(delivery[d], w)
             c == worker[w].completion
  <1>6. /\ row.state = c.next /\ row.count = delivery[d].count
        /\ row.rev = delivery[d].rev + 1 /\ delivery[d].rev \in Int
        /\ row.possibly = (c.possibly \/ delivery[d].possibly)
    BY <1>1, <1>2, <1>5, CompletedRow, MarkCompleted, RowFlags
  <1>7. delivery'[d] = row
    BY <1>3, Zenon DEF Settled
  <1> HIDE DEF row
  <1>8. HandlerHonest(worker[w]) /\ Completing(worker[w])
    BY <1>1, ZenonT(30) DEF AcceptInv, Completing
  <1>9. Excused(d) => Excused(d)'
    BY <1>2, <1>5, <1>6, <1>7, <1>8, ZenonT(30) DEF Excused, Rejected, HandlerHonest
  <1>10. delivery'[d].rev # delivery[d].rev
    BY <1>6, <1>7, SMTT(30)
  <1>11. CASE worker[w].by # "attempt"
    <2>1. attempt' = attempt
      BY <1>1, <1>11, Zenon DEF FinishAttempt
    <2>2. ~LastStarted(d)
      BY <1>2, <1>5, <1>8, <1>11, ZenonT(30) DEF HandlerHonest, Apart
    <2>3. ~LastStarted(d)'
      BY <1>6, <1>7, <2>1, <2>2, ZenonT(30) DEF LastStarted, LastOutcome
    <2>4. AccountKept(d)
      BY <1>9, <2>2, <2>3, ZenonT(30) DEF AccountKept, InFlight
    <2>5. \A x \in Deliveries : AccountKept(x)
      BY <1>3, <1>4, <2>1, <2>4, AccountsSettle, ZenonT(30)
    <2> QED  BY <1>1, <2>5, HandlerRests, ZenonT(30)
  <1>12. CASE worker[w].by = "attempt"
    <2>1. /\ attempt'[d][delivery[d].count].outcome = c.outcome /\ c.outcome # "started"
          /\ \A x \in Deliveries : x # d => attempt'[x] = attempt[x]
      BY <1>1, <1>2, <1>5, <1>12, AttemptClosed, ZenonT(30)
    <2>2. ~LastStarted(d)'
      BY <1>6, <1>7, <2>1, ZenonT(30) DEF LastStarted, LastOutcome
    <2>3. c.outcome = "ambiguous" => Excused(d)'
      BY <1>6, <1>7, <1>8, ZenonT(30) DEF HandlerHonest, Excused
    <2>4. c.outcome = "succeeded" => Excused(d)'
      BY <1>4, <1>6, <1>7, ZenonT(30) DEF Completions, Excused
    <2>5. ASSUME c.outcome # "ambiguous", InFlight(d), Watched(d)
          PROVE  Excused(d)'
      <3>1. Caller(worker[w])
        BY <1>8, <1>12, <2>5, ZenonT(30) DEF Caller
      <3>2. CASE Answered(d) # {}
        <4>1. Excused(d) \/ delivery[d].count \in Answered(d)
          BY <3>2, Zenon DEF AcceptInv, AcceptanceSound
        <4>2. delivery[d].count \in Answered(d) => c.outcome = "succeeded"
          BY <1>2, <1>5, <1>8, <3>1, ZenonT(30) DEF HandlerHonest
        <4> QED  BY <1>9, <2>4, <4>1, <4>2, ZenonT(30)
      <3>3. ASSUME NEW x \in Workers, worker[x].pc = "begun", worker[x].d = d
            PROVE  Excused(d)'
        <4>1. Excused(d) \/ worker[x].record.count = delivery[d].count
          BY <3>3, ZenonT(30) DEF AcceptInv, HandlerHonest
        <4>2. Caller(worker[x]) /\ x # w
          BY <1>1, <3>3, Zenon DEF Caller
        <4>3. worker[x].record.count # worker[w].record.count
          BY <1>2, <3>1, <3>3, <4>2, ZenonT(30) DEF AcceptInv, OneCaller
        <4> QED  BY <1>5, <1>9, <4>1, <4>3, ZenonT(30)
      <3> QED  BY <2>5, <3>2, <3>3, ZenonT(30) DEF Watched
    <2>6. AccountKept(d)
      BY <1>9, <2>2, <2>3, <2>5, ZenonT(30) DEF AccountKept
    <2>7. \A x \in Deliveries : AccountKept(x)
      BY <1>3, <1>4, <2>1, <2>6, AccountsSettle, ZenonT(30)
    <2> QED  BY <1>1, <2>7, HandlerRests, ZenonT(30)
  <1> QED  BY <1>11, <1>12, ZenonT(30)

(* A transaction that was cancelled.  The attempt of an ended delivery is   *)
(* closed beside it.                                                        *)
LEMMA AcceptConflicts ==
    ASSUME PipelineInv, AcceptInv, StoreMoves, NEW w \in Workers, deduped' = deduped,
           CommitConflict(w)
    PROVE  AcceptInv'
  <1>1. worker[w].pc = "commit" /\ UNCHANGED <<delivery, provider, deduped>>
    BY Zenon DEF CommitConflict, At
  <1>2. PICK d \in Deliveries : d = worker[w].d /\ delivery[d] \in Rows
    BY <1>1, WorkerHas, Zenon
  <1>3. worker[w] \in WorkerStates /\ worker[w].completion \in Completions
        /\ PlaceSound(worker[w])
    BY <1>1, WorkerHas, WorkerFields, ZenonT(30)
  <1>4. HandlerHonest(worker[w]) /\ Completing(worker[w])
    BY <1>1, Zenon DEF AcceptInv, Completing
  <1> DEFINE c == worker[w].completion
             by == worker[w].by
             Replanned(record, merge, retry) ==
               [pc |-> "finish", d |-> d, record |-> record, by |-> by, completion |-> c,
                merge |-> merge, retry |-> retry]
  <1>5. CASE attempt' = attempt /\ Become(w, Resting)
    BY <1>1, <1>5, AccountSame, HandlerRests, ZenonT(30)
  <1>6. CASE attempt' = attempt /\ Mergeable(w) /\ Again(w, delivery[d], FALSE, TRUE)
    <2> DEFINE value == Replanned(delivery[d], FALSE, TRUE)
    <2>1. Become(w, value)
      BY <1>2, <1>6, ZenonT(30) DEF Again
    <2>2. /\ value.pc = "finish" /\ value.d = d /\ value.record = delivery[d]
          /\ value.by = by /\ value.completion = c
      BY Zenon
    <2> HIDE DEF value
    <2>3. c.outcome = "succeeded" /\ c.next = "succeeded"
          /\ delivery[d].count = worker[w].record.count
      BY <1>2, <1>3, <1>6, ZenonT(30) DEF Mergeable, Completions
    <2>4. by = "attempt"
      BY <1>4, <2>3, ZenonT(30) DEF HandlerHonest
    <2>5. worker'[w] = value
      BY <2>1, ZenonT(30) DEF Become, PipelineInv, TypeInv
    <2>6. ~Apart(value) /\ Caller(worker[w])
      BY <1>4, <2>2, <2>3, <2>4, Zenon DEF Apart, Caller, Completing
    <2>7. HandlerHonest(worker[w])'
      BY <2>2, <2>3, <2>4, <2>5, <2>6, ZenonT(30) DEF HandlerHonest
    <2>8. \A x \in Deliveries : AccountKept(x)
      BY <1>1, <1>6, AccountSame, ZenonT(30)
    <2> QED  BY <1>1, <1>2, <2>1, <2>2, <2>3, <2>6, <2>7, <2>8, HandlerActs, ZenonT(30)
  <1>7. CASE attempt' = attempt /\ Again(w, worker[w].record, worker[w].merge, FALSE)
    <2> DEFINE value == Replanned(worker[w].record, worker[w].merge, FALSE)
    <2>1. Become(w, value)
      BY <1>2, <1>7, ZenonT(30) DEF Again
    <2>2. /\ value.pc = "finish" /\ value.d = d /\ value.record = worker[w].record
          /\ value.by = by /\ value.completion = c
      BY Zenon
    <2> HIDE DEF value
    <2>3. /\ Completing(value)
          /\ Apart(value) => Apart(worker[w])
          /\ Caller(value) <=> Caller(worker[w])
      BY <1>4, <2>2, Zenon DEF Completing, Apart, Caller
    <2>4. UNCHANGED <<delivery, attempt, provider, deduped>>
      BY <1>1, <1>7, ZenonT(30)
    <2>5. value.d = worker[w].d /\ value.record = worker[w].record
      BY <1>2, <2>2, Zenon
    <2>6. /\ value.by # "attempt" => value.completion.outcome = "none"
          /\ value.completion.next = "permanent_failed" => ~value.record.possibly
          /\ value.completion.outcome = "ambiguous" =>
               value.completion.possibly /\ value.completion.next # "permanent_failed"
          /\ Caller(value) /\ value.record.count \in Answered(value.d) =>
               value.completion.outcome = "succeeded"
      BY <1>4, <2>2, <2>3, <2>5, ZenonT(30) DEF HandlerHonest
    <2>7. value.pc # "begun"
      BY <2>2, Zenon
    <2> QED  BY <2>1, <2>3, <2>4, <2>5, <2>6, <2>7, HandlerMoves, ZenonT(30)
  <1>8. CASE /\ delivery[d].state \in TerminalStates /\ by = "attempt"
             /\ FinishAttempt(w) /\ Become(w, Resting)
    <2>1. PICK n \in Nat : n = worker[w].record.count
      <3>1. worker[w].record \in Rows
        BY <1>1, WorkerHas, ZenonT(30)
      <3>2. worker[w].record.count \in 0 .. MaxProviderCalls
        BY <3>1, RowFlags, Zenon
      <3> QED  BY <3>2, SMTT(30)
    <2>2. /\ attempt'[d][n].outcome = c.outcome /\ c.outcome # "started"
          /\ \A m \in 1 .. Len(attempt[d]) : m # n => attempt'[d][m] = attempt[d][m]
          /\ \A x \in Deliveries : x # d => attempt'[x] = attempt[x]
      <3>1. worker[w].pc = "commit" /\ worker[w].by = "attempt" /\ FinishAttempt(w)
        BY <1>1, <1>8, Zenon
      <3> QED  BY <1>2, <2>1, <3>1, AttemptClosed, SMTT(30)
    <2>3. LastStarted(d)' => LastStarted(d)
      <3>1. PICK m : m = delivery[d].count
        BY Zenon
      <3>2. m > 0 => m \in 1 .. Len(attempt[d])
        BY <1>2, <3>1, CountsAttempts, ZenonT(30)
      <3>3. m > 0 => attempt'[d][m] = attempt[d][m] \/ attempt'[d][m].outcome # "started"
        BY <2>2, <3>2, Zenon
      <3> QED  BY <1>1, <3>1, <3>3, ZenonT(30) DEF LastStarted, LastOutcome
    <2>4. Excused(d) => Excused(d)'
      BY <1>1, Zenon DEF Excused, Rejected
    <2>5. AccountKept(d)
      BY <1>1, <1>8, <2>3, <2>4, ZenonT(30) DEF AccountKept, InFlight, TerminalStates
    <2>6. \A x \in Deliveries : AccountKept(x)
      BY <1>1, <2>2, <2>5, AccountSame, ZenonT(30)
    <2> QED  BY <1>1, <1>8, <2>6, HandlerRests, ZenonT(30)
  <1> QED  BY <1>2, <1>5, <1>6, <1>7, <1>8, ZenonT(30) DEF CommitConflict

(* The handlers are left alone. *)
LEMMA AcceptFramed ==
    ASSUME PipelineInv, AcceptInv, StoreMoves, UNCHANGED <<worker, provider>>,
           \A d \in Deliveries : AccountKept(d)
    PROVE  AcceptInv'
  <1>1. OneCaller'
    BY Zenon DEF AcceptInv, OneCaller
  <1> QED  BY <1>1, AcceptKept, Zenon

(* A row that is pending is rewritten, or its leases are. *)
LEMMA AcceptPending ==
    ASSUME PipelineInv, AcceptInv, StoreMoves,
           UNCHANGED <<attempt, worker, provider, deduped>>, NEW d \in Deliveries, NEW row,
           delivery' = [delivery EXCEPT ![d] = row],
           \/ Core(row) = Core(delivery[d])
           \/ /\ delivery[d].state = "pending" /\ row.state \in {"pending", "queued"}
              /\ row.count = delivery[d].count /\ row.possibly = delivery[d].possibly
    PROVE  AcceptInv'
  <1>1. delivery'[d] = row /\ \A x \in Deliveries : x # d => delivery'[x] = delivery[x]
    BY Zenon DEF PipelineInv, TypeInv
  <1>2. CASE Core(row) = Core(delivery[d])
    BY <1>1, <1>2, AccountLeased, AccountsMove, AcceptFramed, ZenonT(30)
  <1>3. CASE /\ delivery[d].state = "pending" /\ row.state \in {"pending", "queued"}
             /\ row.count = delivery[d].count /\ row.possibly = delivery[d].possibly
    <2>1. ~LastStarted(d)
      BY <1>3, Zenon DEF AcceptInv, AcceptanceSound, TerminalStates
    <2>2. AccountKept(d)
      BY <1>1, <1>3, <2>1, AccountMoves, ZenonT(30) DEF TerminalStates
    <2> QED  BY <1>1, <2>2, AccountsMove, AcceptFramed, ZenonT(30)
  <1> QED  BY <1>2, <1>3, Zenon

LEMMA AcceptStored ==
    ASSUME PipelineInv, AcceptInv, StoreMoves, deduped' = deduped, NEW d \in Deliveries,
           AcquireTerminal(d) \/ RepairPublication(d) \/ ExpireLease(d)
    PROVE  AcceptInv'
  <1>1. delivery[d] \in Rows /\ TypeInv
    BY Zenon DEF PipelineInv, TypeInv
  <1>2. CASE AcquireTerminal(d)
    BY <1>2, AccountSame, AcceptFramed, ZenonT(30) DEF AcquireTerminal
  <1>3. CASE RepairPublication(d)
    <2>1. /\ UNCHANGED <<attempt, worker, provider, deduped>> /\ delivery[d].state = "pending"
          /\ delivery' = [delivery EXCEPT ![d] = Queued(delivery[d])]
      BY <1>3, Zenon DEF RepairPublication, Queued
    <2> QED  BY <1>1, <2>1, QueuedRow, MarkKept, AcceptPending, ZenonT(30)
  <1>4. CASE ExpireLease(d)
    <2>1. /\ UNCHANGED <<attempt, worker, provider, deduped>>
          /\ delivery' = [delivery EXCEPT ![d].lease.live = FALSE]
      BY <1>4, Zenon DEF ExpireLease
    <2>2. Core(delivery'[d]) = Core(delivery[d])
          /\ \A x \in Deliveries : x # d => delivery'[x] = delivery[x]
      BY <1>1, <2>1, LapsedRow, Zenon DEF OnlyRow
    <2> QED  BY <2>1, <2>2, AccountLeased, AccountsMove, AcceptFramed, ZenonT(30)
  <1> QED  BY <1>2, <1>3, <1>4, ZenonT(30)

(* A page of new deliveries: none of them was called for. *)
LEMMA AcceptCreates ==
    ASSUME PipelineInv, AcceptInv, StoreMoves, PipelineInv', NEW p \in Relays, CommitPage(p),
           UNCHANGED <<worker, provider, deduped>>
    PROVE  AcceptInv'
  <1>1. relay[p].pc = "planned" /\ PageHolds(p) /\ attempt' = attempt
    BY ZenonT(30) DEF CommitPage
  <1>2. RelaySound(p)
    BY ZenonT(30) DEF PipelineInv
  <1>3. ASSUME NEW d \in Deliveries PROVE AccountKept(d)
    <2>1. CASE delivery'[d] = delivery[d]
      BY <1>1, <2>1, AccountSame, ZenonT(30)
    <2>2. CASE delivery'[d] # delivery[d]
      <3> DEFINE row == relay[p].rows[d[2]]
      <3>1. /\ d[1] = relay[p].item[1] /\ d[2] \in DOMAIN relay[p].rows /\ row # NoRow
            /\ delivery'[d] = row
        BY <2>2, Zenon DEF CommitPage
      <3>2. delivery[d] = NoRow
        BY <1>1, <3>1, PairRows, ZenonT(30) DEF PageHolds
      <3>3. \E in \in {"pending", "cancelled", "waiting_dependency"} : row = Row(in)
        <4>1. d[1] \in Kinds
          BY PairRows, Zenon
        <4>2. CASE d[1] = "opening"
          BY <1>1, <1>2, <3>1, <4>2, ZenonT(30) DEF RelaySound
        <4>3. CASE d[1] = "recovery"
          BY <1>1, <1>2, <3>1, <4>3, ZenonT(30) DEF RelaySound, PlannedRecovery
        <4> QED  BY <4>1, <4>2, <4>3, ZenonT(30) DEF Kinds
      <3>4. /\ row.state \in {"pending", "cancelled", "waiting_dependency"} /\ row.count = 0
            /\ NoRow.state = "absent" /\ NoRow.count = 0 /\ NoRow.possibly = FALSE
        BY <3>3 DEF Row, NoRow
      <3> HIDE DEF row
      <3>5. ~LastStarted(d)
        BY <3>2, <3>4, SMTT(30) DEF LastStarted
      <3> QED  BY <1>1, <3>1, <3>2, <3>4, <3>5, AccountMoves, ZenonT(30) DEF TerminalStates
    <2> QED  BY <2>1, <2>2, ZenonT(30)
  <1> QED  BY <1>3, AcceptFramed, Zenon

LEMMA AcceptRelays ==
    ASSUME PipelineInv, AcceptInv, StoreMoves, PipelineInv', RelayNext,
           UNCHANGED <<worker, provider, deduped>>
    PROVE  AcceptInv'
  <1>0. delivery \in [Deliveries -> Rows] /\ TypeInv
    BY ZenonT(30) DEF PipelineInv, TypeInv
  <1>1. ASSUME UNCHANGED <<delivery, attempt>> PROVE AcceptInv'
    BY <1>1, AccountSame, AcceptFramed, ZenonT(30)
  <1>2. ASSUME NEW p \in Relays, NEW d \in Deliveries, ClaimDelivery(p, d) PROVE AcceptInv'
    <2>1. PICK lease : /\ attempt' = attempt
                       /\ delivery' = [delivery EXCEPT ![d] = [delivery[d] EXCEPT !.relay = lease]]
      BY <1>2, ZenonT(30) DEF ClaimDelivery
    <2>2. Core([delivery[d] EXCEPT !.relay = lease]) = Core(delivery[d])
      BY <1>0, ZenonT(30) DEF Rows, Core
    <2> QED  BY <2>1, <2>2, AcceptPending, Zenon
  <1>3. ASSUME NEW p \in Relays, PublishFails(p) \/ MarkQueued(p) PROVE AcceptInv'
    <2>1. CASE UNCHANGED <<delivery, attempt>>
      BY <1>1, <2>1, Zenon
    <2>2. CASE /\ OwnsDelivery(p) /\ attempt' = attempt
               /\ \E row \in {[Bumped(delivery[relay[p].item]) EXCEPT !.relay = NoLease],
                              Queued(delivery[relay[p].item])} :
                    delivery' = [delivery EXCEPT ![relay[p].item] = row]
      <3>1. relay[p] \in RelayStates /\ relay[p].pc \in {"publish", "published"}
        BY <1>3, ZenonT(30) DEF PublishFails, MarkQueued, PipelineInv, TypeInv
      <3>2. PICK d \in Deliveries : d = relay[p].item /\ delivery[d].state = "pending"
        BY <2>2, <3>1, RelayFields, ZenonT(30) DEF OwnsDelivery
      <3>3. PICK row \in {[Bumped(delivery[d]) EXCEPT !.relay = NoLease], Queued(delivery[d])} :
              delivery' = [delivery EXCEPT ![d] = row]
        BY <2>2, <3>2, ZenonT(30)
      <3>4. delivery[d] \in Rows
        BY <1>0, Zenon
      <3>5. /\ row.state \in {"pending", "queued"} /\ row.count = delivery[d].count
            /\ row.possibly = delivery[d].possibly
        <4>1. CASE row = Queued(delivery[d])
          BY <3>4, <4>1, QueuedRow, MarkKept, ZenonT(30)
        <4>2. CASE row = [Bumped(delivery[d]) EXCEPT !.relay = NoLease]
          <5>1. row.possibly = delivery[d].possibly
            BY <3>4, <4>2, MarkKept, ZenonT(30)
          <5> QED  BY <3>2, <3>4, <4>2, <5>1, RescheduledRow, ZenonT(30)
        <4> QED  BY <3>3, <4>1, <4>2, ZenonT(30)
      <3> QED  BY <2>2, <3>2, <3>3, <3>5, AcceptPending, ZenonT(30)
    <2> QED  BY <1>3, <2>1, <2>2, Zenon DEF PublishFails, MarkQueued
  <1>4. ASSUME NEW d \in Deliveries, ExpireRelayLease(d) PROVE AcceptInv'
    <2>1. attempt' = attempt /\ delivery' = [delivery EXCEPT ![d].relay.live = FALSE]
      BY <1>4, Zenon DEF ExpireRelayLease
    <2>2. Core(delivery'[d]) = Core(delivery[d])
          /\ \A x \in Deliveries : x # d => delivery'[x] = delivery[x]
      BY <1>0, <2>1, LapsedRow, ZenonT(30) DEF OnlyRow
    <2> QED  BY <2>1, <2>2, AccountLeased, AccountsMove, AcceptFramed, Zenon
  <1>5. ASSUME NEW p \in Relays,
               \/ \E k \in Kinds : ClaimOutbox(p, k)
               \/ PlanOpening(p) \/ PlanRecovery(p) \/ AwaitOpening(p) \/ PageConflict(p)
               \/ RescheduleOutbox(p) \/ Publish(p) \/ RelayCrash(p)
        PROVE  UNCHANGED <<delivery, attempt>>
    BY <1>5, ZenonT(30) DEF ClaimOutbox, PlanOpening, PlanRecovery, AwaitOpening, PageConflict,
                RescheduleOutbox, Publish, RelayCrash, storeVars
  <1>6. ASSUME NEW k \in Kinds, ExpireOutboxLease(k) PROVE UNCHANGED <<delivery, attempt>>
    BY <1>6, Zenon DEF ExpireOutboxLease
  <1> QED  BY <1>1, <1>2, <1>3, <1>4, <1>5, <1>6, AcceptCreates, Zenon DEF RelayNext, RelayWork

(* What an event may do to an attempt and to a delivery. *)
LEMMA EventMeans ==
    ASSUME NEW semantic \in Semantics, NEW row \in Rows, NEW n, Reconcilable(row.state)
    PROVE  /\ \A outcome : NextAttemptOutcome(outcome, semantic) = "started" => outcome = "started"
           /\ SemanticOutcome[semantic] = "delayed" =>
                \A outcome : NextAttemptOutcome(outcome, semantic) = outcome
           /\ SemanticOutcome[semantic] # "rejected" =>
                NextState(row, n, semantic) \in {row.state, "succeeded"}
           /\ row.state = "processing" /\ NextState(row, n, semantic) = "processing" =>
                SemanticOutcome[semantic] = "delayed"
           /\ Reconciled(row, n, semantic).possibly = row.possibly
  <1>1. /\ SemanticOutcome[semantic] = "delayed" <=> semantic = "delivery_delay"
        /\ PermanentFailure(semantic) <=> SemanticOutcome[semantic] = "rejected"
    BY DEF Semantics, SemanticOutcome, PermanentFailure
  <1>2. /\ \A outcome : NextAttemptOutcome(outcome, semantic) = "started" => outcome = "started"
        /\ SemanticOutcome[semantic] = "delayed" =>
             \A outcome : NextAttemptOutcome(outcome, semantic) = outcome
    BY <1>1, Zenon DEF NextAttemptOutcome, AcceptedEvidence, CompletesAttempt
  <1>3. SemanticOutcome[semantic] # "rejected" =>
          NextState(row, n, semantic) \in {row.state, "succeeded"}
    BY <1>1, Zenon DEF NextState, ReconcileDeliveryState
  <1>4. row.state = "processing" /\ NextState(row, n, semantic) = "processing" =>
          SemanticOutcome[semantic] = "delayed"
    BY NextStates, Zenon DEF TerminalStates
  <1>5. Reconciled(row, n, semantic).possibly = row.possibly
    <2> DEFINE b == Bumped(row)
               next == NextState(row, n, semantic)
    <2>1. b \in Rows /\ b.possibly = row.possibly
      BY BumpedRow, Zenon
    <2>2. PICK outcome, accepted : \E lease :
            LET moved == [b EXCEPT !.state = next, !.owner = n, !.outcome = outcome,
                                   !.accepted = accepted]
            IN Reconciled(row, n, semantic) \in
                 {moved, [moved EXCEPT !.lease = lease, !.exhausted = FALSE]}
      BY ZenonT(30) DEF Reconciled
    <2> HIDE DEF b, next
    <2> QED  BY <2>1, <2>2, ZenonT(30) DEF Rows
  <1> QED  BY <1>2, <1>3, <1>4, <1>5, ZenonT(30)

(* An event is applied.  SES's rejection is on record; any other event      *)
(* leaves the last attempt as it is, or the delivery succeeds.              *)
LEMMA AcceptFeedback ==
    ASSUME PipelineInv, AcceptInv, StoreMoves, NEW c \in Consumers, CommitFeedback(c)
    PROVE  AcceptInv'
  <1>1. feedback[c].pc = "reconcile" /\ FeedbackHolds(c) /\ UNCHANGED <<worker, provider>>
    BY Zenon DEF CommitFeedback
  <1>2. PICK d \in Deliveries, n \in Calls, semantic \in Semantics, dep \in Dependencies :
          /\ d = feedback[c].event.d /\ n = feedback[c].event.n
          /\ semantic = feedback[c].event.semantic /\ dep = feedback[c].dep
    BY <1>1, FeedbackHas, ZenonT(30)
  <1> DEFINE row == delivery[d]
             new == Reconciled(row, n, semantic)
             a == AttemptReconciled(attempt[d][n], semantic)
             m == row.count
             owns == OwnsAggregate(row, n, semantic)
  <1>3. /\ deduped' = deduped \cup {<<d, n, SemanticOutcome[semantic]>>}
        /\ attempt' = [attempt EXCEPT ![d][n] = a]
        /\ owns => delivery' = Settled(d, new, dep)
        /\ ~owns => delivery' = delivery
    BY <1>2, ZenonT(30) DEF CommitFeedback, DedupeKey
  <1>4. /\ Reconcilable(row.state) /\ DependencyHolds(d, dep) /\ row \in Rows
        /\ n <= row.count
    BY <1>1, <1>2, RowUnmoved, FeedbackHas, ZenonT(30)
  <1>5. RowSound(d) /\ attempt \in [Deliveries -> Seq(AttemptRows)]
        /\ attempt[d] \in Seq(AttemptRows)
    BY Zenon DEF PipelineInv, TypeInv
  <1>6. n \in 1 .. Len(attempt[d]) /\ (m > 0 => m \in 1 .. Len(attempt[d]))
    <2>1. n \in 1 .. Len(attempt[d])
      BY <1>4, <1>5, RowFlags DEF RowSound, Calls
    <2> QED  BY <2>1, CountsAttempts, ZenonT(30)
  <1>7. a.outcome = NextAttemptOutcome(attempt[d][n].outcome, semantic)
    BY Zenon DEF AttemptReconciled
  <1> HIDE DEF a
  <1>8. /\ \A x \in Deliveries : x # d => attempt'[x] = attempt[x]
        /\ attempt'[d][n] = a
        /\ \A i \in 1 .. Len(attempt[d]) : i # n => attempt'[d][i] = attempt[d][i]
    <2>1. d \in DOMAIN attempt /\ DOMAIN attempt[d] = 1 .. Len(attempt[d])
      BY <1>5, SMTT(30)
    <2>2. attempt'[d] = [attempt[d] EXCEPT ![n] = a]
      BY <1>3, <2>1, Zenon
    <2>3. \A i \in 1 .. Len(attempt[d]) : i # n => attempt'[d][i] = attempt[d][i]
      BY <2>1, <2>2, Zenon
    <2>4. \A x \in Deliveries : x # d => attempt'[x] = attempt[x]
      BY <1>3, <1>5, Zenon
    <2> QED  BY <1>6, <2>1, <2>2, <2>3, <2>4, Zenon
  <1>9. /\ new.state = NextState(row, n, semantic) /\ new.rev = row.rev + 1
        /\ new.count = row.count /\ row.rev \in Int
        /\ NextState(row, n, semantic) \notin TerminalStates =>
             NextState(row, n, semantic) = row.state
    BY <1>4, <1>5, ReconciledRow, NextStates, RowFlags DEF RowSound
  <1>10. /\ \A o : NextAttemptOutcome(o, semantic) = "started" => o = "started"
         /\ SemanticOutcome[semantic] = "delayed" => \A o : NextAttemptOutcome(o, semantic) = o
         /\ SemanticOutcome[semantic] # "rejected" => new.state \in {row.state, "succeeded"}
         /\ row.state = "processing" /\ new.state = "processing" =>
              SemanticOutcome[semantic] = "delayed"
         /\ new.possibly = row.possibly
    BY <1>4, <1>9, EventMeans
  <1> HIDE DEF new
  <1>11. delivery'[d] = IF owns THEN new ELSE row
    BY <1>3, Zenon DEF Settled
  <1>12. delivery'[d].count = m
    BY <1>9, <1>11, ZenonT(30)
  <1>13. m > 0 /\ attempt'[d][m].outcome = "started" => attempt[d][m].outcome = "started"
    BY <1>6, <1>7, <1>8, <1>10, ZenonT(30)
  <1>14. LastStarted(d)' => LastStarted(d)
    BY <1>12, <1>13, Zenon DEF LastStarted, LastOutcome
  <1>15. SemanticOutcome[semantic] = "rejected" => Rejected(d)'
    BY <1>3, Zenon DEF Rejected
  <1>16. Rejected(d) => Rejected(d)'
    BY <1>3, Zenon DEF Rejected
  <1>17. Excused(d) => Excused(d)'
    BY <1>10, <1>11, <1>15, <1>16, ZenonT(30) DEF Excused
  <1>18. delivery'[d].state \notin TerminalStates \cup {"processing"} => ~LastStarted(d)'
    <2>1. delivery'[d].state \notin TerminalStates => delivery'[d].state = row.state
      BY <1>9, <1>11, Zenon
    <2> QED  BY <1>14, <2>1, ZenonT(30) DEF AcceptInv, AcceptanceSound
  <1>19. InFlight(d) => Excused(d)' \/ InFlight(d)'
    <2> HAVE InFlight(d)
    <2>1. row.state = "processing" /\ m > 0 /\ attempt[d][m].outcome = "started"
      BY Zenon DEF InFlight, LastStarted, LastOutcome
    <2>2. CASE ~owns
      <3>1. n # m
        BY <2>2, Zenon DEF OwnsAggregate, LatestAttempt
      <3>2. attempt'[d][m] = attempt[d][m]
        BY <1>6, <1>8, <2>1, <3>1, ZenonT(30)
      <3> QED  BY <1>11, <1>12, <2>1, <2>2, <3>2, ZenonT(30) DEF InFlight, LastStarted, LastOutcome
    <2>3. CASE owns /\ SemanticOutcome[semantic] = "rejected"
      BY <1>15, <2>3, ZenonT(30) DEF Excused
    <2>4. CASE owns /\ new.state = "succeeded"
      BY <1>11, <2>4, ZenonT(30) DEF Excused
    <2>5. CASE owns /\ new.state = "processing"
      <3>1. SemanticOutcome[semantic] = "delayed"
        BY <1>10, <2>1, <2>5, ZenonT(30)
      <3>2. attempt'[d][m].outcome = "started"
        <4>1. a.outcome = attempt[d][n].outcome
          BY <1>7, <1>10, <3>1, ZenonT(30)
        <4> QED  BY <1>6, <1>8, <2>1, <4>1, ZenonT(30)
      <3> QED  BY <1>11, <1>12, <2>1, <2>5, <3>2, ZenonT(30) DEF InFlight, LastStarted, LastOutcome
    <2> QED  BY <1>10, <2>1, <2>2, <2>3, <2>4, <2>5, ZenonT(30)
  <1>20. AccountKept(d)
    BY <1>12, <1>14, <1>17, <1>18, <1>19, ZenonT(30) DEF AccountKept
  <1>21. \A x \in Deliveries : AccountKept(x)
    <2>1. deduped \subseteq deduped'
      BY <1>3, Zenon
    <2>2. CASE owns
      BY <1>3, <1>4, <1>8, <1>20, <2>1, <2>2, AccountsSettle, ZenonT(30)
    <2>3. CASE ~owns
      BY <1>3, <1>8, <1>20, <2>1, <2>3, AccountSame, ZenonT(30)
    <2> QED  BY <2>2, <2>3, ZenonT(30)
  <1> QED  BY <1>1, <1>21, AcceptFramed, ZenonT(30)

LEMMA AcceptWorks ==
    ASSUME PipelineInv, AcceptInv, StoreMoves, WorkerStep
    PROVE  AcceptInv'
  <1>1. WorkerNext /\ deduped' = deduped
    BY Zenon DEF WorkerStep
  <1>2. ASSUME NEW w \in Workers, \E d \in Deliveries : Claim(w, d) PROVE AcceptInv'
    BY <1>1, <1>2, AcceptClaims, Zenon
  <1>3. ASSUME NEW w \in Workers, Step(w) PROVE AcceptInv'
    BY <1>1, <1>3, AcceptFinishes, AcceptThinks, AcceptGivesUp, AcceptBegins, AcceptSends,
       AcceptCommits, AcceptConflicts, Zenon DEF Step
  <1>4. ASSUME NEW w \in Workers, PreflightFails(w) \/ DeferClaim(w) \/ WorkerCrash(w)
        PROVE  AcceptInv'
    BY <1>1, <1>4, AcceptFinishes, AcceptGivesUp, AcceptThinks, Zenon
  <1> QED  BY <1>1, <1>2, <1>3, <1>4, AcceptStored, Zenon DEF WorkerNext

LEMMA AcceptStep ==
    ASSUME PipelineInv, AcceptInv, [Next]_vars
    PROVE  AcceptInv'
  <1>1. PipelineInv' /\ StoreMoves
    BY StepSound, Zenon
  <1>2. ASSUME UNCHANGED <<delivery, attempt, worker, provider, deduped>> PROVE AcceptInv'
    BY <1>1, <1>2, AccountSame, AcceptFramed, ZenonT(30)
  <1>3. ASSUME RelayStep PROVE AcceptInv'
    BY <1>1, <1>3, AcceptRelays, ZenonT(30) DEF RelayStep
  <1>4. ASSUME EnvironmentStep PROVE AcceptInv'
    BY <1>2, <1>4, ZenonT(30) DEF EnvironmentStep, Recover, ResolveManually, ResolveEvent, ChangeGate
  <1>5. ASSUME NEW c \in Consumers, FeedbackStep(c) PROVE AcceptInv'
    <2>1. CommitFeedback(c) \/ UNCHANGED <<delivery, attempt, worker, provider, deduped>>
      BY <1>5, ZenonT(30) DEF FeedbackStep, FeedbackNext, ReadFeedback, FeedbackConflict, workerVars, storeVars
    <2> QED  BY <1>1, <1>2, <2>1, AcceptFeedback, ZenonT(30)
  <1>6. ASSUME UNCHANGED vars PROVE AcceptInv'
    BY <1>2, <1>6, Zenon DEF vars, storeVars
  <1> QED  BY <1>1, <1>3, <1>4, <1>5, <1>6, AcceptWorks, Zenon DEF Next

(* A message the provider has is never written off: a delivery one of whose *)
(* calls was accepted, and not reported as refused, is recorded as failed   *)
(* only after SES rejected one; whatever handlers crash, take over, answer  *)
(* late or race with feedback, for any number of handlers and calls.        *)
THEOREM AcceptedNeverFailed == Spec => []AcceptedNotFailed
  <1>1. ASSUME Init PROVE AcceptInv
    <2>1. \A d \in Deliveries : /\ delivery[d] = NoRow
                                /\ provider[d] = [calls |-> 0, accepted |-> {}, misread |-> {}]
      BY <1>1, ZenonT(30) DEF Init, StoreInit, WorkerInit
    <2>2. NoRow.count = 0
      BY ZenonT(30) DEF NoRow, Row
    <2>3. \A w \in Workers : worker[w] = Resting /\ Resting.pc = "idle"
      BY <1>1, Zenon DEF Init, WorkerInit, Resting
    <2>4. \A d \in Deliveries : AcceptanceSound(d)
      BY <2>1, <2>2, SMTT(30) DEF AcceptanceSound, Answered, LastStarted
    <2>5. \A w \in Workers : ~Caller(worker[w]) /\ HandlerHonest(worker[w])
      BY <2>3, Zenon DEF Caller, HandlerHonest, Apart, Completing
    <2> QED  BY <2>4, <2>5, ZenonT(30) DEF AcceptInv, OneCaller
  <1>2. PipelineInv /\ AcceptInv /\ [Next]_vars => AcceptInv'
    BY AcceptStep, Zenon
  <1>3. AcceptInv => AcceptedNotFailed
    <2> SUFFICES ASSUME AcceptInv, NEW d \in Deliveries,
                        delivery[d].state = "permanent_failed",
                        provider[d].accepted # provider[d].misread
                 PROVE  \E n \in 1 .. MaxProviderCalls : <<d, n, "rejected">> \in deduped
      BY Zenon DEF AcceptedNotFailed
    <2>1. AcceptanceSound(d)
      BY Zenon DEF AcceptInv
    <2>2. Answered(d) # {}
      BY <2>1, Zenon DEF AcceptanceSound, Answered
    <2>3. Excused(d)
      BY <2>1, <2>2, ZenonT(30) DEF AcceptanceSound, InFlight
    <2> QED  BY <2>3, Zenon DEF Excused, Rejected, Calls
  <1> QED  BY <1>1, <1>2, <1>3, AlwaysSound, PTL DEF Spec
=============================================================================
