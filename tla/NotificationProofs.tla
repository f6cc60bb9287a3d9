------------------------- MODULE NotificationProofs -------------------------
(***************************************************************************)
(* What needs an invariant of its own beside PipelineInv: the calls are    *)
(* counted (CallsInv), and fan-out forgets nobody (FanoutInv).             *)
(***************************************************************************)
EXTENDS NotificationStepProofs

(* The handlers that are about to make a call that was counted. *)
Begun(d) == {w \in Workers : At(w, "begun") /\ worker[w].d = d}

CallsInv == \A d \in Deliveries : provider[d].calls + Cardinality(Begun(d)) <= delivery[d].count

LEMMA BegunFinite ==
    ASSUME NEW d
    PROVE  IsFiniteSet(Begun(d)) /\ Cardinality(Begun(d)) \in Nat
  BY FS_Subset, FS_CardinalityType, WorkerAssumption, ZenonT(30) DEF Begun

(* No delivery's count goes down. *)
LEMMA CountsRise ==
    ASSUME PipelineInv, StoreMoves, NEW d \in Deliveries
    PROVE  delivery[d].count \in Int /\ delivery'[d].count \in Int
           /\ delivery[d].count <= delivery'[d].count
  <1>1. delivery \in [Deliveries -> Rows] /\ delivery[d].count \in Int
    BY RowFlags, ZenonT(30) DEF PipelineInv, TypeInv
  <1>2. ASSUME NEW x \in Deliveries, LeaseMoves(x) PROVE delivery'[d].count = delivery[d].count
    BY <1>2, Zenon DEF LeaseMoves, OnlyRow, Core
  <1>3. ASSUME NEW x \in Deliveries, RowMoves(x)
        PROVE  delivery'[d].count \in {delivery[d].count, delivery[d].count + 1}
    BY <1>3, Zenon DEF RowMoves, OnlyRow
  <1>4. ASSUME NEW x \in Deliveries, SettleMoves(x) PROVE delivery'[d].count = delivery[d].count
    <2>1. /\ delivery'[x].count = delivery[x].count
          /\ x[1] \in Kinds /\ x = <<x[1], x[2]>> /\ Recovery(x) = <<"recovery", x[2]>>
          /\ \A y \in Deliveries : y # x /\ y # Recovery(x) => delivery'[y] = delivery[y]
      BY <1>4, PairRows, ZenonT(30) DEF SettleMoves, Recovery
    <2>2. CASE d = Recovery(x) /\ d # x
      <3>1. x[1] = "opening"
        BY <2>1, <2>2, Zenon DEF Kinds
      <3>2. \/ delivery'[d] = Promoted(delivery[d], delivery'[x].state)
            \/ delivery'[d] = delivery[d]
        BY <1>4, <2>2, <3>1, Zenon DEF SettleMoves
      <3> QED  BY <1>1, <3>2, PromotedRow
    <2> QED  BY <2>1, <2>2, Zenon
  <1>5. ASSUME PageMoves PROVE delivery'[d].count = delivery[d].count
    BY <1>5, CreatedFields, Zenon DEF PageMoves
  <1>6. delivery'[d].count \in {delivery[d].count, delivery[d].count + 1}
    BY <1>2, <1>3, <1>4, <1>5, Zenon DEF StoreMoves
  <1> QED  BY <1>1, <1>6

(* A delivery of which no call is made or begun. *)
LEMMA QuietCalls ==
    ASSUME PipelineInv, CallsInv, StoreMoves, NEW d \in Deliveries,
           provider'[d].calls = provider[d].calls,
           \A w \in Workers : worker'[w].pc = "begun" /\ worker'[w].d = d =>
             worker[w].pc = "begun" /\ worker[w].d = d
    PROVE  (provider[d].calls + Cardinality(Begun(d)) <= delivery[d].count)'
  <1>1. Begun(d)' \subseteq Begun(d)
    BY Zenon DEF Begun, At
  <1>2. /\ IsFiniteSet(Begun(d)) /\ Cardinality(Begun(d)) \in Int
        /\ Cardinality(Begun(d)') <= Cardinality(Begun(d)) /\ Cardinality(Begun(d)') \in Int
    BY <1>1, BegunFinite, FS_Subset, FS_CardinalityType, SMTT(30)
  <1>3. provider[d].calls + Cardinality(Begun(d)) <= delivery[d].count
        /\ provider[d].calls \in Int
    BY DEF CallsInv, PipelineInv, TypeInv
  <1>4. delivery[d].count \in Int /\ delivery'[d].count \in Int
        /\ delivery[d].count <= delivery'[d].count
    BY CountsRise, Zenon
  <1>5. provider'[d].calls + Cardinality(Begun(d)') <= delivery'[d].count
    BY <1>2, <1>3, <1>4
  <1> QED  BY <1>5, Zenon

(* A handler goes elsewhere than to a call. *)
LEMMA ElsewhereCalls ==
    ASSUME PipelineInv, CallsInv, StoreMoves, NEW w \in Workers, NEW value, Become(w, value),
           value.pc # "begun", provider' = provider
    PROVE  CallsInv'
  <1>1. \A x \in Workers : worker'[x] = IF x = w THEN value ELSE worker[x]
    BY ZenonT(30) DEF Become, PipelineInv, TypeInv
  <1>2. \A d \in Deliveries : (provider[d].calls + Cardinality(Begun(d)) <= delivery[d].count)'
    BY <1>1, QuietCalls, Zenon
  <1> QED  BY <1>2, Zenon DEF CallsInv

(* A call is counted before it is made. *)
LEMMA BeginCalls ==
    ASSUME PipelineInv, CallsInv, StoreMoves, NEW w \in Workers, BeginAttempt(w)
    PROVE  CallsInv'
  <1>1. At(w, "fenced") /\ provider' = provider
    BY Zenon DEF BeginAttempt
  <1>2. PICK d \in Deliveries : d = worker[w].d /\ delivery[d] \in Rows
    BY <1>1, WorkerHas, ZenonT(30) DEF At
  <1> DEFINE begun == [Bumped(delivery[d]) EXCEPT !.count = @ + 1]
  <1>3. CASE Become(w, Resting)
    <2>1. Resting.pc # "begun"
      BY ZenonT(30) DEF Resting
    <2> QED  BY <1>1, <1>3, <2>1, ElsewhereCalls, Zenon
  <1>4. CASE /\ delivery' = [delivery EXCEPT ![d] = begun]
             /\ Become(w, [pc |-> "begun", d |-> d, record |-> begun])
    <2>1. \A x \in Workers :
            worker'[x] = IF x = w THEN [pc |-> "begun", d |-> d, record |-> begun] ELSE worker[x]
      BY <1>4, ZenonT(30) DEF Become, PipelineInv, TypeInv
    <2>2. ASSUME NEW x \in Deliveries, x # d
          PROVE  (provider[x].calls + Cardinality(Begun(x)) <= delivery[x].count)'
      <3>1. \A y \in Workers : worker'[y].pc = "begun" /\ worker'[y].d = x =>
              worker[y].pc = "begun" /\ worker[y].d = x
        BY <2>1, <2>2
      <3> QED  BY <1>1, <2>2, <3>1, QuietCalls, ZenonT(30)
    <2>3. delivery'[d].count = delivery[d].count + 1 /\ delivery[d].count \in Int
      <3>1. delivery'[d] = begun
        BY <1>2, <1>4, ZenonT(30) DEF PipelineInv, TypeInv
      <3>2. begun.count = Bumped(delivery[d]).count + 1
        BY <1>2, BumpedRow, ZenonT(30) DEF Rows
      <3> QED  BY <1>2, <3>1, <3>2, BumpedRow, RowFlags, ZenonT(30)
    <2>4. Begun(d)' = Begun(d) \cup {w} /\ w \notin Begun(d)
      <3> HIDE DEF begun
      <3> QED  BY <1>1, <2>1 DEF Begun, At
    <2> HIDE DEF begun
    <2>5. Cardinality(Begun(d)') = Cardinality(Begun(d)) + 1 /\ Cardinality(Begun(d)) \in Int
      BY <2>4, BegunFinite, FS_AddElement, SMTT(30)
    <2>6. provider[d].calls + Cardinality(Begun(d)) <= delivery[d].count
          /\ provider[d].calls \in Int
      BY <1>2, SMTT(30) DEF CallsInv, PipelineInv, TypeInv
    <2>7. provider'[d].calls + Cardinality(Begun(d)') <= delivery'[d].count
      BY <1>1, <2>3, <2>5, <2>6, SMTT(30)
    <2>8. \A x \in Deliveries : provider'[x].calls + Cardinality(Begun(x)') <= delivery'[x].count
      BY <2>2, <2>7, Zenon
    <2> QED  BY <2>8, Zenon DEF CallsInv
  <1> QED  BY <1>2, <1>3, <1>4, ZenonT(30) DEF BeginAttempt

(* A call is made by a handler that had it counted. *)
LEMMA SendCalls ==
    ASSUME PipelineInv, CallsInv, StoreMoves, NEW w \in Workers, NEW result, Send(w, result)
    PROVE  CallsInv'
  <1>1. At(w, "begun") /\ delivery' = delivery
    BY Zenon DEF Send, storeVars
  <1>2. provider \in [Deliveries -> Providers]
    BY Zenon DEF PipelineInv, TypeInv, Providers
  <1> PICK d \in Deliveries : d = worker[w].d
    BY <1>1, WorkerHas, Zenon DEF At
  <1>3. /\ \A x \in Deliveries : x # d => provider'[x] = provider[x]
        /\ provider'[d].calls = provider[d].calls + 1
    BY <1>2 DEF Send
  <1>4. \A x \in Workers : worker'[x].pc = "begun" => x # w /\ worker'[x] = worker[x]
    BY Zenon DEF Send, Finish, Become, PipelineInv, TypeInv
  <1>5. \A x \in Workers : x # w => worker'[x] = worker[x]
    BY Zenon DEF Send, Finish, Become, PipelineInv, TypeInv
  <1>6. ASSUME NEW x \in Deliveries, x # d
        PROVE  (provider[x].calls + Cardinality(Begun(x)) <= delivery[x].count)'
    BY <1>3, <1>4, <1>6, QuietCalls, Zenon
  <1>7. Begun(d)' = Begun(d) \ {w} /\ w \in Begun(d)
    BY <1>1, <1>4, <1>5, Zenon DEF Begun, At
  <1>8. provider[d].calls + Cardinality(Begun(d)) <= delivery[d].count
        /\ provider[d].calls \in Int
    BY <1>2 DEF CallsInv, Providers
  <1>9. Cardinality(Begun(d)') = Cardinality(Begun(d)) - 1 /\ Cardinality(Begun(d)) \in Int
    <2>1. IsFiniteSet(Begun(d)) /\ Cardinality(Begun(d)) \in Int
      BY BegunFinite, FS_CardinalityType
    <2>2. Cardinality(Begun(d) \ {w}) = Cardinality(Begun(d)) - 1
      BY <1>7, <2>1, FS_RemoveElement, ZenonT(30)
    <2> QED  BY <1>7, <2>1, <2>2, Zenon
  <1>10. provider'[d].calls + Cardinality(Begun(d)') <= delivery'[d].count
    BY <1>1, <1>3, <1>8, <1>9, SMTT(30)
  <1>11. \A x \in Deliveries : provider'[x].calls + Cardinality(Begun(x)') <= delivery'[x].count
    BY <1>6, <1>10, Zenon
  <1> QED  BY <1>11, Zenon DEF CallsInv

(* The other steps of a handler make and begin no call. *)
LEMMA OtherCalls ==
    ASSUME PipelineInv, NEW w \in Workers,
           \/ \E d \in Deliveries : Claim(w, d)
           \/ CompleteInterrupted(w) \/ Refresh(w) \/ FinalizeUnknown(w) \/ CallLimit(w)
           \/ GatesAllow(w) \/ GatesDeny(w) \/ ReadDependency(w) \/ Commit(w) \/ CommitConflict(w)
           \/ PreflightFails(w) \/ DeferClaim(w) \/ WorkerCrash(w)
    PROVE  provider' = provider /\ \E value : Become(w, value) /\ value.pc # "begun"
  <1>1. Resting.pc # "begun"
    BY Zenon DEF Resting
  <1>2. CASE \E d \in Deliveries : Claim(w, d)
    <2>1. PICK d \in Deliveries : Claim(w, d)
      BY <1>2, ZenonT(30)
    <2>2. PICK pc, claimed : pc # "begun" /\ Become(w, [pc |-> pc, d |-> d, record |-> claimed])
      BY <2>1, Zenon DEF Claim
    <2>3. [pc |-> pc, d |-> d, record |-> claimed].pc # "begun"
      BY <2>2, Zenon
    <2> QED  BY <2>1, <2>2, <2>3, ZenonT(30) DEF Claim
  <1>3. CASE CompleteInterrupted(w) \/ CallLimit(w) \/ GatesDeny(w) \/ PreflightFails(w)
    BY <1>3 DEF CompleteInterrupted, CallLimit, GatesDeny, PreflightFails, Finish
  <1>4. CASE Refresh(w)
    <2>1. worker[w].pc = "claimed"
      BY <1>4, Zenon DEF Refresh, At
    <2>2. [worker[w] EXCEPT !.pc = "ready"].pc = "ready"
      BY <2>1, MovesOn, SMTT(30) DEF WorkerStates, PlaceSound
    <2> QED  BY <1>1, <1>4, <2>2, ZenonT(30) DEF Refresh
  <1>5. CASE FinalizeUnknown(w) \/ DeferClaim(w) \/ WorkerCrash(w) \/ Commit(w)
    BY <1>1, <1>5, Zenon DEF FinalizeUnknown, DeferClaim, WorkerCrash, Commit
  <1>6. CASE GatesAllow(w)
    <2>1. CASE At(w, "ready")
      <3>1. Ready(w) /\ worker[w].pc = "ready"
        BY <1>6, <2>1, Zenon DEF GatesAllow, At
      <3>2. [worker[w] EXCEPT !.pc = "limited"].pc = "limited"
        BY <3>1, WorkerHas, SMTT(30) DEF WorkerStates, Resting
      <3> QED  BY <1>6, <2>1, <3>2, ZenonT(30) DEF GatesAllow
    <2>2. CASE ~At(w, "ready")
      BY <1>6, <2>2, SMTT(30) DEF GatesAllow
    <2> QED  BY <2>1, <2>2, Zenon
  <1>7. CASE ReadDependency(w)
    BY <1>7, SMTT(30) DEF ReadDependency
  <1>8. CASE CommitConflict(w)
    <2>1. \A record, merge, retry : Again(w, record, merge, retry) =>
            \E value : Become(w, value) /\ value.pc # "begun"
      BY SMTT(30) DEF Again
    <2> QED  BY <1>1, <1>8, <2>1, Zenon DEF CommitConflict
  <1> QED  BY <1>2, <1>3, <1>4, <1>5, <1>6, <1>7, <1>8, ZenonT(30)

(* The steps of everyone else. *)
LEMMA BesideCalls ==
    ASSUME PipelineInv, CallsInv, StoreMoves, worker' = worker, provider' = provider
    PROVE  CallsInv'
  <1>1. \A d \in Deliveries : (provider[d].calls + Cardinality(Begun(d)) <= delivery[d].count)'
    BY QuietCalls, Zenon
  <1> QED  BY <1>1, Zenon DEF CallsInv

LEMMA StepCalls ==
    ASSUME PipelineInv, CallsInv, [Next]_vars
    PROVE  CallsInv'
  <1>1. StoreMoves
    BY StepSound, Zenon
  <1>2. ASSUME RelayStep \/ EnvironmentStep PROVE worker' = worker /\ provider' = provider
    BY <1>2, Zenon DEF RelayStep, EnvironmentStep
  <1>3. ASSUME UNCHANGED vars PROVE worker' = worker /\ provider' = provider
    BY <1>3, Zenon DEF vars
  <1>4. ASSUME NEW c \in Consumers, FeedbackStep(c) PROVE worker' = worker /\ provider' = provider
    BY <1>4, Zenon DEF FeedbackStep, FeedbackNext, ReadFeedback, CommitFeedback, FeedbackConflict,
                workerVars
  <1>5. ASSUME NEW d \in Deliveries, AcquireTerminal(d) \/ RepairPublication(d) \/ ExpireLease(d)
        PROVE  worker' = worker /\ provider' = provider
    BY <1>5, ZenonT(30) DEF AcquireTerminal, RepairPublication, ExpireLease
  <1>6. ASSUME NEW w \in Workers,
               (\E d \in Deliveries : Claim(w, d)) \/ Step(w)
               \/ PreflightFails(w) \/ DeferClaim(w) \/ WorkerCrash(w)
        PROVE  CallsInv'
    <2>1. ASSUME BeginAttempt(w) PROVE CallsInv'
      BY <1>1, <2>1, BeginCalls, Zenon
    <2>2. ASSUME NEW result, Send(w, result) PROVE CallsInv'
      BY <1>1, <2>2, SendCalls, ZenonT(30)
    <2>3. ASSUME provider' = provider /\ \E value : Become(w, value) /\ value.pc # "begun"
          PROVE  CallsInv'
      BY <1>1, <2>3, ElsewhereCalls, Zenon
    <2> QED  BY <1>6, <2>1, <2>2, <2>3, OtherCalls, Zenon DEF Step
  <1>7. ASSUME WorkerNext PROVE CallsInv'
    BY <1>1, <1>5, <1>6, <1>7, BesideCalls, Zenon DEF WorkerNext
  <1> QED  BY <1>1, <1>2, <1>3, <1>4, <1>7, BesideCalls, Zenon DEF Next, WorkerStep

(* Every call to the provider was counted in its delivery's row by the      *)
(* transaction that recorded its attempt, calls begun and not yet made      *)
(* included, and no row counts more than maxCalls: however handlers crash,  *)
(* take each other's claims over or are raced by feedback, the provider is  *)
(* never called more than the configured number of times for a delivery.    *)
THEOREM CallsAlwaysCounted == Spec => []CallsCounted
  <1>1. Init => CallsInv
    <2> SUFFICES ASSUME Init PROVE CallsInv
      BY Zenon
    <2>1. /\ worker = [w \in Workers |-> Resting]
          /\ provider = [d \in Deliveries |-> [calls |-> 0, accepted |-> {}, misread |-> {}]]
          /\ delivery = [d \in Deliveries |-> NoRow]
      BY Zenon DEF Init, WorkerInit, StoreInit
    <2>2. NoRow.count = 0
      BY NewRow, ZenonT(30) DEF NoRow
    <2>3. \A d \in Deliveries : Begun(d) = {}
      BY <2>1, ZenonT(30) DEF Begun, At, Resting
    <2>4. \A d \in Deliveries : Cardinality(Begun(d)) = 0
      BY <2>3, FS_EmptySet, ZenonT(30)
    <2> QED  BY <2>1, <2>2, <2>4 DEF CallsInv
  <1>2. PipelineInv /\ CallsInv /\ [Next]_vars => CallsInv'
    BY StepCalls, ZenonT(30)
  <1>3. PipelineInv /\ CallsInv => CallsCounted
    <2> SUFFICES ASSUME PipelineInv, CallsInv PROVE CallsCounted
      BY ZenonT(30)
    <2>1. \A d \in Deliveries : delivery[d].count <= MaxProviderCalls
      BY RowFlags, StoreAssumption, SMTT(30) DEF PipelineInv, TypeInv
    <2> QED  BY <2>1, ZenonT(30) DEF CallsInv, CallsCounted, Begun
  <1> QED  BY <1>1, <1>2, <1>3, AlwaysSound, PTL DEF Spec
-----------------------------------------------------------------------------
(* Fan-out.  Whom the outbox of kind k still has to reach, or has reached. *)
Present(d) == delivery[d].state # "absent"

Owed(k, r) == IF k = "opening" THEN gate[r].version = 1 ELSE Present(Opening(r))

(* A planned page leaves out nobody between its cursor and its end, and     *)
(* only a full page ends before the last recipient.                         *)
PlanCovers(x) ==
    \A r \in Recipients :
      r > x.work.cursor /\ Owed(x.item[1], r) =>
        \/ r \in DOMAIN x.rows /\ x.rows[r] # NoRow
        \/ ~(Cardinality(DOMAIN x.rows) < PageSize) /\ \A s \in DOMAIN x.rows : s < r

PlanSound(x) ==
    x.pc = "planned" =>
      /\ x.item[1] = "recovery" => outbox["opening"].status = "expanded"
      /\ PlanCovers(x)

(* The recipients an outbox has dealt with: all, or those up to its cursor. *)
Reached(k, r) == outbox[k].status = "expanded" \/ r <= outbox[k].cursor

FanoutInv ==
    /\ \A r \in Recipients :
         gate[r].version >= 1 /\ (gate[r].version = 1 => gate[r].member /\ gate[r].preference)
    /\ \A k \in Kinds, r \in Recipients : Reached(k, r) /\ Owed(k, r) => Present(<<k, r>>)
    /\ outbox["recovery"].status = "expanded" \/ outbox["recovery"].cursor # 0 =>
         outbox["opening"].status = "expanded"
    /\ \A p \in Relays : PlanSound(relay[p])

(* A recipient the page leaves for later comes after a full page. *)
LEMMA PageCut ==
    ASSUME NEW rest \in SUBSET Recipients, NEW page \in SUBSET rest,
           page = {x \in rest : Cardinality({s \in rest : s < x}) < PageSize},
           NEW r \in rest \ page
    PROVE  ~(Cardinality(page) < PageSize) /\ \A s \in page : s < r
  <1> DEFINE Below(x) == {s \in rest : s < x}
  <1>1. rest \subseteq Nat /\ PageSize \in Int
    BY StoreAssumption, RelayAssumption DEF Recipients
  <1>2. IsFiniteSet(rest) /\ IsFiniteSet(page)
    <2>1. IsFiniteSet(Recipients)
      BY StoreAssumption, FS_Interval DEF Recipients
    <2> QED  BY <2>1, FS_Subset, ZenonT(30)
  <1>3. \A x : IsFiniteSet(Below(x)) /\ Cardinality(Below(x)) \in Int
    BY <1>2, FS_Subset, FS_CardinalityType, SMTT(30)
  <1>4. ASSUME NEW s \in page PROVE s < r
    <2>1. SUFFICES ASSUME ~(s < r) PROVE FALSE
      BY Zenon
    <2>2. Below(r) \subseteq Below(s)
      <3>1. r \in Nat /\ s \in Nat /\ \A y \in rest : y \in Nat
        BY <1>1, Zenon
      <3>2. \A y \in rest : y < r => y < s
        BY <2>1, <3>1, SMTT(30)
      <3> QED  BY <3>2, Zenon
    <2>3. Cardinality(Below(r)) <= Cardinality(Below(s))
      BY <1>3, <2>2, FS_Subset, Zenon
    <2>4. Cardinality(Below(s)) < PageSize /\ ~(Cardinality(Below(r)) < PageSize)
      BY Zenon
    <2> HIDE DEF Below
    <2> QED  BY <1>1, <1>3, <2>3, <2>4, SMTT(30)
  <1>5. PICK least \in rest \ page : \A y \in rest \ page : least <= y
    <2>1. rest \ page \in SUBSET Nat /\ rest \ page # {}
      BY <1>1, ZenonT(30)
    <2> QED  BY <2>1, LeastNumber, Zenon
  <1>6. Below(least) \subseteq page
    <2>1. \A y \in rest : y < least => ~(least <= y)
      BY <1>1
    <2> QED  BY <1>5, <2>1, ZenonT(30)
  <1>7. Cardinality(Below(least)) <= Cardinality(page) /\ Cardinality(page) \in Int
    <2> HIDE DEF Below
    <2>1. Cardinality(page) \in Nat
      BY <1>2, FS_CardinalityType, Zenon
    <2>2. Cardinality(Below(least)) <= Cardinality(page)
      BY <1>2, <1>6, FS_Subset, ZenonT(30)
    <2> QED  BY <2>1, <2>2, SMTT(30)
  <1>8. ~(Cardinality(Below(least)) < PageSize)
    BY Zenon
  <1>9. ~(Cardinality(page) < PageSize)
    <2> HIDE DEF Below
    <2> QED  BY <1>1, <1>3, <1>7, <1>8, SMTT(30)
  <1> QED  BY <1>4, <1>9, Zenon

(* Rows are made by pages only. *)
LEMMA WorkerCreates ==
    ASSUME PipelineInv, WorkerNext, NEW d \in Deliveries, ~Present(d)
    PROVE  ~Present(d)'
  <1>0. delivery \in [Deliveries -> Rows]
    BY Zenon DEF PipelineInv, TypeInv
  <1>1. ASSUME NEW x \in Deliveries, Present(x), NEW row,
               delivery' = [delivery EXCEPT ![x] = row]
        PROVE  ~Present(d)'
    BY <1>0, <1>1, Zenon DEF Present
  <1>2. ASSUME delivery' = delivery PROVE ~Present(d)'
    BY <1>2, Zenon DEF Present
  <1>3. ASSUME NEW w \in Workers, worker[w].pc # "idle"
        PROVE  worker[w].d \in Deliveries /\ Present(worker[w].d)
    BY <1>3, WorkerHas, Zenon DEF Present, Remembers, Unstarted
  <1>4. ASSUME NEW w \in Workers, NEW x \in Deliveries, Claim(w, x) PROVE ~Present(d)'
    <2>1. Present(x)
      BY <1>4, ZenonT(30) DEF Claim, Claimable, Present
    <2> QED  BY <1>1, <1>4, <2>1, ZenonT(30) DEF Claim
  <1>5. ASSUME NEW w \in Workers, FinalizeUnknown(w) \/ DeferClaim(w) \/ BeginAttempt(w)
        PROVE  ~Present(d)'
    <2>1. worker[w].pc # "idle"
      BY <1>5, ZenonT(30) DEF FinalizeUnknown, DeferClaim, BeginAttempt, Ready, At
    <2>2. delivery' = delivery \/ \E row : delivery' = [delivery EXCEPT ![worker[w].d] = row]
      BY <1>5, Zenon DEF FinalizeUnknown, DeferClaim, BeginAttempt
    <2> QED  BY <1>1, <1>2, <1>3, <2>1, <2>2, ZenonT(30)
  <1>6. ASSUME NEW w \in Workers, Commit(w) PROVE ~Present(d)'
    <2>1. worker[w].pc = "commit" /\ DependencyHolds(worker[w].d, worker[w].dep)
      BY <1>6, Zenon DEF Commit, CommitHolds, At
    <2>2. PICK row : delivery' = Settled(worker[w].d, row, worker[w].dep)
      BY <1>6, Zenon DEF Commit
    <2>3. d # worker[w].d
      BY <1>3, <2>1, Zenon
    <2>4. ~(d = Recovery(worker[w].d) /\ worker[w].dep.op = "release")
      BY <2>1, ZenonT(30) DEF DependencyHolds, Present
    <2>5. delivery'[d] = delivery[d]
      BY <2>2, <2>3, <2>4, ZenonT(30) DEF Settled
    <2> QED  BY <2>5, Zenon DEF Present
  <1>7. ASSUME NEW x \in Deliveries, AcquireTerminal(x) \/ RepairPublication(x) \/ ExpireLease(x)
        PROVE  ~Present(d)'
    <2>1. CASE AcquireTerminal(x)
      BY <1>2, <2>1, Zenon DEF AcquireTerminal
    <2>2. CASE RepairPublication(x)
      <3>1. Present(x)
        BY <2>2, Zenon DEF RepairPublication, Present
      <3> QED  BY <1>1, <2>2, <3>1, ZenonT(30) DEF RepairPublication
    <2>3. CASE ExpireLease(x)
      <3>1. delivery[x].lease.live
        BY <2>3, Zenon DEF ExpireLease
      <3>2. Present(x)
        BY <3>1, LiveRow, Zenon DEF Present
      <3> QED  BY <1>1, <2>3, <3>2, ZenonT(30) DEF ExpireLease
    <2> QED  BY <1>7, <2>1, <2>2, <2>3, ZenonT(30)
  <1>8. ASSUME NEW w \in Workers,
               \/ CompleteInterrupted(w) \/ Refresh(w) \/ CallLimit(w) \/ GatesAllow(w)
               \/ GatesDeny(w) \/ ReadDependency(w) \/ CommitConflict(w) \/ PreflightFails(w)
               \/ WorkerCrash(w) \/ \E result \in Results : Send(w, result)
        PROVE  delivery' = delivery
    BY <1>8, ZenonT(30) DEF CompleteInterrupted, Refresh, CallLimit, GatesAllow, GatesDeny, ReadDependency,
                CommitConflict, PreflightFails, WorkerCrash, Send, storeVars
  <1> QED  BY <1>2, <1>4, <1>5, <1>6, <1>7, <1>8, Zenon DEF WorkerNext, Step

LEMMA FeedbackCreates ==
    ASSUME PipelineInv, NEW c \in Consumers, FeedbackNext(c), NEW d \in Deliveries, ~Present(d)
    PROVE  ~Present(d)'
  <1>1. CASE delivery' = delivery
    BY <1>1, Zenon DEF Present
  <1>2. CASE CommitFeedback(c)
    <2> DEFINE read == feedback[c]
               x == read.event.d
    <2>1. read.pc # "idle" /\ DependencyHolds(x, read.dep)
      BY <1>2, Zenon DEF CommitFeedback, FeedbackHolds
    <2>2. delivery' = delivery \/ \E row : delivery' = Settled(x, row, read.dep)
      BY <1>2, Zenon DEF CommitFeedback
    <2>3. d # x
      <3>1. Remembers(read.row, x)
        BY <2>1, Zenon DEF PipelineInv, FeedbackSound
      <3> QED  BY <3>1, Zenon DEF Remembers, Unstarted, Present
    <2>4. ~(d = Recovery(x) /\ read.dep.op = "release")
      BY <2>1, ZenonT(30) DEF DependencyHolds, Present
    <2> HIDE DEF x, read
    <2>5. delivery'[d] = delivery[d]
      BY <2>2, <2>3, <2>4, ZenonT(30) DEF Settled
    <2> QED  BY <2>5, Zenon DEF Present
  <1>3. delivery' = delivery \/ CommitFeedback(c)
    BY Zenon DEF FeedbackNext, ReadFeedback, FeedbackConflict, workerVars, storeVars
  <1> QED  BY <1>1, <1>2, <1>3, Zenon

LEMMA RelayCreates ==
    ASSUME PipelineInv, RelayNext, \A p \in Relays : ~CommitPage(p),
           NEW d \in Deliveries, ~Present(d)
    PROVE  ~Present(d)'
  <1>0. delivery \in [Deliveries -> Rows]
    BY Zenon DEF PipelineInv, TypeInv
  <1>1. ASSUME NEW x, Present(x), NEW row, delivery' = [delivery EXCEPT ![x] = row]
        PROVE  ~Present(d)'
    BY <1>0, <1>1, Zenon DEF Present
  <1>2. ASSUME delivery' = delivery PROVE ~Present(d)'
    BY <1>2, Zenon DEF Present
  <1>3. ASSUME NEW p \in Relays, NEW x \in Deliveries, ClaimDelivery(p, x) PROVE ~Present(d)'
    <2>1. Present(x)
      BY <1>3, ZenonT(30) DEF ClaimDelivery, Present
    <2> QED  BY <1>1, <1>3, <2>1, ZenonT(30) DEF ClaimDelivery
  <1>4. ASSUME NEW p \in Relays, PublishFails(p) \/ MarkQueued(p) PROVE ~Present(d)'
    <2>1. \/ delivery' = delivery
          \/ OwnsDelivery(p) /\ \E row : delivery' = [delivery EXCEPT ![relay[p].item] = row]
      BY <1>4, Zenon DEF PublishFails, MarkQueued
    <2>2. OwnsDelivery(p) => Present(relay[p].item)
      BY Zenon DEF OwnsDelivery, Present
    <2> QED  BY <1>1, <1>2, <2>1, <2>2, ZenonT(30)
  <1>5. ASSUME NEW x \in Deliveries, ExpireRelayLease(x) PROVE ~Present(d)'
    <2>1. Present(x)
      BY <1>5, LiveRow, Zenon DEF ExpireRelayLease, Present
    <2> QED  BY <1>1, <1>5, <2>1, ZenonT(30) DEF ExpireRelayLease
  <1>6. ASSUME NEW p \in Relays,
               \/ \E k \in Kinds : ClaimOutbox(p, k)
               \/ PlanOpening(p) \/ PlanRecovery(p) \/ AwaitOpening(p) \/ PageConflict(p)
               \/ RescheduleOutbox(p) \/ Publish(p) \/ RelayCrash(p)
        PROVE  delivery' = delivery
    BY <1>6, ZenonT(30) DEF ClaimOutbox, PlanOpening, PlanRecovery, AwaitOpening, PageConflict,
                RescheduleOutbox, Publish, RelayCrash, storeVars
  <1>7. ASSUME NEW k \in Kinds, ExpireOutboxLease(k) PROVE delivery' = delivery
    BY <1>7, ZenonT(30) DEF ExpireOutboxLease
  <1> QED  BY <1>2, <1>3, <1>4, <1>5, <1>6, <1>7, Zenon DEF RelayNext, RelayWork

(* And no row goes away. *)
LEMMA RowsStay ==
    ASSUME PipelineInv, StoreMoves, NEW d \in Deliveries, Present(d)
    PROVE  Present(d)'
  <1>0. delivery \in [Deliveries -> Rows] /\ d = <<d[1], d[2]>> /\ d[1] \in Kinds
    BY PairRows, Zenon DEF PipelineInv, TypeInv
  <1>1. CASE delivery' = delivery
    BY <1>1, Zenon DEF Present
  <1>2. ASSUME NEW x \in Deliveries, LeaseMoves(x) \/ RowMoves(x) PROVE Present(d)'
    BY <1>0, <1>2, Zenon DEF LeaseMoves, RowMoves, OnlyRow, Core, Present
  <1>3. ASSUME NEW x \in Deliveries, SettleMoves(x) PROVE Present(d)'
    <2>1. delivery'[x].state # "absent"
      BY <1>3, Zenon DEF SettleMoves, Ends, EndStates, Reconcilable, TerminalStates
    <2>2. CASE d = Recovery(x) /\ d # x
      <3>1. x[1] = "opening"
        BY <1>0, <2>2, PairRows, ZenonT(30) DEF Recovery, Kinds
      <3>2. \/ delivery'[d] = Promoted(delivery[d], delivery'[x].state)
            \/ delivery'[d] = delivery[d]
        BY <1>3, <2>2, <3>1, Zenon DEF SettleMoves
      <3> QED  BY <1>0, <3>2, PromotedRow, SMTT(30) DEF Present
    <2> QED  BY <1>3, <2>1, <2>2, ZenonT(30) DEF SettleMoves, Present
  <1>4. CASE PageMoves
    BY <1>4, CreatedFields, Zenon DEF PageMoves, Present
  <1> QED  BY <1>1, <1>2, <1>3, <1>4, Zenon DEF StoreMoves

(* A step that creates no row and moves no cursor; a recovery outbox may be *)
(* opened, and a gate change takes its recipient out.                       *)
LEMMA FanoutKept ==
    ASSUME PipelineInv, FanoutInv,
           \A r \in Recipients :
             gate'[r].version >= 1 /\ (gate'[r].version = 1 => gate'[r] = gate[r]),
           \A d \in Deliveries : Present(d)' <=> Present(d),
           outbox'["opening"].status = outbox["opening"].status,
           outbox'["opening"].cursor = outbox["opening"].cursor,
           \/ /\ outbox'["recovery"].status = outbox["recovery"].status
              /\ outbox'["recovery"].cursor = outbox["recovery"].cursor
           \/ outbox'["recovery"].status = "pending" /\ outbox'["recovery"].cursor = 0,
           \A p \in Relays : relay'[p] = relay[p] \/ PlanSound(relay[p])'
    PROVE  FanoutInv'
  <1>1. ASSUME NEW r \in Recipients
        PROVE  (gate[r].version >= 1
                /\ (gate[r].version = 1 => gate[r].member /\ gate[r].preference))'
    BY Zenon DEF FanoutInv
  <1>2. ASSUME NEW k \in Kinds, NEW r \in Recipients
        PROVE  Owed(k, r)' => Owed(k, r)
    BY PairRows, ZenonT(30) DEF Owed
  <1>3. ASSUME NEW k \in Kinds, NEW r \in Recipients, Reached(k, r)', Owed(k, r)'
        PROVE  Present(<<k, r>>)'
    <2>1. <<k, r>> \in Deliveries /\ r \in Nat /\ r > 0
      BY StoreAssumption, SMTT(30) DEF Deliveries, Recipients
    <2>2. Reached(k, r)
      BY <1>3, <2>1, SMTT(30) DEF Reached, Kinds
    <2> QED  BY <1>2, <1>3, <2>1, <2>2, ZenonT(30) DEF FanoutInv
  <1>4. (outbox["recovery"].status = "expanded" \/ outbox["recovery"].cursor # 0 =>
           outbox["opening"].status = "expanded")'
    BY Zenon DEF FanoutInv
  <1>5. ASSUME NEW p \in Relays, relay'[p] = relay[p]
        PROVE  PlanSound(relay[p])'
    <2>1. CASE relay[p].pc = "planned"
      <3>0. relay[p] \in RelayStates
        BY ZenonT(30) DEF PipelineInv, TypeInv
      <3>1. relay[p].item[1] \in Kinds
        BY <2>1, <3>0, SMTT(30) DEF RelayStates, Idle
      <3>2. PlanSound(relay[p])
        BY Zenon DEF FanoutInv
      <3> QED  BY <1>2, <1>5, <2>1, <3>1, <3>2, ZenonT(30) DEF PlanSound, PlanCovers
    <2> QED  BY <1>5, <2>1, Zenon DEF PlanSound
  <1>6. \A p \in Relays : PlanSound(relay[p])'
    BY <1>5, Zenon
  <1> QED  BY <1>1, <1>3, <1>4, <1>6, ZenonT(30) DEF FanoutInv

(* The page read for a plan. *)
LEMMA PagePlanned ==
    ASSUME PipelineInv, NEW p \in Relays, NEW r \in Sources(relay[p].item[1]),
           r > relay[p].work.cursor, r \notin Page(p)
    PROVE  ~(Cardinality(Page(p)) < PageSize) /\ \A s \in Page(p) : s < r
  <1> DEFINE rest == {x \in Sources(relay[p].item[1]) : x > relay[p].work.cursor}
  <1>1. rest \in SUBSET Recipients /\ r \in rest
    BY Zenon DEF Sources
  <1>2. Page(p) = {x \in rest : Cardinality({s \in rest : s < x}) < PageSize}
    BY Zenon DEF Page
  <1>3. Page(p) \in SUBSET rest
    BY <1>2, Zenon
  <1> HIDE DEF rest
  <1> QED  BY <1>1, <1>2, <1>3, PageCut, ZenonT(30)

LEMMA FanoutPlanned ==
    ASSUME PipelineInv, FanoutInv, NEW p \in Relays, PlanOpening(p) \/ PlanRecovery(p),
           RelaySound(p)'
    PROVE  PlanSound(relay[p])'
  <1>0. /\ relay \in [Relays -> RelayStates] /\ relay[p].pc = "claimed"
        /\ UNCHANGED <<delivery, gate, outbox>>
    BY ZenonT(30) DEF PlanOpening, PlanRecovery, storeVars, PipelineInv, TypeInv
  <1>1. /\ relay'[p].item = relay[p].item /\ relay'[p].work = relay[p].work
        /\ relay'[p].pc = "planned" /\ DOMAIN relay'[p].rows = Page(p)
    BY <1>0, SMTT(30) DEF PlanOpening, PlanRecovery, Set
  <1>2. relay[p].item[1] \in Kinds
    BY <1>0, SMTT(30) DEF RelayStates, Idle
  <1>3. relay[p].item[1] = "recovery" => outbox["opening"].status = "expanded"
    BY Zenon DEF PlanOpening, PlanRecovery
  <1>4. ASSUME NEW r \in Recipients, r > relay[p].work.cursor, Owed(relay[p].item[1], r)
        PROVE  \/ r \in Page(p) /\ relay'[p].rows[r] # NoRow
               \/ ~(Cardinality(Page(p)) < PageSize) /\ \A s \in Page(p) : s < r
    <2>1. r \in Sources(relay[p].item[1])
      BY <1>2, <1>4, PairRows, MissingRow, ZenonT(30) DEF Sources, Owed, Present, Kinds
    <2>2. ASSUME r \in Page(p) PROVE relay'[p].rows[r] # NoRow
      <3>1. \A in \in {"pending", "cancelled", "waiting_dependency"} : Row(in) # NoRow
        BY Zenon DEF Row, NoRow
      <3>2. CASE relay[p].item[1] = "opening"
        <4>1. gate[r].member /\ gate[r].preference
          BY <1>4, <3>2, Zenon DEF FanoutInv, Owed
        <4>2. relay'[p].rows[r] = OpeningRow(r)
          BY <1>0, <2>2, <3>2, SMTT(30) DEF PlanOpening, PlanRecovery, Set
        <4> QED  BY <3>1, <4>1, <4>2, Zenon DEF OpeningRow
      <3>3. CASE relay[p].item[1] = "recovery"
        <4>1. PlannedRecovery(p, r)'
          BY <1>1, <2>2, <3>3, Zenon DEF RelaySound
        <4> QED  BY <3>1, <4>1, ZenonT(30) DEF PlannedRecovery
      <3> QED  BY <1>2, <3>2, <3>3, ZenonT(30) DEF Kinds
    <2> QED  BY <1>4, <2>1, <2>2, PagePlanned, ZenonT(30)
  <1>5. PlanCovers(relay[p])'
    BY <1>0, <1>1, <1>4, ZenonT(30) DEF PlanCovers, Owed, Present
  <1> QED  BY <1>0, <1>1, <1>3, <1>5, ZenonT(30) DEF PlanSound

(* A page written moves its outbox past the recipients it covers. *)
LEMMA FanoutCommitted ==
    ASSUME PipelineInv, FanoutInv, StoreMoves, NEW p \in Relays, CommitPage(p)
    PROVE  FanoutInv'
  <1>0. /\ relay \in [Relays -> RelayStates] /\ relay[p].pc = "planned" /\ PlanSound(relay[p])
        /\ outbox \in [Kinds -> Outboxes] /\ delivery \in [Deliveries -> Rows]
    BY ZenonT(30) DEF CommitPage, PipelineInv, TypeInv, FanoutInv
  <1>1. PICK k \in Kinds, rows \in PageRows : k = relay[p].item[1] /\ rows = relay[p].rows
    BY <1>0, RelayFields, Zenon
  <1> DEFINE page == DOMAIN rows
             cursor == relay[p].work.cursor
  <1>2. page \in SUBSET Recipients
    BY PageTypes, Zenon
  <1>3. /\ delivery' = [d \in Deliveries |->
             IF d[1] = k /\ d[2] \in page /\ rows[d[2]] # NoRow THEN rows[d[2]] ELSE delivery[d]]
        /\ outbox' = [outbox EXCEPT ![k] = Advanced(outbox[k], page)]
        /\ outbox[k].status = "pending" /\ outbox[k].cursor = cursor
        /\ gate' = gate /\ relay' = [relay EXCEPT ![p] = Idle]
    BY <1>1, ZenonT(30) DEF CommitPage, PageHolds, OwnsOutbox, Set
  <1>4. /\ \A r \in Recipients : r > cursor /\ Owed(k, r) =>
             \/ r \in page /\ rows[r] # NoRow
             \/ ~(Cardinality(page) < PageSize) /\ \A s \in page : s < r
        /\ k = "recovery" => outbox["opening"].status = "expanded"
    BY <1>0, <1>1, Zenon DEF PlanSound, PlanCovers
  <1>5. /\ \A d \in Deliveries : Present(d) => Present(d)'
        /\ \A d \in Deliveries : d[1] # k => (Present(d)' <=> Present(d))
    BY <1>3, RowsStay, Zenon DEF Present
  <1>6. \A r \in Recipients : <<k, r>> \in Deliveries /\ Opening(r) \in Deliveries
    BY Zenon DEF Deliveries, Opening, Kinds
  <1>7. ASSUME NEW r \in page, rows[r] # NoRow PROVE Present(<<k, r>>)'
    <2>1. delivery'[<<k, r>>] = rows[r]
      BY <1>2, <1>3, <1>6, <1>7, ZenonT(30)
    <2>2. RelaySound(p)
      BY Zenon DEF PipelineInv
    <2>3. \A in \in {"pending", "cancelled", "waiting_dependency"} : Row(in).state # "absent"
      BY Zenon DEF Row
    <2>4. \E in \in {"pending", "cancelled", "waiting_dependency"} : rows[r] = Row(in)
      BY <1>0, <1>1, <1>7, <2>2, ZenonT(30) DEF RelaySound, PlannedRecovery, Kinds
    <2> QED  BY <2>1, <2>3, <2>4, ZenonT(30) DEF Present
  <1>8. outbox'[k] = Advanced(outbox[k], page) /\ \A x \in Kinds : x # k => outbox'[x] = outbox[x]
    BY <1>0, <1>3, Zenon
  <1>9. IF Cardinality(page) < PageSize
        THEN outbox'[k].status = "expanded"
        ELSE outbox'[k].status = "pending" /\ outbox'[k].cursor = Max(page)
    <2>1. outbox[k] \in Outboxes
      BY <1>0, ZenonT(30)
    <2>2. CASE Cardinality(page) < PageSize
      BY <1>8, <2>1, <2>2, ZenonT(30) DEF Advanced, Outboxes
    <2>3. CASE ~(Cardinality(page) < PageSize)
      <3>1. outbox'[k] = [outbox[k] EXCEPT !.cursor = Max(page), !.rev = @ + 1,
                                           !.lease = NoLease]
        BY <1>8, <2>3, Zenon DEF Advanced
      <3>2. {"status", "cursor"} \subseteq DOMAIN outbox[k]
        BY <2>1, Zenon DEF Outboxes
      <3>3. outbox'[k].status = outbox[k].status /\ outbox'[k].cursor = Max(page)
        BY <3>1, <3>2, Zenon
      <3> QED  BY <1>3, <2>3, <3>3, Zenon
    <2> QED  BY <2>2, <2>3, Zenon
  <1>10. k = "opening" =>
           /\ outbox'["recovery"].status = outbox["recovery"].status
           /\ outbox["recovery"].status # "expanded"
           /\ outbox'["recovery"].cursor = 0 /\ outbox["recovery"].cursor = 0
    BY <1>3, <1>8, Zenon DEF FanoutInv, Kinds
  <1>11. \A r \in Recipients : Owed(k, r)' <=> Owed(k, r)
    BY <1>3, <1>5, <1>6, ZenonT(30) DEF Owed, Kinds, Opening
  <1>12. \A r \in Recipients : r \in Nat /\ r > 0
    BY StoreAssumption, SMTT(30) DEF Recipients
  <1>13. ASSUME NEW r \in Recipients, Reached(k, r)', Owed(k, r)
         PROVE  Present(<<k, r>>)'
    <2>1. cursor \in Nat
      BY <1>0, <1>3, ZenonT(30) DEF Outboxes
    <2>2. CASE r <= cursor
      <3>1. Present(<<k, r>>)
        BY <1>3, <1>13, <2>2, ZenonT(30) DEF FanoutInv, Reached
      <3> QED  BY <1>5, <1>6, <3>1, ZenonT(30)
    <2>3. CASE r > cursor
      <3>1. ~(~(Cardinality(page) < PageSize) /\ \A s \in page : s < r)
        <4>1. SUFFICES ASSUME ~(Cardinality(page) < PageSize), \A s \in page : s < r PROVE FALSE
          BY Zenon
        <4>2. Max(page) \in page
          BY <1>2, <4>1, FullPage, Zenon
        <4>3. r <= Max(page)
          BY <1>9, <1>13, <4>1, Zenon DEF Reached
        <4> QED  BY <1>2, <1>12, <4>1, <4>2, <4>3, SMTT(30)
      <3> QED  BY <1>4, <1>7, <1>13, <2>3, <3>1, ZenonT(30)
    <2> QED  BY <1>12, <2>1, <2>2, <2>3, SMTT(30)
  <1>14. ASSUME NEW x \in Kinds, NEW r \in Recipients, x # k, Reached(x, r)', Owed(x, r)'
         PROVE  Present(<<x, r>>)'
    <2>1. <<x, r>> \in Deliveries /\ <<x, r>>[1] = x
      BY Zenon DEF Deliveries
    <2>2. CASE k = "opening"
      BY <1>10, <1>12, <1>14, <2>2, SMTT(30) DEF Reached, Kinds
    <2>3. CASE k = "recovery"
      <3>1. Reached(x, r) /\ Owed(x, r)
        BY <1>3, <1>8, <1>14, <2>3, ZenonT(30) DEF Reached, Owed, Kinds
      <3> QED  BY <1>5, <1>14, <2>1, <3>1, ZenonT(30) DEF FanoutInv
    <2> QED  BY <2>2, <2>3, Zenon DEF Kinds
  <1>15. \A x \in Kinds, r \in Recipients : (Reached(x, r) /\ Owed(x, r) => Present(<<x, r>>))'
    BY <1>11, <1>13, <1>14, ZenonT(30)
  <1>16. (outbox["recovery"].status = "expanded" \/ outbox["recovery"].cursor # 0 =>
            outbox["opening"].status = "expanded")'
    BY <1>4, <1>8, <1>10, Zenon DEF Kinds
  <1>17. ASSUME NEW q \in Relays PROVE PlanSound(relay[q])'
    <2>1. CASE q = p
      BY <1>0, <1>3, <2>1, ZenonT(30) DEF PlanSound, Idle
    <2>2. CASE q # p /\ relay[q].pc = "planned"
      <3>1. relay'[q] = relay[q] /\ PlanSound(relay[q])
        BY <1>0, <1>3, <2>2, ZenonT(30) DEF FanoutInv
      <3>2. relay[q].item[1] \in Kinds
        BY <1>0, <2>2, RelayFields, ZenonT(30)
      <3>3. relay[q].item[1] = "recovery" =>
              k = "recovery" /\ outbox'["opening"].status = "expanded"
        BY <1>3, <1>8, <2>2, <3>1, ZenonT(30) DEF PlanSound, Kinds
      <3>4. \A r \in Recipients : Owed(relay[q].item[1], r)' <=> Owed(relay[q].item[1], r)
        BY <1>3, <1>11, <3>1, <3>2, <3>3, ZenonT(30) DEF Owed, Kinds
      <3> QED  BY <2>2, <3>1, <3>3, <3>4, ZenonT(30) DEF PlanSound, PlanCovers
    <2>3. CASE q # p /\ relay[q].pc # "planned"
      BY <1>0, <1>3, <2>3, ZenonT(30) DEF PlanSound
    <2> QED  BY <2>1, <2>2, <2>3, ZenonT(30)
  <1> QED  BY <1>3, <1>15, <1>16, <1>17, ZenonT(30) DEF FanoutInv

(* The relay's other steps. *)
LEMMA FanoutRelay ==
    ASSUME PipelineInv, FanoutInv, StoreMoves, PipelineInv', RelayNext
    PROVE  FanoutInv'
  <1>0. /\ outbox \in [Kinds -> Outboxes] /\ relay \in [Relays -> RelayStates]
        /\ gate' = gate
    <2>1. gate' = gate
      BY Zenon DEF RelayNext, RelayWork, ClaimOutbox, ClaimDelivery, PlanOpening, PlanRecovery,
            AwaitOpening, CommitPage, PageConflict, RescheduleOutbox, Publish, MarkQueued,
            PublishFails, RelayCrash, ExpireOutboxLease, ExpireRelayLease, storeVars
    <2> QED  BY <2>1, Zenon DEF PipelineInv, TypeInv
  <1>1. CASE \E p \in Relays : CommitPage(p)
    BY <1>1, FanoutCommitted, Zenon
  <1>2. CASE \A p \in Relays : ~CommitPage(p)
    <2>1. \A d \in Deliveries : Present(d)' <=> Present(d)
      BY <1>2, RelayCreates, RowsStay, Zenon
    <2>2. ASSUME NEW k, NEW new, new.status = outbox[k].status, new.cursor = outbox[k].cursor,
                 outbox' = [outbox EXCEPT ![k] = new]
          PROVE  \A x \in Kinds : outbox'[x].status = outbox[x].status
                                  /\ outbox'[x].cursor = outbox[x].cursor
      BY <1>0, <2>2, Zenon
    <2>3. ASSUME NEW k \in Kinds
          PROVE  /\ \A lease : [outbox[k] EXCEPT !.lease = lease].status = outbox[k].status
                               /\ [outbox[k] EXCEPT !.lease = lease].cursor = outbox[k].cursor
                 /\ Rescheduled(outbox[k]).status = outbox[k].status
                 /\ Rescheduled(outbox[k]).cursor = outbox[k].cursor
      <3>1. outbox[k] \in Outboxes
        BY <1>0, Zenon
      <3> QED  BY <3>1, Zenon DEF Rescheduled, Outboxes
    <2>4. ASSUME outbox' = outbox
          PROVE  \A x \in Kinds : outbox'[x].status = outbox[x].status
                                  /\ outbox'[x].cursor = outbox[x].cursor
      BY <2>4, Zenon
    <2>5. ASSUME NEW p \in Relays, NEW k \in Kinds, ClaimOutbox(p, k)
          PROVE  \A x \in Kinds : outbox'[x].status = outbox[x].status
                                  /\ outbox'[x].cursor = outbox[x].cursor
      BY <2>2, <2>3, <2>5, ZenonT(30) DEF ClaimOutbox
    <2>6. ASSUME NEW p \in Relays, RescheduleOutbox(p)
          PROVE  \A x \in Kinds : outbox'[x].status = outbox[x].status
                                  /\ outbox'[x].cursor = outbox[x].cursor
      <3>1. relay[p].item[1] \in Kinds
        BY <1>0, <2>6, RelayFields, ZenonT(30) DEF RescheduleOutbox
      <3> QED  BY <2>2, <2>3, <2>4, <2>6, <3>1, ZenonT(30) DEF RescheduleOutbox
    <2>7. ASSUME NEW k \in Kinds, ExpireOutboxLease(k)
          PROVE  \A x \in Kinds : outbox'[x].status = outbox[x].status
                                  /\ outbox'[x].cursor = outbox[x].cursor
      BY <2>2, <2>3, <2>7, ZenonT(30) DEF ExpireOutboxLease
    <2>8. ASSUME \/ \E p \in Relays : \/ \E d \in Deliveries : ClaimDelivery(p, d)
                                      \/ PlanOpening(p) \/ PlanRecovery(p) \/ AwaitOpening(p)
                                      \/ PageConflict(p) \/ Publish(p) \/ MarkQueued(p)
                                      \/ PublishFails(p) \/ RelayCrash(p)
                 \/ \E d \in Deliveries : ExpireRelayLease(d)
          PROVE  outbox' = outbox
      BY <2>8, Zenon DEF ClaimDelivery, PlanOpening, PlanRecovery, AwaitOpening, PageConflict,
            Publish, MarkQueued, PublishFails, RelayCrash, ExpireRelayLease, storeVars
    <2>9. \A x \in Kinds : outbox'[x].status = outbox[x].status
                           /\ outbox'[x].cursor = outbox[x].cursor
      BY <1>2, <2>4, <2>5, <2>6, <2>7, <2>8, Zenon DEF RelayNext, RelayWork
    <2>10. ASSUME NEW p \in Relays, NEW x, x.pc # "planned", Set(p, x)
           PROVE  \A q \in Relays : relay'[q] = relay[q] \/ PlanSound(relay[q])'
      BY <1>0, <2>10, Zenon DEF Set, PlanSound
    <2>11. ASSUME NEW p \in Relays, PlanOpening(p) \/ PlanRecovery(p)
           PROVE  \A q \in Relays : relay'[q] = relay[q] \/ PlanSound(relay[q])'
      <3>1. PlanSound(relay[p])'
        BY <2>11, FanoutPlanned, ZenonT(30) DEF PipelineInv
      <3>2. \A q \in Relays : q # p => relay'[q] = relay[q]
        BY <1>0, <2>11, Zenon DEF PlanOpening, PlanRecovery, Set
      <3> QED  BY <3>1, <3>2, Zenon
    <2>12. ASSUME NEW p \in Relays,
                  \/ \E k \in Kinds : ClaimOutbox(p, k)
                  \/ \E d \in Deliveries : ClaimDelivery(p, d)
                  \/ PageConflict(p) \/ RescheduleOutbox(p) \/ MarkQueued(p)
                  \/ PublishFails(p) \/ RelayCrash(p)
           PROVE  \A q \in Relays : relay'[q] = relay[q] \/ PlanSound(relay[q])'
      <3>1. \E x : x.pc # "planned" /\ Set(p, x)
        BY <2>12, Zenon DEF ClaimOutbox, ClaimDelivery, PageConflict, RescheduleOutbox, MarkQueued,
              PublishFails, RelayCrash, Idle
      <3> QED  BY <2>10, <3>1, Zenon
    <2>13. ASSUME NEW p \in Relays, AwaitOpening(p) \/ Publish(p)
           PROVE  \A q \in Relays : relay'[q] = relay[q] \/ PlanSound(relay[q])'
      <3>1. relay[p] \in RelayStates /\ relay[p].pc \in {"claimed", "publish"}
        BY <1>0, <2>13, ZenonT(30) DEF AwaitOpening, Publish
      <3>2. \A pc \in {"retry", "published"} : [relay[p] EXCEPT !.pc = pc].pc # "planned"
        BY <3>1, ZenonT(30) DEF RelayStates, Idle
      <3> QED  BY <2>10, <2>13, <3>2, Zenon DEF AwaitOpening, Publish
    <2>14. \A q \in Relays : relay'[q] = relay[q] \/ PlanSound(relay[q])'
      <3>1. ASSUME relay' = relay PROVE \A q \in Relays : relay'[q] = relay[q]
        BY <3>1, ZenonT(30)
      <3>2. ASSUME \/ \E k \in Kinds : ExpireOutboxLease(k)
                   \/ \E d \in Deliveries : ExpireRelayLease(d)
            PROVE  relay' = relay
        BY <3>2, ZenonT(30) DEF ExpireOutboxLease, ExpireRelayLease
      <3> QED  BY <1>2, <2>11, <2>12, <2>13, <3>1, <3>2, Zenon DEF RelayNext, RelayWork
    <2>15. \A r \in Recipients :
             gate'[r].version >= 1 /\ (gate'[r].version = 1 => gate'[r] = gate[r])
      BY <1>0, ZenonT(30) DEF FanoutInv
    <2> QED  BY <2>1, <2>9, <2>14, <2>15, FanoutKept, ZenonT(30) DEF Kinds
  <1> QED  BY <1>1, <1>2, Zenon

(* The steps of handlers, feedback and people. *)
LEMMA FanoutStep ==
    ASSUME PipelineInv, FanoutInv, [Next]_vars
    PROVE  FanoutInv'
  <1>0. StoreMoves /\ PipelineInv'
    BY StepSound, Zenon
  <1>1. gate \in [Recipients -> [member : BOOLEAN, preference : BOOLEAN, version : Nat]]
        /\ outbox \in [Kinds -> Outboxes]
    BY Zenon DEF PipelineInv, TypeInv
  <1>2. ASSUME UNCHANGED <<outbox, relay>>, \A d \in Deliveries : ~Present(d) => ~Present(d)',
               \A r \in Recipients :
                 gate'[r].version >= 1 /\ (gate'[r].version = 1 => gate'[r] = gate[r])
        PROVE  FanoutInv'
    <2>1. \A d \in Deliveries : Present(d)' <=> Present(d)
      BY <1>0, <1>2, RowsStay, ZenonT(30)
    <2> QED  BY <1>2, <2>1, FanoutKept, ZenonT(30)
  <1>3. ASSUME gate' = gate
        PROVE  \A r \in Recipients :
                 gate'[r].version >= 1 /\ (gate'[r].version = 1 => gate'[r] = gate[r])
    BY <1>3, Zenon DEF FanoutInv
  <1>4. ASSUME WorkerStep PROVE FanoutInv'
    <2>1. UNCHANGED <<outbox, gate, relay>>
      <3>1. ASSUME NEW w \in Workers,
                   (\E d \in Deliveries : Claim(w, d)) \/ CompleteInterrupted(w) \/ Refresh(w)
                   \/ FinalizeUnknown(w) \/ CallLimit(w) \/ GatesAllow(w) \/ GatesDeny(w)
                   \/ BeginAttempt(w) \/ (\E result \in Results : Send(w, result))
                   \/ ReadDependency(w) \/ Commit(w) \/ CommitConflict(w)
                   \/ PreflightFails(w) \/ DeferClaim(w) \/ WorkerCrash(w)
            PROVE  UNCHANGED <<outbox, gate>>
        BY <3>1, Zenon DEF Claim, CompleteInterrupted, Refresh, FinalizeUnknown, CallLimit,
              GatesAllow, GatesDeny, BeginAttempt, Send, ReadDependency, Commit, CommitConflict,
              PreflightFails, DeferClaim, WorkerCrash, storeVars
      <3>2. ASSUME NEW d \in Deliveries,
                   AcquireTerminal(d) \/ RepairPublication(d) \/ ExpireLease(d)
            PROVE  UNCHANGED <<outbox, gate>>
        BY <3>2, ZenonT(30) DEF AcquireTerminal, RepairPublication, ExpireLease
      <3> QED  BY <1>4, <3>1, <3>2, Zenon DEF WorkerStep, WorkerNext, Step
    <2>2. WorkerNext
      BY <1>4, Zenon DEF WorkerStep
    <2> QED  BY <1>2, <1>3, <2>1, <2>2, WorkerCreates, ZenonT(30)
  <1>5. ASSUME NEW c \in Consumers, FeedbackStep(c) PROVE FanoutInv'
    <2>1. FeedbackNext(c) /\ UNCHANGED <<outbox, gate, relay>>
      BY <1>5, Zenon DEF FeedbackStep, FeedbackNext, ReadFeedback, CommitFeedback, FeedbackConflict,
            workerVars, storeVars
    <2> QED  BY <1>2, <1>3, <2>1, FeedbackCreates, ZenonT(30)
  <1>6. ASSUME UNCHANGED vars PROVE FanoutInv'
    <2>1. UNCHANGED <<outbox, gate, relay, delivery>>
      BY <1>6, Zenon DEF vars, storeVars
    <2> QED  BY <1>2, <1>3, <2>1, ZenonT(30) DEF Present
  <1>7. ASSUME RelayStep PROVE FanoutInv'
    BY <1>0, <1>7, FanoutRelay, ZenonT(30) DEF RelayStep
  <1>8. ASSUME EnvironmentStep PROVE FanoutInv'
    <2>1. CASE ResolveManually
      <3>1. UNCHANGED <<outbox, gate, relay, delivery>>
        BY <1>8, <2>1, Zenon DEF EnvironmentStep, ResolveManually, ResolveEvent
      <3> QED  BY <1>2, <1>3, <3>1, Zenon DEF Present
    <2>2. CASE Recover
      <3>1. /\ UNCHANGED <<gate, relay, delivery>>
            /\ outbox' = [outbox EXCEPT !["recovery"] = Outbox("pending", Channel)]
        BY <1>8, <2>2, Zenon DEF EnvironmentStep, Recover, ResolveEvent
      <3>2. /\ outbox'["opening"] = outbox["opening"]
            /\ outbox'["recovery"].status = "pending" /\ outbox'["recovery"].cursor = 0
        BY <1>1, <3>1, Zenon DEF Kinds, Outbox
      <3> QED  BY <1>3, <3>1, <3>2, FanoutKept, ZenonT(30) DEF Present
    <2>3. ASSUME NEW r \in Recipients, NEW member \in BOOLEAN, NEW preference \in BOOLEAN,
                 ChangeGate(r, member, preference), UNCHANGED relay
          PROVE  FanoutInv'
      <3>1. UNCHANGED <<outbox, relay, delivery>>
        BY <2>3, Zenon DEF ChangeGate
      <3>2. \A x \in Recipients :
              gate'[x].version >= 1 /\ (gate'[x].version = 1 => gate'[x] = gate[x])
        BY <1>1, <2>3, SMTT(30) DEF ChangeGate, FanoutInv
      <3> QED  BY <1>2, <3>1, <3>2, ZenonT(30) DEF Present
    <2> QED  BY <1>8, <2>1, <2>2, <2>3, Zenon DEF EnvironmentStep
  <1> QED  BY <1>4, <1>5, <1>6, <1>7, <1>8, Zenon DEF Next

(* Fan-out forgets nobody, for any number of recipients and any page size:  *)
(* once an opening's outbox is expanded every member whose gate never       *)
(* changed has a delivery, and once a recovery's is, every opening row has  *)
(* its recovery; across pages, conflicting and crashed relay runs.          *)
THEOREM FanoutAlwaysComplete == Spec => []FanoutComplete
  <1>1. Init => FanoutInv
    <2> SUFFICES ASSUME Init PROVE FanoutInv
      BY Zenon
    <2>1. PICK channel \in Channels :
            outbox = [k \in Kinds |->
                        Outbox(IF k = "opening" THEN "pending" ELSE "absent", channel)]
      BY Zenon DEF Init, StoreInit
    <2>2. /\ gate = [r \in Recipients |-> [member |-> TRUE, preference |-> TRUE, version |-> 1]]
          /\ relay = [p \in Relays |-> Idle]
      BY Zenon DEF Init, StoreInit, RelayInit
    <2>3. \A k \in Kinds : outbox[k].status # "expanded" /\ outbox[k].cursor = 0
      BY <2>1, ZenonT(30) DEF Outbox
    <2>4. \A r \in Recipients : r \in Nat /\ r > 0
      BY StoreAssumption DEF Recipients
    <2>5. \A k \in Kinds, r \in Recipients : ~Reached(k, r)
      BY <2>3, <2>4, SMTT(30) DEF Reached
    <2>6. \A p \in Relays : PlanSound(relay[p])
      BY <2>2, Zenon DEF PlanSound, Idle
    <2> QED  BY <2>2, <2>3, <2>5, <2>6, SMTT(30) DEF FanoutInv, Kinds
  <1>2. PipelineInv /\ FanoutInv /\ [Next]_vars => FanoutInv'
    BY FanoutStep, Zenon
  <1>3. PipelineInv /\ FanoutInv => FanoutComplete
    <2> SUFFICES ASSUME PipelineInv, FanoutInv, NEW r \in Recipients
                 PROVE  /\ outbox["recovery"].status = "expanded" /\ delivery[Opening(r)] # NoRow
                             => delivery[<<"recovery", r>>] # NoRow
                        /\ outbox["opening"].status = "expanded" /\ gate[r].version = 1
                             => delivery[Opening(r)] # NoRow
      BY Zenon DEF FanoutComplete
    <2>1. \A d \in Deliveries : Present(d) <=> delivery[d] # NoRow
      BY MissingRow, ZenonT(30) DEF Present
    <2>2. /\ Opening(r) \in Deliveries /\ <<"recovery", r>> \in Deliveries
          /\ Opening(r) = <<"opening", r>>
      BY PairRows, Zenon DEF Opening
    <2>3. \A k \in Kinds : outbox[k].status = "expanded" /\ Owed(k, r) => Present(<<k, r>>)
      BY Zenon DEF FanoutInv, Reached
    <2>4. /\ Owed("opening", r) <=> gate[r].version = 1
          /\ Owed("recovery", r) <=> Present(Opening(r))
      BY Zenon DEF Owed
    <2> QED  BY <2>1, <2>2, <2>3, <2>4, ZenonT(30) DEF Kinds
  <1> QED  BY <1>1, <1>2, <1>3, AlwaysSound, PTL DEF Spec
=============================================================================
