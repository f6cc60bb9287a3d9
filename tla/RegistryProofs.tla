--------------------------- MODULE RegistryProofs ---------------------------
(***************************************************************************)
(* Machine-checked proofs about the registry, for any set of components,   *)
(* callers and requests, however long a handler takes: the deployments of  *)
(* a component are disjoint, a creation is applied once for its            *)
(* idempotency key, the lookup by time returns the deployment that covers  *)
(* it, nothing is created under a parent that is retired by then, and      *)
(* second copies of rows follow their originals.                           *)
(***************************************************************************)
EXTENDS RegistryPipeline, WellFoundedInduction, TLAPS

(***************************************************************************)
(* Deployments: a component is never in two places at once.                *)
(*                                                                         *)
(* The marker is what makes it true. While an interval is open, the marker *)
(* has not passed its start; every closed interval ended by the marker. So *)
(* a start the marker allows begins after everything that ended, and an    *)
(* end is after a start that was itself after everything that ended.       *)
(***************************************************************************)

(* One deployment against the pointer and the marker of its component. *)
Placed(i) ==
    LET d == deployment[i]
    IN  /\ d.component \in Components
        /\ d.start \in Nat \ {0}
        /\ d.end \in Nat
        /\ marker[d.component].seq # 0
        /\ d.end = Open => current[d.component] = i /\ marker[d.component].last <= d.start
        /\ d.end # Open => d.start < d.end /\ d.end <= marker[d.component].last

(* One of two deployments of a component ended before the other started. *)
Before(i, j) ==
    deployment[i].end # Open /\ deployment[i].end <= deployment[j].start

Apart(i, j) ==
    i # j /\ deployment[i].component = deployment[j].component =>
        Before(i, j) \/ Before(j, i)

PointerOK(c) ==
    current[c] # NoId =>
        /\ current[c] \in DOMAIN deployment
        /\ deployment[current[c]].component = c
        /\ deployment[current[c]].end = Open

DeploymentsOK ==
    /\ marker \in [Components -> [seq : Nat, last : Nat]]
    /\ DOMAIN current = Components
    /\ NoId \notin DOMAIN deployment
    /\ \A i \in DOMAIN deployment : Placed(i)
    /\ \A i, j \in DOMAIN deployment : Apart(i, j)
    /\ \A c \in Components : PointerOK(c)

OpOK(op) ==
    /\ op.kind = "start" => op.on \in Components /\ op.at \in Nat \ {0}
    /\ op.kind = "end" => op.at \in Nat

(* What a handler relies on when it comes to commit: the end it noted is     *)
(* that of a history, and there is none without a marker; the deployment it  *)
(* ends started before.                                                      *)
HandlerOK(j) ==
    /\ DOMAIN j = {"op", "pc", "saw", "at", "out", "sends"}
    /\ OpOK(j.op)
    /\ j.op.kind = "start" /\ j.pc = "previous" => j.saw.end = 0
    /\ j.op.kind = "start" /\ j.pc = "commit" /\ marker[j.op.on].seq = 0 => j.saw.end = 0
    /\ j.op.kind = "end" /\ j.pc \in {"fence", "marker", "commit"} =>
          j.op.on \in DOMAIN deployment /\ deployment[j.op.on].start < j.op.at

CallsOK == \A c \in DOMAIN call : HandlerOK(call[c])

DeploymentInv == DeploymentsOK /\ CallsOK

(* Deployments are not forgotten or moved, and markers are not withdrawn. *)
Grows ==
    /\ DOMAIN deployment \subseteq DOMAIN deployment'
    /\ \A i \in DOMAIN deployment : deployment'[i].start = deployment[i].start
    /\ \A c \in Components : marker'[c].seq = 0 => marker[c].seq = 0

-----------------------------------------------------------------------------
(* The property, from the invariant. *)
LEMMA DeploymentsDisjoint == DeploymentsOK => IntervalsDisjoint
<1> SUFFICES ASSUME DeploymentsOK, NEW c \in Components
             PROVE  /\ \A i, j \in History(c) : i # j => ~Overlap(deployment[i], deployment[j])
                    /\ \A i \in History(c) : IsOpen(i) <=> current[c] = i
    BY Zenon DEF IntervalsDisjoint
<1>1. \A i \in History(c) : IsOpen(i) <=> current[c] = i
    BY DEF DeploymentsOK, Placed, PointerOK, History, IsOpen
<1>2. ASSUME NEW i \in History(c), NEW j \in History(c), i # j
      PROVE  ~Overlap(deployment[i], deployment[j])
  <2>1. /\ deployment[i].start \in Nat /\ deployment[i].end \in Nat
        /\ deployment[j].start \in Nat /\ deployment[j].end \in Nat
      BY Zenon DEF DeploymentsOK, Placed, History
  <2>2. Before(i, j) \/ Before(j, i)
      BY <1>2, Zenon DEF DeploymentsOK, Apart, History
  <2> QED BY <2>1, <2>2 DEF Before, Overlap, Open
<1> QED BY <1>1, <1>2, Zenon

(* A start the marker allows. *)
LEMMA PutOpenKeeps ==
    ASSUME DeploymentsOK, NEW c \in Components, NEW i, i \notin DOMAIN deployment, i # NoId,
           NEW asset, NEW start \in Nat \ {0}, NEW previous,
           current[c] = NoId,
           marker[c].seq = 0 \/ marker[c].last <= start,
           marker[c].seq = 0 => previous = 0,
           PutOpen(i, Deployment(c, asset, start), previous)
    PROVE  DeploymentsOK' /\ Grows
<1> DEFINE m == [seq |-> marker[c].seq + 1,
                 last |-> IF marker[c].seq = 0 THEN previous ELSE marker[c].last]
           d == Deployment(c, asset, start)
<1>1. d.component = c /\ d.start = start /\ d.end = 0
    BY Zenon DEF Deployment, Open
<1>2. /\ DOMAIN deployment' = DOMAIN deployment \cup {i}
      /\ deployment'[i] = d
      /\ \A j \in DOMAIN deployment : deployment'[j] = deployment[j]
    BY Zenon DEF PutOpen
<1>3. current' = [current EXCEPT ![c] = i] /\ marker' = [marker EXCEPT ![c] = m]
    BY <1>1, Zenon DEF PutOpen, MarkerStarted
<1>4. /\ m.seq \in Nat \ {0} /\ m.last \in Nat /\ m.last <= start
      /\ m \in [seq : Nat, last : Nat]
      /\ marker[c].seq # 0 => m.last = marker[c].last
    BY DEF DeploymentsOK
<1> HIDE DEF m, d
<1>5. /\ marker' \in [Components -> [seq : Nat, last : Nat]]
      /\ DOMAIN current' = Components
      /\ NoId \notin DOMAIN deployment'
      /\ marker'[c] = m /\ \A x \in Components \ {c} : marker'[x] = marker[x]
      /\ current'[c] = i /\ \A x \in Components \ {c} : current'[x] = current[x]
    BY <1>2, <1>3, <1>4, Zenon DEF DeploymentsOK
<1>6. ASSUME NEW j \in DOMAIN deployment
      PROVE  /\ Placed(j)'
             /\ deployment[j].component = c => Before(j, i)'
  <2>1. Placed(j) /\ deployment'[j] = deployment[j]
      BY <1>2, Zenon DEF DeploymentsOK
  <2>2. deployment[j].component = c => deployment[j].end # Open
      BY <2>1, Zenon DEF Placed, DeploymentsOK
  <2>3. deployment[j].component = c => deployment[j].end <= m.last
      BY <1>4, <2>1, <2>2, Zenon DEF Placed
  <2>4. deployment[j].component = c => deployment[j].end <= start
      BY <1>4, <2>1, <2>3 DEF Placed
  <2>5. deployment[j].component = c => Before(j, i)'
      BY <1>1, <1>2, <2>1, <2>2, <2>4, Zenon DEF Before
  <2>6. Placed(j)'
      BY <1>5, <2>1, <2>2, <2>3, <1>4 DEF Placed
  <2> QED BY <2>5, <2>6, Zenon
<1>7. Placed(i)'
    BY <1>1, <1>2, <1>4, <1>5 DEF Placed, Open
<1>8. \A j, k \in DOMAIN deployment' : Apart(j, k)'
    BY <1>1, <1>2, <1>6, ZenonT(30) DEF Apart, Before, DeploymentsOK
<1>9. \A x \in Components : PointerOK(x)'
    BY <1>1, <1>2, <1>5 DEF PointerOK, DeploymentsOK, Open
<1>10. DeploymentsOK'
    BY <1>2, <1>5, <1>6, <1>7, <1>8, <1>9, Zenon DEF DeploymentsOK
<1>11. Grows
    BY <1>2, <1>4, <1>5, Zenon DEF Grows
<1> QED BY <1>10, <1>11, Zenon

(* An end after the start. *)
LEMMA PutEndKeeps ==
    ASSUME DeploymentsOK, NEW i \in DOMAIN deployment, NEW at \in Nat,
           deployment[i].end = Open, deployment[i].start < at, PutEnd(i, at)
    PROVE  DeploymentsOK' /\ Grows
<1>0. PICK c \in Components : c = deployment[i].component
    BY Zenon DEF DeploymentsOK, Placed
<1> DEFINE m == [seq |-> marker[c].seq + 1, last |-> at]
           d == Ended(deployment[i], at)
<1>1. d.component = c /\ d.start = deployment[i].start /\ d.end = at
    BY <1>0, Zenon DEF Ended
<1>2. /\ DOMAIN deployment' = DOMAIN deployment
      /\ deployment'[i] = d
      /\ \A j \in DOMAIN deployment \ {i} : deployment'[j] = deployment[j]
    BY Zenon DEF PutEnd
<1>3. current' = [current EXCEPT ![c] = NoId] /\ marker' = [marker EXCEPT ![c] = m]
    BY <1>0, Zenon DEF PutEnd, MarkerEnded
<1>4. m.seq \in Nat \ {0} /\ m.last = at /\ m \in [seq : Nat, last : Nat]
    BY DEF DeploymentsOK
<1> HIDE DEF m, d
<1>5. /\ marker' \in [Components -> [seq : Nat, last : Nat]]
      /\ DOMAIN current' = Components
      /\ NoId \notin DOMAIN deployment'
      /\ marker'[c] = m /\ \A x \in Components \ {c} : marker'[x] = marker[x]
      /\ current'[c] = NoId /\ \A x \in Components \ {c} : current'[x] = current[x]
    BY <1>2, <1>3, <1>4, Zenon DEF DeploymentsOK
<1>6. /\ Placed(i) /\ current[c] = i
      /\ deployment[i].start \in Nat \ {0} /\ marker[c].last \in Nat
      /\ marker[c].last <= deployment[i].start
    BY <1>0, Zenon DEF DeploymentsOK, Placed
<1>7. ASSUME NEW j \in DOMAIN deployment, j # i
      PROVE  Placed(j)'
  <2>1. Placed(j) /\ deployment'[j] = deployment[j]
      BY <1>2, <1>7, Zenon DEF DeploymentsOK
  <2>2. deployment[j].component = c => deployment[j].end # Open
      BY <1>6, <1>7, <2>1, Zenon DEF Placed
  <2>3. deployment[j].component = c => deployment[j].end <= at
      BY <1>6, <2>1, <2>2 DEF Placed
  <2> QED BY <1>4, <1>5, <2>1, <2>2, <2>3 DEF Placed
<1>8. Placed(i)'
    BY <1>1, <1>2, <1>4, <1>5, <1>6 DEF Placed, Open
<1>9. \A j, k \in DOMAIN deployment' : Apart(j, k)'
    BY <1>0, <1>1, <1>2, <1>6 DEF Apart, Before, DeploymentsOK, Placed
<1>10. \A x \in Components : PointerOK(x)'
    BY <1>0, <1>1, <1>2, <1>5 DEF PointerOK, DeploymentsOK
<1>11. DeploymentsOK'
    BY <1>2, <1>5, <1>7, <1>8, <1>9, <1>10, Zenon DEF DeploymentsOK
<1>12. Grows
    BY <1>1, <1>2, <1>4, <1>5, Zenon DEF Grows
<1> QED BY <1>11, <1>12, Zenon

-----------------------------------------------------------------------------
(* A handler that stands still keeps what it relies on. *)
LEMMA HandlerStays ==
    ASSUME NEW j, HandlerOK(j), Grows
    PROVE  HandlerOK(j)'
BY Zenon DEF HandlerOK, OpOK, Grows

(* A step that leaves the deployments alone withdraws nothing. *)
LEMMA UnchangedGrows == UNCHANGED deploymentVars => Grows
BY Zenon DEF deploymentVars, Grows

(* One handler moves, to a state it may be in. *)
LEMMA OneHandlerMoves ==
    ASSUME CallsOK, Grows, NEW c \in DOMAIN call, NEW j,
           call' = [call EXCEPT ![c] = j], HandlerOK(j)'
    PROVE  CallsOK'
<1> SUFFICES ASSUME NEW d \in DOMAIN call' PROVE HandlerOK(call[d])'
    BY Zenon DEF CallsOK
<1>1. CASE d = c
    BY <1>1, Zenon
<1>2. CASE d # c
  <2>1. PICK k : k = call[d] /\ HandlerOK(k)
      BY <1>2, Zenon DEF CallsOK
  <2>2. HandlerOK(k)'
      BY <2>1, HandlerStays, Zenon
  <2>3. call'[d] = k
      BY <1>2, <2>1, Zenon
  <2> QED BY <2>2, <2>3, Zenon
<1> QED BY <1>1, <1>2, Zenon

(* The three ways the state of a handler moves, besides being sent again. *)
Handled(c) ==
    \/ \E out : Finish(c, out)
    \/ \E pc, saw : GoTo(c, pc, saw)
    \/ \E pc, saw : Build(c, pc, saw)

(* A handler goes on somewhere, with its call and what it saw. *)
MovedTo(c, pc, saw) ==
    \E k : /\ call' = [call EXCEPT ![c] = k]
           /\ DOMAIN k = DOMAIN call[c] /\ k.op = call[c].op /\ k.pc = pc /\ k.saw = saw
           /\ k.at \in {call[c].at, clock, 0}

(* The four ways the store moves a handler: it answers, *)
LEMMA FinishMoves ==
    ASSUME NEW c \in DOMAIN call, HandlerOK(call[c]), NEW out, Finish(c, out)
    PROVE  MovedTo(c, "done", 0)
<1>1. PICK j : j = call[c] /\ DOMAIN j = {"op", "pc", "saw", "at", "out", "sends"}
    BY Zenon DEF HandlerOK
<1> DEFINE k == [j EXCEPT !.pc = "done", !.saw = 0, !.out = out]
<1>2. DOMAIN k = DOMAIN j /\ k.op = j.op /\ k.pc = "done" /\ k.saw = 0
      /\ k.at \in {j.at, clock, 0}
    BY <1>1, Zenon
<1>3. call' = [call EXCEPT ![c] = k]
    BY <1>1, Zenon DEF Finish
<1> HIDE DEF k
<1> QED BY <1>1, <1>2, <1>3, Zenon DEF MovedTo

(* goes on to its next read, *)
LEMMA GoToMoves ==
    ASSUME NEW c \in DOMAIN call, HandlerOK(call[c]), NEW pc, NEW saw, GoTo(c, pc, saw)
    PROVE  MovedTo(c, pc, saw)
<1>1. PICK j : j = call[c] /\ DOMAIN j = {"op", "pc", "saw", "at", "out", "sends"}
    BY Zenon DEF HandlerOK
<1> DEFINE k == [j EXCEPT !.pc = pc, !.saw = saw]
<1>2. DOMAIN k = DOMAIN j /\ k.op = j.op /\ k.pc = pc /\ k.saw = saw
      /\ k.at \in {j.at, clock, 0}
    BY <1>1, Zenon
<1>3. call' = [call EXCEPT ![c] = k]
    BY <1>1, Zenon DEF GoTo
<1> HIDE DEF k
<1> QED BY <1>1, <1>2, <1>3, Zenon DEF MovedTo

(* goes on with the identifiers it drew, *)
LEMMA BuildMoves ==
    ASSUME NEW c \in DOMAIN call, HandlerOK(call[c]), NEW pc, NEW saw, Build(c, pc, saw)
    PROVE  MovedTo(c, pc, saw)
<1>1. PICK j : j = call[c] /\ DOMAIN j = {"op", "pc", "saw", "at", "out", "sends"}
    BY Zenon DEF HandlerOK
<1> DEFINE k == [j EXCEPT !.pc = pc, !.saw = saw, !.at = clock]
<1>2. DOMAIN k = DOMAIN j /\ k.op = j.op /\ k.pc = pc /\ k.saw = saw
      /\ k.at \in {j.at, clock, 0}
    BY <1>1, Zenon
<1>3. call' = [call EXCEPT ![c] = k]
    BY <1>1, Zenon DEF Build
<1> HIDE DEF k
<1> QED BY <1>1, <1>2, <1>3, Zenon DEF MovedTo

(* or the client sends the request again after a lost answer. *)
LEMMA ResendMoves ==
    ASSUME NEW c \in DOMAIN call, HandlerOK(call[c]), Resend(c)
    PROVE  MovedTo(c, "begin", 0)
<1>1. PICK j : j = call[c] /\ DOMAIN j = {"op", "pc", "saw", "at", "out", "sends"}
    BY Zenon DEF HandlerOK
<1> DEFINE k == [j EXCEPT !.pc = "begin", !.saw = 0, !.out = "none", !.at = 0,
                          !.sends = call[c].sends + 1]
<1>2. DOMAIN k = DOMAIN j /\ k.op = j.op /\ k.pc = "begin" /\ k.saw = 0
      /\ k.at \in {j.at, clock, 0}
    BY <1>1, Zenon
<1>3. call' = [call EXCEPT ![c] = k]
    BY <1>1, Zenon DEF Resend
<1> HIDE DEF k
<1> QED BY <1>1, <1>2, <1>3, Zenon DEF MovedTo

(* A handler moves to a state whose reliances hold. *)
LEMMA HandlerMoves ==
    ASSUME CallsOK, Grows, NEW c \in DOMAIN call, NEW pc, NEW saw, MovedTo(c, pc, saw),
           call[c].op.kind = "start" =>
              /\ pc = "previous" => saw.end = 0
              /\ pc = "commit" /\ marker'[call[c].op.on].seq = 0 => saw.end = 0,
           call[c].op.kind = "end" /\ pc \in {"fence", "marker", "commit"} =>
              /\ call[c].op.on \in DOMAIN deployment'
              /\ deployment'[call[c].op.on].start < call[c].op.at
    PROVE  CallsOK'
<1>1. HandlerOK(call[c])
    BY Zenon DEF CallsOK
<1>2. PICK k : /\ call' = [call EXCEPT ![c] = k]
               /\ DOMAIN k = DOMAIN call[c] /\ k.op = call[c].op /\ k.pc = pc /\ k.saw = saw
    BY Zenon DEF MovedTo
<1>3. HandlerOK(k)'
    BY <1>1, <1>2, Zenon DEF HandlerOK, OpOK
<1> QED BY <1>2, <1>3, OneHandlerMoves, Zenon

(* The invariant of the deployments reads nothing else. *)
LEMMA UnchangedDeployments ==
    ASSUME DeploymentsOK, UNCHANGED deploymentVars PROVE DeploymentsOK' /\ Grows
BY UnchangedGrows DEF deploymentVars, DeploymentsOK, Placed, Apart, Before, PointerOK

(* A call that is no start or end relies on nothing here. *)
LEMMA OtherKindsMove ==
    ASSUME DeploymentInv, NEW c \in DOMAIN call, call[c].op.kind \notin {"start", "end"},
           Handled(c), UNCHANGED deploymentVars
    PROVE  DeploymentInv'
<1>1. Grows /\ DeploymentsOK'
    BY UnchangedDeployments, Zenon DEF DeploymentInv
<1>2. HandlerOK(call[c])
    BY Zenon DEF DeploymentInv, CallsOK
<1>3. PICK pc, saw : MovedTo(c, pc, saw)
    BY <1>2, FinishMoves, GoToMoves, BuildMoves, Zenon DEF Handled
<1>4. CallsOK'
    BY <1>1, <1>3, HandlerMoves, Zenon DEF DeploymentInv
<1> QED BY <1>1, <1>4, Zenon DEF DeploymentInv

(* Receipts are looked up and calls sent again whatever the kind. *)
LEMMA ReceiptStepsKeep ==
    ASSUME DeploymentInv, NEW c \in DOMAIN call, LookUpReceipt(c) \/ RereadReceipt(c) \/ Resend(c),
           UNCHANGED deploymentVars
    PROVE  DeploymentInv'
<1>1. Grows /\ DeploymentsOK'
    BY UnchangedDeployments, Zenon DEF DeploymentInv
<1>2. HandlerOK(call[c])
    BY Zenon DEF DeploymentInv, CallsOK
<1>3. (\E out : Finish(c, out)) \/ GoTo(c, "read", 0) \/ Resend(c)
    BY Zenon DEF LookUpReceipt, RereadReceipt, Refuse, Replay, Proceed
<1>4. MovedTo(c, "done", 0) \/ MovedTo(c, "read", 0) \/ MovedTo(c, "begin", 0)
    BY <1>2, <1>3, FinishMoves, GoToMoves, ResendMoves, Zenon
<1>5. CallsOK'
    BY <1>1, <1>4, HandlerMoves, Zenon DEF DeploymentInv
<1> QED BY <1>1, <1>5, Zenon DEF DeploymentInv

(* Sites, assets, devices, components and capabilities: one handler moves. *)
LEMMA RegistryStepsHandle ==
    ASSUME NEW c, RegistryStep(c)
    PROVE  call[c].op.kind \notin {"start", "end"} /\ Handled(c)
<1> USE DEF At, TransactCreate, Create, TransactUpdate, Proceed, Refuse, Handled
<1>1. CASE BuildSite(c) \/ PutSite(c) \/ ReadSite(c) \/ UpdateSite(c)
    BY <1>1, Zenon DEF BuildSite, PutSite, ReadSite, UpdateSite
<1>2. CASE ReadAssetSite(c) \/ PutAsset(c) \/ ReadAsset(c) \/ UpdateAsset(c)
    BY <1>2, Zenon DEF ReadAssetSite, PutAsset, ReadAsset, UpdateAsset
<1>3. CASE BuildDevice(c) \/ PutDevice(c) \/ ReadDevice(c) \/ FenceDevice(c) \/ UpdateDevice(c)
    BY <1>3, Zenon DEF BuildDevice, PutDevice, ReadDevice, FenceDevice, UpdateDevice
<1>4. CASE \/ ReadComponentDevice(c) \/ FenceComponentDevice(c) \/ PutComponent(c)
           \/ ReadComponent(c) \/ FenceComponent(c) \/ UpdateComponent(c)
    BY <1>4, Zenon DEF ReadComponentDevice, FenceComponentDevice, PutComponent,
                ReadComponent, FenceComponent, UpdateComponent
<1>5. CASE ReadCapabilityComponent(c) \/ FenceCapabilityComponent(c) \/ PutCapability(c)
    BY <1>5, Zenon DEF ReadCapabilityComponent, FenceCapabilityComponent, PutCapability
<1> QED BY <1>1, <1>2, <1>3, <1>4, <1>5, Zenon DEF RegistryStep

(* Accounts, integrations and credentials: one handler moves. *)
LEMMA IntegrationStepsHandle ==
    ASSUME NEW c, IntegrationStep(c)
    PROVE  call[c].op.kind \notin {"start", "end"} /\ Handled(c)
<1> USE DEF At, TransactCreate, Create, TransactUpdate, Proceed, Refuse, Handled, AuditedUpdate
<1>1. CASE BuildAccount(c) \/ PutAccount(c) \/ ReadAccount(c) \/ TransitionAccount(c)
    BY <1>1, Zenon DEF BuildAccount, PutAccount, ReadAccount, ReadTransition, TransitionAccount
<1>2. CASE \/ ReadIntegrationParents(c) \/ PutIntegration(c)
           \/ ReadIntegration(c) \/ TransitionIntegration(c)
    BY <1>2, Zenon DEF ReadIntegrationParents, PutIntegration, ReadIntegration, ReadTransition,
                TransitionIntegration
<1>3. CASE ReadIssuer(c) \/ ListCredentials(c) \/ ChooseSlot(c) \/ IssueCredential(c)
    BY <1>3, Zenon DEF ReadIssuer, ListCredentials, ChooseSlot, IssueCredential
<1>4. CASE ReadCredential(c) \/ RevokeCredential(c) \/ Authenticate(c) \/ AuthenticateAccount(c)
    BY <1>4, Zenon DEF ReadCredential, RevokeCredential, Authenticate, AuthenticateAccount
<1> QED BY <1>1, <1>2, <1>3, <1>4, Zenon DEF IntegrationStep

-----------------------------------------------------------------------------
(* The steps of a start. *)
LEMMA StartReadsKeep ==
    ASSUME DeploymentInv, NEW c \in DOMAIN call, ReadStartParents(c) \/ ReadMarker(c) \/ ReadPrevious(c)
    PROVE  DeploymentInv'
<1>0. UNCHANGED deploymentVars /\ call[c].op.kind = "start"
    BY Zenon DEF ReadStartParents, ReadMarker, ReadPrevious, At
<1>1. Grows /\ DeploymentsOK'
    BY <1>0, UnchangedDeployments, Zenon DEF DeploymentInv
<1>2. HandlerOK(call[c])
    BY Zenon DEF DeploymentInv, CallsOK
<1>3. CASE ReadStartParents(c)
  <2>1. (\E out : Finish(c, out)) \/ Build(c, "marker", 0) \/ GoTo(c, "reread", 0)
      BY <1>3, Zenon DEF ReadStartParents, Refuse, Proceed
  <2>2. MovedTo(c, "done", 0) \/ MovedTo(c, "marker", 0) \/ MovedTo(c, "reread", 0)
      BY <1>2, <2>1, FinishMoves, GoToMoves, BuildMoves, Zenon
  <2>3. CallsOK'
      BY <1>0, <1>1, <2>2, HandlerMoves, Zenon DEF DeploymentInv
  <2> QED BY <1>1, <2>3, Zenon DEF DeploymentInv
<1>4. CASE ReadMarker(c)
  <2>1. PICK saw : saw.end = 0 /\ (GoTo(c, "previous", saw) \/ GoTo(c, "reread", 0))
      BY <1>4, SMTT(40) DEF ReadMarker, Proceed
  <2>2. MovedTo(c, "previous", saw) \/ MovedTo(c, "reread", 0)
      BY <1>2, <2>1, GoToMoves, Zenon
  <2>3. CallsOK'
      BY <1>0, <1>1, <2>1, <2>2, HandlerMoves, Zenon DEF DeploymentInv
  <2> QED BY <1>1, <2>3, Zenon DEF DeploymentInv
<1>5. CASE ReadPrevious(c)
  <2>1. call[c].saw.end = 0 /\ call[c].op.on \in Components
      BY <1>2, <1>5, Zenon DEF ReadPrevious, At, HandlerOK, OpOK
  <2>2. History(call[c].op.on) # {} => marker[call[c].op.on].seq # 0
      BY DEF DeploymentInv, DeploymentsOK, Placed, History
  <2>3. PICK saw : /\ GoTo(c, "commit", saw) \/ GoTo(c, "reread", 0)
                   /\ History(call[c].op.on) = {} => saw = call[c].saw
      BY <1>5, Zenon DEF ReadPrevious, Proceed, Op
  <2>4. MovedTo(c, "commit", saw) \/ MovedTo(c, "reread", 0)
      BY <1>2, <2>3, GoToMoves, Zenon
  <2>5. marker'[call[c].op.on].seq = 0 => saw.end = 0
      BY <1>0, <2>1, <2>2, <2>3, Zenon DEF deploymentVars
  <2>6. CallsOK'
      BY <1>0, <1>1, <2>4, <2>5, HandlerMoves, Zenon DEF DeploymentInv
  <2> QED BY <1>1, <2>6, Zenon DEF DeploymentInv
<1> QED BY <1>3, <1>4, <1>5, Zenon

(* The transaction of a start: committed, conflicting or refused. *)
LEMMA CommitStartKeeps ==
    ASSUME DeploymentInv, NEW c \in DOMAIN call, CommitStart(c) PROVE DeploymentInv'
<1>1. HandlerOK(call[c])
    BY Zenon DEF DeploymentInv, CallsOK
<1>2. call[c].op.kind = "start" /\ call[c].pc = "commit"
    BY Zenon DEF CommitStart, At
<1>3. (\E out : Finish(c, out)) \/ GoTo(c, "reread", 0)
    BY Zenon DEF CommitStart, TransactCreate, Create, Proceed, Refuse
<1>4. MovedTo(c, "done", 0) \/ MovedTo(c, "reread", 0)
    BY <1>1, <1>3, FinishMoves, GoToMoves, Zenon
<1>5. DeploymentsOK' /\ Grows
  <2>1. CASE UNCHANGED deploymentVars
      BY <2>1, UnchangedDeployments, Zenon DEF DeploymentInv
  <2>2. CASE StartConditions(c) /\ ~UNCHANGED deploymentVars
    <3>1. PutOpen(NewId(c), Deployment(Op(c).on, Op(c).to, Op(c).at), call[c].saw.end)
        BY <2>2, Zenon DEF CommitStart
    <3>2. Op(c).on \in Components /\ Op(c).at \in Nat \ {0}
        BY <1>1, <1>2, Zenon DEF HandlerOK, OpOK, Op
    <3>3. /\ NewId(c) \notin DOMAIN deployment /\ current[Op(c).on] = NoId
          /\ marker[Op(c).on].seq = 0 \/ marker[Op(c).on].last <= Op(c).at
        BY <2>2, Zenon DEF StartConditions, StartAllowed, MarkerAt
    <3>4. marker[Op(c).on].seq = 0 => call[c].saw.end = 0
        BY <1>1, <1>2, Zenon DEF HandlerOK, Op
    <3>5. NewId(c) # NoId
        BY Zenon DEF NewId, NoId
    <3> QED BY <3>1, <3>2, <3>3, <3>4, <3>5, PutOpenKeeps, Zenon DEF DeploymentInv
  <2> QED BY <2>1, <2>2, Zenon DEF CommitStart
<1>6. CallsOK'
    BY <1>2, <1>4, <1>5, HandlerMoves, Zenon DEF DeploymentInv
<1> QED BY <1>5, <1>6, Zenon DEF DeploymentInv

(* The steps of an end. *)
LEMMA EndReadsKeep ==
    ASSUME DeploymentInv, NEW c \in DOMAIN call, ReadDeployment(c) \/ FenceDeployment(c) \/ ReadEndMarker(c)
    PROVE  DeploymentInv'
<1>0. UNCHANGED deploymentVars /\ call[c].op.kind = "end"
    BY Zenon DEF ReadDeployment, FenceDeployment, ReadEndMarker, At
<1>1. Grows /\ DeploymentsOK'
    BY <1>0, UnchangedDeployments, Zenon DEF DeploymentInv
<1>2. HandlerOK(call[c])
    BY Zenon DEF DeploymentInv, CallsOK
<1>3. (\E out : Finish(c, out)) \/
      \E pc, saw : /\ GoTo(c, pc, saw)
                   /\ call[c].op.on \in DOMAIN deployment
                   /\ deployment[call[c].op.on].start < call[c].op.at
  <2>1. CASE ReadDeployment(c)
    <3>1. ReadDeployment(c) =>
             \/ \E out : Finish(c, out)
             \/ /\ GoTo(c, "fence", 0) /\ call[c].op.on \in DOMAIN deployment
                /\ call[c].op.at > deployment[call[c].op.on].start
        BY Zenon DEF ReadDeployment, Refuse, Proceed, Op
    <3>2. call[c].op.on \in DOMAIN deployment => deployment[call[c].op.on].start \in Nat
        BY Zenon DEF DeploymentInv, DeploymentsOK, Placed
    <3>3. call[c].op.at \in Nat
        BY <1>0, <1>2, Zenon DEF HandlerOK, OpOK
    <3> QED BY <2>1, <3>1, <3>2, <3>3, Zenon
  <2>2. CASE FenceDeployment(c) \/ ReadEndMarker(c)
    <3>1. /\ call[c].op.on \in DOMAIN deployment
          /\ deployment[call[c].op.on].start < call[c].op.at
        BY <1>2, <2>2, Zenon DEF FenceDeployment, ReadEndMarker, At, HandlerOK
    <3>2. (\E out : Finish(c, out)) \/ \E pc, saw : GoTo(c, pc, saw)
        BY <2>2, Zenon DEF FenceDeployment, ReadEndMarker, Refuse, Proceed
    <3> QED BY <3>1, <3>2, Zenon
  <2> QED BY <2>1, <2>2, Zenon
<1>4. CASE \E out : Finish(c, out)
  <2>1. MovedTo(c, "done", 0)
      BY <1>2, <1>4, FinishMoves, Zenon
  <2>2. CallsOK'
      BY <1>0, <1>1, <2>1, HandlerMoves, Zenon DEF DeploymentInv
  <2> QED BY <1>1, <2>2, Zenon DEF DeploymentInv
<1>5. ASSUME NEW pc, NEW saw, GoTo(c, pc, saw), call[c].op.on \in DOMAIN deployment,
             deployment[call[c].op.on].start < call[c].op.at
      PROVE  DeploymentInv'
  <2>1. MovedTo(c, pc, saw)
      BY <1>2, <1>5, GoToMoves, Zenon
  <2>2. CallsOK'
      BY <1>0, <1>1, <1>5, <2>1, HandlerMoves, Zenon DEF DeploymentInv, deploymentVars
  <2> QED BY <1>1, <2>2, Zenon DEF DeploymentInv
<1> QED BY <1>3, <1>4, <1>5, Zenon

(* The transaction of an end: committed or refused. *)
LEMMA CommitEndKeeps ==
    ASSUME DeploymentInv, NEW c \in DOMAIN call, CommitEnd(c) PROVE DeploymentInv'
<1>1. HandlerOK(call[c])
    BY Zenon DEF DeploymentInv, CallsOK
<1>2. call[c].op.kind = "end" /\ call[c].pc = "commit"
    BY Zenon DEF CommitEnd, At
<1>3. \E out : Finish(c, out)
    BY Zenon DEF CommitEnd, TransactUpdate, Refuse
<1>4. MovedTo(c, "done", 0)
    BY <1>1, <1>3, FinishMoves, Zenon
<1>5. DeploymentsOK' /\ Grows
  <2>1. CASE UNCHANGED deploymentVars
      BY <2>1, UnchangedDeployments, Zenon DEF DeploymentInv
  <2>2. CASE EndConditions(c) /\ PutEnd(Op(c).on, Op(c).at)
    <3>1. /\ Op(c).on \in DOMAIN deployment /\ Op(c).at \in Nat
          /\ deployment[Op(c).on].start < Op(c).at
        BY <1>1, <1>2, Zenon DEF HandlerOK, OpOK, Op
    <3>2. deployment[Op(c).on].end = Open
        BY <2>2, Zenon DEF EndConditions
    <3> QED BY <2>2, <3>1, <3>2, PutEndKeeps, Zenon DEF DeploymentInv
  <2> QED BY <2>1, <2>2, Zenon DEF CommitEnd
<1>6. CallsOK'
    BY <1>2, <1>4, <1>5, HandlerMoves, Zenon DEF DeploymentInv
<1> QED BY <1>5, <1>6, Zenon DEF DeploymentInv

-----------------------------------------------------------------------------
(* The stored deployments the calls begin with. *)
LEMMA InitEstablishesDeployments == RegistryInit => DeploymentInv
<1> SUFFICES ASSUME RegistryInit PROVE DeploymentInv
    BY Zenon
<1>1. DeploymentsOK
  <2> DEFINE Has(c) == \E i \in DOMAIN InitialDeployments : InitialDeployments[i].component = c
  <2>1. \A c \in Components :
           /\ Has(c) => /\ current[c] \in DOMAIN InitialDeployments
                        /\ InitialDeployments[current[c]].component = c
                        /\ marker[c] = [seq |-> 1, last |-> 0]
           /\ ~Has(c) => current[c] = NoId /\ marker[c] = NoMarker
      BY Zenon DEF RegistryInit
  <2>2. marker \in [Components -> [seq : Nat, last : Nat]] /\ DOMAIN current = Components
      BY Zenon DEF RegistryInit, NoMarker
  <2>3. \A i \in DOMAIN deployment : Placed(i)
      BY <2>1, InitialAssumption DEF RegistryInit, Placed, Open
  <2>4. \A i, j \in DOMAIN deployment : Apart(i, j)
      BY InitialAssumption, Zenon DEF RegistryInit, Apart
  <2>5. \A c \in Components : PointerOK(c)
      BY <2>1, InitialAssumption, Zenon DEF RegistryInit, PointerOK
  <2> QED BY <2>2, <2>3, <2>4, <2>5, InitialAssumption, Zenon DEF DeploymentsOK, RegistryInit
<1>2. CallsOK
  <2>1. PICK w \in Workloads :
           call = [c \in DOMAIN w.calls |->
                     [op |-> w.calls[c], pc |-> "begin", saw |-> 0, at |-> 0,
                      out |-> "none", sends |-> 1]]
      BY Zenon DEF RegistryInit, StoreInit
  <2> SUFFICES ASSUME NEW c \in DOMAIN call PROVE HandlerOK(call[c])
      BY Zenon DEF CallsOK
  <2>2. c \in DOMAIN w.calls /\ OpOK(w.calls[c])
      BY <2>1, CallsAssumption, Zenon DEF OpOK
  <2>3. call[c] = [op |-> w.calls[c], pc |-> "begin", saw |-> 0, at |-> 0,
                   out |-> "none", sends |-> 1]
      BY <2>1, <2>2, Zenon
  <2> QED BY <2>2, <2>3 DEF HandlerOK
<1> QED BY <1>1, <1>2, Zenon DEF DeploymentInv

(* Every step of every handler keeps the invariant. *)
LEMMA StepKeepsDeployments == DeploymentInv /\ [RegistryNext]_registryVars => DeploymentInv'
<1> SUFFICES ASSUME DeploymentInv, [RegistryNext]_registryVars PROVE DeploymentInv'
    BY Zenon
<1>1. ASSUME UNCHANGED <<call, deployment, current, marker>> PROVE DeploymentInv'
    BY <1>1, ZenonT(40) DEF DeploymentInv, DeploymentsOK, Placed, Apart, Before, PointerOK, CallsOK, HandlerOK, OpOK
<1>2. ASSUME NEW c \in DOMAIN call, DeploymentStep(c) PROVE DeploymentInv'
    BY <1>2, StartReadsKeep, CommitStartKeeps, EndReadsKeep, CommitEndKeeps, Zenon DEF DeploymentStep
<1>3. ASSUME NEW c \in DOMAIN call, RegistryStep(c) \/ IntegrationStep(c), UNCHANGED deploymentVars
      PROVE  DeploymentInv'
    BY <1>3, RegistryStepsHandle, IntegrationStepsHandle, OtherKindsMove, Zenon
<1>4. ASSUME NEW c \in DOMAIN call, LookUpReceipt(c) \/ RereadReceipt(c) \/ Resend(c),
             UNCHANGED deploymentVars
      PROVE  DeploymentInv'
    BY <1>4, ReceiptStepsKeep, Zenon
<1>5. CASE ClockTick /\ UNCHANGED <<deploymentVars, audit>>
    BY <1>1, <1>5, Zenon DEF ClockTick, deploymentVars
<1>6. CASE UNCHANGED registryVars
    BY <1>1, <1>6, Zenon DEF registryVars, storeVars, deploymentVars
<1> QED BY <1>2, <1>3, <1>4, <1>5, <1>6, Zenon DEF RegistryNext

(* For every set of components and every set of calls, however often they    *)
(* are sent and however they interleave: the deployments of a component are  *)
(* disjoint in time, and the open one, if any, is the one its CURRENT        *)
(* pointer names. Proved from the place of every deployment against the      *)
(* marker, and what a handler between its reads and its transaction may rely *)
(* on.                                                                       *)
THEOREM IntervalsAlwaysDisjoint == RegistrySpec => []IntervalsDisjoint
<1>1. DeploymentInv => IntervalsDisjoint
    BY DeploymentsDisjoint, Zenon DEF DeploymentInv
<1> QED BY <1>1, InitEstablishesDeployments, StepKeepsDeployments, PTL DEF RegistrySpec

-----------------------------------------------------------------------------
(***************************************************************************)
(* Idempotency: a key creates one thing while its receipt lives, and a     *)
(* replay tells of what was made.                                          *)
(***************************************************************************)

(* What a step of a handler does to the receipts: nothing, or it answers    *)
(* from a live one, or it writes one together with what it creates.         *)
Passes(c) == Handled(c) /\ UNCHANGED <<clock, receipt, made, answered>>

Receives(c) ==
    \/ Passes(c)
    \/ Replayable(Op(c)) /\ Replay(c)
    \/ ReceiptFree(Op(c).key) /\ \E items : Create(c, items)

(* Receipts are looked up. *)
LEMMA LookUpsReceive ==
    ASSUME NEW c, LookUpReceipt(c) \/ RereadReceipt(c)
    PROVE  Receives(c)
BY Zenon DEF LookUpReceipt, RereadReceipt, Refuse, Proceed, Receives, Passes, Handled

(* A creation is all of it or nothing, *)
LEMMA CreationReceives ==
    ASSUME NEW c, NEW conditions, NEW items, NEW reread,
           TransactCreate(c, conditions, items, reread)
    PROVE  Receives(c)
BY Zenon DEF TransactCreate, Refuse, Proceed, Receives, Passes, Handled

(* and an update concerns no receipt. *)
LEMMA UpdateReceives ==
    ASSUME NEW c, NEW conditions, NEW items, NEW gone,
           TransactUpdate(c, conditions, items, gone)
    PROVE  Receives(c)
BY Zenon DEF TransactUpdate, Refuse, Receives, Passes, Handled

(* Nor does a refusal, a read, or the building of an entity. *)
LEMMA ReadReceives ==
    ASSUME NEW c, Refuse(c) \/ (\E pc, saw : Proceed(c, pc, saw) \/ Build(c, pc, saw))
    PROVE  Receives(c)
BY Zenon DEF Refuse, Proceed, Build, Receives, Passes, Handled

(* Sites, assets, devices, components and capabilities. *)
LEMMA RegistryStepsReceive ==
    ASSUME NEW c, RegistryStep(c)
    PROVE  Receives(c)
<1> USE ReadReceives, CreationReceives, UpdateReceives
<1>1. CASE BuildSite(c) \/ PutSite(c) \/ ReadSite(c) \/ UpdateSite(c)
  BY <1>1, Zenon DEF BuildSite, PutSite, ReadSite, UpdateSite
<1>2. CASE ReadAssetSite(c) \/ PutAsset(c) \/ ReadAsset(c) \/ UpdateAsset(c)
  BY <1>2, Zenon DEF ReadAssetSite, PutAsset, ReadAsset, UpdateAsset
<1>3. CASE BuildDevice(c) \/ PutDevice(c) \/ ReadDevice(c) \/ FenceDevice(c) \/ UpdateDevice(c)
  BY <1>3, Zenon DEF BuildDevice, PutDevice, ReadDevice, FenceDevice, UpdateDevice
<1>4. CASE \/ ReadComponentDevice(c) \/ FenceComponentDevice(c) \/ PutComponent(c)
           \/ ReadComponent(c) \/ FenceComponent(c) \/ UpdateComponent(c)
  BY <1>4, Zenon DEF ReadComponentDevice, FenceComponentDevice, PutComponent,
                     ReadComponent, FenceComponent, UpdateComponent
<1>5. CASE ReadCapabilityComponent(c) \/ FenceCapabilityComponent(c) \/ PutCapability(c)
  BY <1>5, Zenon DEF ReadCapabilityComponent, FenceCapabilityComponent, PutCapability
<1> QED BY <1>1, <1>2, <1>3, <1>4, <1>5, Zenon DEF RegistryStep

(* Deployments. *)
LEMMA DeploymentStepsReceive ==
    ASSUME NEW c, DeploymentStep(c)
    PROVE  Receives(c)
<1> USE ReadReceives, CreationReceives, UpdateReceives
<1>1. CASE ReadStartParents(c) \/ ReadMarker(c) \/ ReadPrevious(c) \/ CommitStart(c)
  BY <1>1, Zenon DEF ReadStartParents, ReadMarker, ReadPrevious, CommitStart
<1>2. CASE ReadDeployment(c) \/ FenceDeployment(c) \/ ReadEndMarker(c) \/ CommitEnd(c)
  BY <1>2, Zenon DEF ReadDeployment, FenceDeployment, ReadEndMarker, CommitEnd
<1> QED BY <1>1, <1>2, Zenon DEF DeploymentStep

(* Accounts, integrations and credentials. *)
LEMMA IntegrationStepsReceive ==
    ASSUME NEW c, IntegrationStep(c)
    PROVE  Receives(c)
<1>0. ASSUME \E out : Finish(c, out) /\ UNCHANGED <<clock, horizon, table, receipt, made, answered>>
      PROVE  Receives(c)
  BY <1>0, Zenon DEF Receives, Passes, Handled
<1> USE <1>0, ReadReceives, CreationReceives, UpdateReceives
<1>1. CASE BuildAccount(c) \/ PutAccount(c) \/ ReadAccount(c) \/ TransitionAccount(c)
  BY <1>1, Zenon DEF BuildAccount, PutAccount, ReadAccount, ReadTransition,
                     TransitionAccount, AuditedUpdate
<1>2. CASE \/ ReadIntegrationParents(c) \/ PutIntegration(c)
           \/ ReadIntegration(c) \/ TransitionIntegration(c)
  BY <1>2, Zenon DEF ReadIntegrationParents, PutIntegration, ReadIntegration, ReadTransition,
                     TransitionIntegration, AuditedUpdate
<1>3. CASE ReadIssuer(c) \/ ListCredentials(c) \/ ChooseSlot(c) \/ IssueCredential(c)
  BY <1>3, Zenon DEF ReadIssuer, ListCredentials, ChooseSlot, IssueCredential, AuditedUpdate
<1>4. CASE ReadCredential(c) \/ RevokeCredential(c) \/ Authenticate(c) \/ AuthenticateAccount(c)
  BY <1>4, Zenon DEF ReadCredential, RevokeCredential, Authenticate, AuthenticateAccount,
                     AuditedUpdate
<1> QED BY <1>1, <1>2, <1>3, <1>4, Zenon DEF IntegrationStep

(* A receipt tells of something that was made for its key and body. What     *)
(* was made for a key is at most as old as the key's receipt claims, unless  *)
(* its own lifetime is over.                                                 *)
ReceiptTold(k) ==
    /\ receipt[k].at \in Nat
    /\ \E x \in made : x.key = k /\ x.body = receipt[k].body /\ x.id = receipt[k].id

Accounted(x) ==
    /\ x.at \in Nat /\ x.written \in Nat /\ x.key \in DOMAIN receipt
    /\ x.at + ReceiptTTL <= clock \/ x.at <= receipt[x.key].at

IdempotencyInv ==
    /\ clock \in Nat
    /\ \A c \in DOMAIN call : call[c].at \in Nat
    /\ \A k \in DOMAIN receipt : ReceiptTold(k)
    /\ \A x \in made : Accounted(x)
    /\ CreatedOnce

(* A receipt that may be overwritten has lived its lifetime: the TTL         *)
(* attribute is rounded up and the clock rounded down.                       *)
LEMMA FreeIsOver ==
    ASSUME IdempotencyInv, NEW key \in DOMAIN receipt, ReceiptFree(key)
    PROVE  receipt[key].at + ReceiptTTL <= clock
<1>1. receipt[key].at \in Nat /\ clock \in Nat
  BY Zenon DEF IdempotencyInv, ReceiptTold
<1>2. (receipt[key].at + ReceiptTTL + 1) \div 2 <= clock \div 2
  BY Zenon DEF ReceiptFree, CeilSeconds, Seconds
<1> QED BY <1>1, <1>2, TTLAssumption, SMT

(* What is told stays told while nothing is written and time passes. *)
LEMMA PassingKeeps ==
    ASSUME IdempotencyInv, UNCHANGED <<receipt, made, answered>>,
           clock' \in Nat, clock <= clock'
    PROVE  /\ \A k \in DOMAIN receipt' : ReceiptTold(k)'
           /\ \A x \in made' : Accounted(x)'
           /\ CreatedOnce'
<1>1. CreatedOnce'
  BY Zenon DEF IdempotencyInv, CreatedOnce
<1>2. \A k \in DOMAIN receipt' : ReceiptTold(k)'
  BY Zenon DEF IdempotencyInv, ReceiptTold
<1>3. ASSUME NEW x \in made' PROVE Accounted(x)'
  <2>1. Accounted(x) /\ clock \in Nat
    BY Zenon DEF IdempotencyInv
  <2> QED BY <2>1, TTLAssumption, SMT DEF Accounted
<1> QED BY <1>1, <1>2, <1>3, Zenon

(* Whatever a handler does, its call keeps an instant. *)
LEMMA InstantsKept ==
    ASSUME CallsOK, IdempotencyInv, NEW c \in DOMAIN call, Handled(c) \/ Resend(c)
    PROVE  \A d \in DOMAIN call' : call'[d].at \in Nat
<1>1. HandlerOK(call[c])
  BY Zenon DEF CallsOK
<1>2. PICK pc, saw : MovedTo(c, pc, saw)
  BY <1>1, FinishMoves, GoToMoves, BuildMoves, ResendMoves, Zenon DEF Handled
<1>3. PICK k : call' = [call EXCEPT ![c] = k] /\ k.at \in {call[c].at, clock, 0}
  BY <1>2, Zenon DEF MovedTo
<1>4. clock \in Nat /\ \A d \in DOMAIN call : call[d].at \in Nat
  BY Zenon DEF IdempotencyInv
<1> QED BY <1>3, <1>4

(* A replay tells what the receipt tells. *)
LEMMA ReplayKeeps ==
    ASSUME CallsOK, IdempotencyInv, NEW c \in DOMAIN call, Replayable(Op(c)), Replay(c)
    PROVE  IdempotencyInv'
<1> DEFINE key == Op(c).key
           told == Told(Op(c), receipt[key].id)
<1>1. /\ answered' = answered \cup {told}
      /\ clock' = clock /\ receipt' = receipt /\ made' = made
      /\ key \in DOMAIN receipt /\ receipt[key].body = Op(c).body
  BY Zenon DEF Replay, Replayable, Live
<1>2. \A d \in DOMAIN call' : call'[d].at \in Nat
  BY InstantsKept, Zenon DEF Handled, Replay
<1>3. /\ \A k \in DOMAIN receipt' : ReceiptTold(k)'
      /\ \A x \in made' : Accounted(x)'
  BY <1>1, Zenon DEF IdempotencyInv, ReceiptTold, Accounted
<1>4. \E x \in made : x.key = told.key /\ x.body = told.body /\ x.id = told.id
  <2>1. told.key = key /\ told.body = Op(c).body /\ told.id = receipt[key].id
    BY Zenon DEF Told
  <2>2. ReceiptTold(key)
    BY <1>1, Zenon DEF IdempotencyInv
  <2> HIDE DEF told, key
  <2> QED BY <1>1, <2>1, <2>2, Zenon DEF ReceiptTold
<1> HIDE DEF told, key
<1>5. CreatedOnce'
  BY <1>1, <1>4, Zenon DEF IdempotencyInv, CreatedOnce
<1> QED BY <1>1, <1>2, <1>3, <1>5, Zenon DEF IdempotencyInv

(* A creation writes its receipt over one that is over, if over any. *)
LEMMA CreationKeeps ==
    ASSUME CallsOK, IdempotencyInv, NEW c \in DOMAIN call, ReceiptFree(Op(c).key),
           NEW items, Create(c, items)
    PROVE  IdempotencyInv'
<1> DEFINE key == Op(c).key
           r == [body |-> Op(c).body, id |-> NewId(c), at |-> call[c].at]
           new == [key |-> key, body |-> Op(c).body, id |-> NewId(c), at |-> call[c].at,
                   written |-> clock]
           told == Told(Op(c), NewId(c))
<1>1. /\ receipt' = [k \in DOMAIN receipt \cup {key} |-> IF k = key THEN r ELSE receipt[k]]
      /\ made' = made \cup {new}
      /\ answered' = answered \cup {told}
      /\ clock' = clock
  BY Zenon DEF Create
<1>2. \A d \in DOMAIN call' : call'[d].at \in Nat
  BY InstantsKept, Zenon DEF Handled, Create
<1>3. /\ new.key = key /\ new.at = r.at /\ new.at \in Nat /\ new.written = clock
      /\ new.body = r.body /\ new.id = r.id
      /\ told.key = key /\ told.body = r.body /\ told.id = r.id
  BY Zenon DEF IdempotencyInv, Told
<1>4. clock \in Nat
  BY Zenon DEF IdempotencyInv
<1>5. key \in DOMAIN receipt => receipt[key].at + ReceiptTTL <= clock /\ receipt[key].at \in Nat
  BY FreeIsOver, Zenon DEF IdempotencyInv, ReceiptTold
<1> HIDE DEF key, r, new, told
<1>6. ASSUME NEW x \in made PROVE Accounted(x)' /\ (x.key = key => x.at + ReceiptTTL <= clock)
  <2>1. Accounted(x)
    BY Zenon DEF IdempotencyInv
  <2>2. x.key = key => x.at + ReceiptTTL <= clock
    BY <1>4, <1>5, <2>1, TTLAssumption, SMT DEF Accounted
  <2>3. x.key # key => receipt'[x.key] = receipt[x.key]
    BY <1>1, <2>1, Zenon DEF Accounted
  <2>4. x.key \in DOMAIN receipt'
    BY <1>1, <2>1, Zenon DEF Accounted
  <2> QED BY <1>1, <2>1, <2>2, <2>3, <2>4, Zenon DEF Accounted
<1>7. ASSUME NEW x, x = new PROVE Accounted(x)'
  <2>1. key \in DOMAIN receipt' /\ receipt'[key] = r
    BY <1>1, Zenon
  <2>2. x.key = key /\ x.at = r.at /\ x.at \in Nat /\ x.written = clock
    BY <1>3, <1>7, Zenon
  <2>3. x.at <= receipt'[x.key].at
    BY <2>1, <2>2
  <2> QED BY <1>4, <2>1, <2>2, <2>3, Zenon DEF Accounted
<1>8. \A x \in made' : Accounted(x)'
  BY <1>1, <1>6, <1>7, Zenon
<1>9. ASSUME NEW k \in DOMAIN receipt' PROVE ReceiptTold(k)'
  <2>1. CASE k = key
    <3>1. receipt'[k] = r /\ new \in made'
      BY <1>1, <2>1, Zenon
    <3> QED BY <1>3, <2>1, <3>1, Zenon DEF ReceiptTold
  <2>2. CASE k # key
    <3>1. receipt'[k] = receipt[k] /\ ReceiptTold(k)
      BY <1>1, <2>2, Zenon DEF IdempotencyInv
    <3> QED BY <1>1, <3>1, Zenon DEF ReceiptTold
  <2> QED BY <2>1, <2>2, Zenon
<1>10. CreatedOnce'
  <2>1. ASSUME NEW x \in made', NEW y \in made', x.key = y.key, x.id # y.id
        PROVE  x.at + ReceiptTTL <= y.written \/ y.at + ReceiptTTL <= x.written
    <3>1. CASE x \in made /\ y \in made
      BY <2>1, <3>1, Zenon DEF IdempotencyInv, CreatedOnce
    <3>2. CASE x \in made /\ y = new
      BY <1>3, <1>6, <2>1, <3>2, Zenon
    <3>3. CASE x = new /\ y \in made
      BY <1>3, <1>6, <2>1, <3>3, Zenon
    <3> QED BY <1>1, <2>1, <3>1, <3>2, <3>3, Zenon
  <2>2. ASSUME NEW a \in answered'
        PROVE  \E x \in made' : x.key = a.key /\ x.body = a.body /\ x.id = a.id
    <3>1. CASE a \in answered
      BY <1>1, <3>1, Zenon DEF IdempotencyInv, CreatedOnce
    <3>2. CASE a = told
      BY <1>1, <1>3, <3>2, Zenon
    <3> QED BY <1>1, <3>1, <3>2, Zenon
  <2> QED BY <2>1, <2>2, Zenon DEF CreatedOnce
<1> QED BY <1>1, <1>2, <1>4, <1>8, <1>9, <1>10, Zenon DEF IdempotencyInv

(* Every step keeps the invariant. *)
LEMMA StepKeepsIdempotency ==
    DeploymentInv /\ IdempotencyInv /\ [RegistryNext]_registryVars => IdempotencyInv'
<1> SUFFICES ASSUME DeploymentInv, IdempotencyInv, [RegistryNext]_registryVars
             PROVE  IdempotencyInv'
  BY Zenon
<1>1. CallsOK
  BY Zenon DEF DeploymentInv
<1>2. ASSUME NEW c \in DOMAIN call, Receives(c) PROVE IdempotencyInv'
  <2>1. CASE Passes(c)
    <3>1. \A d \in DOMAIN call' : call'[d].at \in Nat
      BY <1>1, <2>1, InstantsKept, Zenon DEF Passes
    <3>2. UNCHANGED <<clock, receipt, made, answered>> /\ clock \in Nat
      BY <2>1, Zenon DEF Passes, IdempotencyInv
    <3>3. clock' \in Nat /\ clock <= clock'
      BY <3>2
    <3> QED BY <3>1, <3>2, <3>3, PassingKeeps, Zenon DEF IdempotencyInv
  <2> QED BY <1>1, <1>2, <2>1, ReplayKeeps, CreationKeeps, Zenon DEF Receives
<1>3. ASSUME NEW c \in DOMAIN call, Resend(c) PROVE IdempotencyInv'
  <2>1. \A d \in DOMAIN call' : call'[d].at \in Nat
    BY <1>1, <1>3, InstantsKept, Zenon
  <2>2. UNCHANGED <<clock, receipt, made, answered>> /\ clock \in Nat
    BY <1>3, Zenon DEF Resend, IdempotencyInv
  <2>3. clock' \in Nat /\ clock <= clock'
    BY <2>2
  <2> QED BY <2>1, <2>2, <2>3, PassingKeeps, Zenon DEF IdempotencyInv
<1>4. CASE ClockTick \/ UNCHANGED registryVars
  <2>1. UNCHANGED <<receipt, made, answered, call>> /\ (clock' = clock + 1 \/ clock' = clock)
    BY <1>4, Zenon DEF ClockTick, registryVars, storeVars
  <2>2. clock \in Nat
    BY Zenon DEF IdempotencyInv
  <2>3. clock' \in Nat /\ clock <= clock'
    BY <2>1, <2>2
  <2> QED BY <2>1, <2>3, PassingKeeps, Zenon DEF IdempotencyInv
<1> QED BY <1>2, <1>3, <1>4, LookUpsReceive, RegistryStepsReceive, DeploymentStepsReceive,
           IntegrationStepsReceive, Zenon DEF RegistryNext

(* Before the first call nothing was made and no receipt was written. *)
LEMMA InitEstablishesIdempotency == RegistryInit => IdempotencyInv
<1> SUFFICES ASSUME RegistryInit PROVE IdempotencyInv
  BY Zenon
<1>1. clock = 1 /\ receipt = [k \in {} |-> 0] /\ made = {} /\ answered = {}
  BY Zenon DEF RegistryInit, StoreInit
<1>2. \A c \in DOMAIN call : call[c].at = 0
  <2>1. PICK w \in Workloads :
          call = [c \in DOMAIN w.calls |-> [op |-> w.calls[c], pc |-> "begin", saw |-> 0,
                                            at |-> 0, out |-> "none", sends |-> 1]]
    BY Zenon DEF RegistryInit, StoreInit
  <2> QED BY <2>1, Zenon
<1> QED BY <1>1, <1>2 DEF IdempotencyInv, CreatedOnce

(* In every reachable state of the registry, what was created under one key  *)
(* was created a full lifetime of its receipt apart, and whoever was         *)
(* answered was told of something made from the body they sent.              *)
THEOREM AlwaysCreatedOnce == RegistrySpec => []CreatedOnce
<1>1. RegistrySpec => [](DeploymentInv /\ IdempotencyInv)
  BY InitEstablishesDeployments, StepKeepsDeployments, InitEstablishesIdempotency,
     StepKeepsIdempotency, PTL DEF RegistrySpec
<1>2. IdempotencyInv => CreatedOnce
  BY Zenon DEF IdempotencyInv
<1> QED BY <1>1, <1>2, PTL

-----------------------------------------------------------------------------
(***************************************************************************)
(* get_deployment_at reads one row, the latest that starts by an instant.  *)
(***************************************************************************)

(* A set of naturals has a least element. *)
LEMMA LeastNatural ==
    ASSUME NEW T \in SUBSET Nat, T # {} PROVE \E x \in T : \A y \in T : x <= y
<1> DEFINE R == {ss \in Nat \X Nat : ss[1] < ss[2]}
<1>1. IsWellFoundedOn(R, Nat)
  BY NatLessThanWellFounded, Zenon DEF OpToRel
<1>2. \A x, y \in Nat : <<y, x>> \notin R => x <= y
  BY SMT
<1> HIDE DEF R
<1>3. PICK x \in T : \A y \in T : <<y, x>> \notin R
  BY <1>1, WFMin, Zenon
<1> QED BY <1>2, <1>3, Zenon

(* Of the deployments that start by an instant, Latest is one that starts    *)
(* last.                                                                     *)
LEMMA LatestStartsLast ==
    ASSUME DeploymentsOK, NEW t \in Nat, NEW S \in SUBSET (DOMAIN deployment), S # {},
           \A i \in S : deployment[i].start <= t
    PROVE  Latest(S) \in S /\ \A j \in S : deployment[j].start <= deployment[Latest(S)].start
<1>1. \A i \in S : deployment[i].start \in Nat
  BY Zenon DEF DeploymentsOK, Placed
<1> DEFINE T == {t - deployment[i].start : i \in S}
<1>2. T \in SUBSET Nat /\ T # {}
  BY <1>1, SMT
<1>3. PICK x \in T : \A y \in T : x <= y
  BY <1>2, LeastNatural, Zenon
<1>4. PICK i \in S : x = t - deployment[i].start
  BY Zenon
<1>5. ASSUME NEW j \in S PROVE deployment[j].start <= deployment[i].start
  <2>1. t - deployment[j].start \in T
    BY Zenon
  <2>2. t - deployment[i].start <= t - deployment[j].start
    BY <1>3, <1>4, <2>1, Zenon
  <2> HIDE DEF T
  <2> QED BY <1>1, <2>2, SMT
<1> QED BY <1>5, Zenon DEF Latest

(* The deployment the lookup finds covers the instant if any does. *)
LEMMA LatestCovers ==
    ASSUME DeploymentsOK, NEW c, NEW t \in Nat, NEW i \in History(c), NEW l \in History(c),
           Covers(deployment[i], t), deployment[l].start <= t,
           deployment[i].start <= deployment[l].start
    PROVE  Covers(deployment[l], t)
<1>1. Placed(i) /\ Placed(l) /\ Apart(i, l) /\ deployment[i].component = deployment[l].component
  BY Zenon DEF DeploymentsOK, History
<1>2. CASE i = l
  BY <1>2, Zenon
<1>3. CASE Before(i, l)
  BY <1>1, <1>3, SMT DEF Before, Placed, Covers
<1>4. CASE Before(l, i)
  BY <1>1, <1>4, SMT DEF Before, Placed
<1> QED BY <1>1, <1>2, <1>3, <1>4, Zenon DEF Apart

(* The lookup of one row finds the interval of any instant. *)
LEMMA LookupLocates ==
    ASSUME DeploymentsOK, NEW c \in Components, NEW t \in Nat
    PROVE  LET covering == {i \in History(c) : /\ deployment[i].start <= t
                                               /\ IsOpen(i) \/ t < deployment[i].end}
           IN  IF covering = {} THEN DeploymentAt(c, t) = NoId
                                ELSE DeploymentAt(c, t) \in covering
<1> DEFINE covering == {i \in History(c) : /\ deployment[i].start <= t
                                           /\ IsOpen(i) \/ t < deployment[i].end}
           S == {i \in History(c) : deployment[i].start <= t}
           l == Latest(S)
<1>1. covering = {i \in S : Covers(deployment[i], t)}
  BY Zenon DEF Covers, IsOpen
<1>2. DeploymentAt(c, t) = IF S # {} /\ Covers(deployment[l], t) THEN l ELSE NoId
  BY Zenon DEF DeploymentAt
<1>3. S # {} => l \in S /\ \A j \in S : deployment[j].start <= deployment[l].start
  BY LatestStartsLast, Zenon DEF History
<1>4. ASSUME NEW i \in covering PROVE l \in covering /\ S # {}
  <2>1. i \in S /\ Covers(deployment[i], t)
    BY <1>1, <1>4, Zenon
  <2>2. l \in S /\ deployment[i].start <= deployment[l].start
    BY <1>3, <2>1, Zenon
  <2>3. Covers(deployment[l], t)
    BY <2>1, <2>2, LatestCovers, Zenon
  <2> QED BY <1>1, <2>1, <2>2, <2>3, Zenon
<1> SUFFICES IF covering = {} THEN DeploymentAt(c, t) = NoId ELSE DeploymentAt(c, t) \in covering
  BY Zenon
<1> HIDE DEF covering, S, l
<1> QED BY <1>1, <1>2, <1>3, <1>4, Zenon

(* In every reachable state of the registry, the lookup answers for every    *)
(* instant up to the horizon as the definition of the intervals does.        *)
THEOREM AlwaysLocatesExactly == RegistrySpec => []LocatesExactly
<1>1. ASSUME DeploymentsOK PROVE LocatesExactly
  <2>1. \A t \in 1 .. horizon : t \in Nat
    OBVIOUS
  <2> QED BY <1>1, <2>1, LookupLocates, Zenon DEF LocatesExactly, LocatesTheInterval
<1>2. DeploymentInv => LocatesExactly
  BY <1>1, Zenon DEF DeploymentInv
<1> QED BY <1>2, InitEstablishesDeployments, StepKeepsDeployments, PTL DEF RegistrySpec

-----------------------------------------------------------------------------
(***************************************************************************)
(* Parents: nothing is born under a parent that is retired by then.        *)
(*                                                                         *)
(* Most transactions repeat the check of the parent as a condition. The    *)
(* creations of a component and of a capability do not: they are fenced on *)
(* the version of the parent that the repository read. That is as good as  *)
(* the check because every write moves the version, so a parent still at   *)
(* the version observed still has the status observed.                     *)
(***************************************************************************)

ComponentStatus == {"active"} \cup TerminalComponent

(* A row as the services write it. *)
RowOK(k, row) ==
    /\ k[1] \in {"device", "component", "integration"} =>
          DOMAIN row = {"status", "version", "of"}
    /\ k[1] \in {"device", "component"} => row.version \in Nat \ {0}
    /\ k[1] = "component" => row.status \in ComponentStatus
    /\ k[1] = "integration" => row.of[3][1] = "identity"

RowsOK == \A k \in DOMAIN table : RowOK(k, table[k])

(* A parent that is still at version v is in none of the statuses. *)
Fenced(k, v, statuses) ==
    /\ v \in Nat
    /\ v <= Row(k).version
    /\ Row(k).version = v => Row(k).status \notin statuses

(* What a handler with this call relies on, by where it is. *)
Relies(op, pc, saw) ==
    /\ op.kind = "create_component" /\ pc = "commit" =>
          Fenced(Device(op.on), saw, {"decommissioned"})
    /\ op.kind = "create_capability" /\ pc = "commit" =>
          Fenced(Component(op.on), saw, TerminalComponent)
    /\ op.kind = "update_component" /\ pc \in {"fence", "commit"} =>
          op.to \in {"-"} \cup ComponentStatus

ParentsInv ==
    /\ RowsOK
    /\ \A c \in DOMAIN call : Relies(call[c].op, call[c].pc, call[c].saw)

(* The parents of a row that appears. *)
ParentsAlive(k, row) ==
    /\ k[1] = "asset" => HasStatus(Site(row.of[1]), {"active"})
    /\ k[1] = "component" => ~HasStatus(Device(row.of[1]), {"decommissioned"})
    /\ k[1] = "capability" => HasStatus(Component(row.of[1]), {"active"})
    /\ k[1] = "integration" =>
          /\ ~HasStatus(Device(row.of[1]), {"decommissioned"})
          /\ HasStatus(Account(row.of[2]), Provisionable)
    /\ k[1] = "credential" => HasStatus(Account(row.of[1]), Provisionable)

(* A row that a transaction puts: as it should be, one version further, and  *)
(* with its parents alive if it is new.                                      *)
PutOK(k, row) ==
    /\ RowOK(k, row)
    /\ k[1] \in {"device", "component"} => row.version = Row(k).version + 1
    /\ k \in DOMAIN table \/ ParentsAlive(k, row)

PutsOK(items) == \A k \in DOMAIN items : PutOK(k, items[k])

(* What a step does to the table: nothing, or it puts such rows and frees    *)
(* slots.                                                                    *)
Writes ==
    \/ UNCHANGED table
    \/ \E items, gone :
          /\ table' = Merge(items, gone)
          /\ \A k \in gone : k[1] = "slot"
          /\ PutsOK(items)

RowMoves(k) == Row(k)' = Row(k) \/ Row(k)'.version = Row(k).version + 1

-----------------------------------------------------------------------------
(* Writes keep the rows as they should be and move their versions, *)
LEMMA WritesKeepRows ==
    ASSUME RowsOK, Writes
    PROVE  RowsOK' /\ \A k : k[1] \in {"device", "component"} => RowMoves(k)
<1>1. CASE UNCHANGED table
    BY <1>1, Zenon DEF RowsOK, RowOK, RowMoves, Row
<1>2. ASSUME NEW items, NEW gone, table' = Merge(items, gone),
             \A k \in gone : k[1] = "slot", PutsOK(items)
      PROVE  RowsOK' /\ \A k : k[1] \in {"device", "component"} => RowMoves(k)
  <2>1. DOMAIN table' = (DOMAIN table \ gone) \cup DOMAIN items
      BY <1>2, Zenon DEF Merge
  <2>2. \A k \in DOMAIN table' : table'[k] = IF k \in DOMAIN items THEN items[k] ELSE table[k]
      BY <1>2, Zenon DEF Merge
  <2>3. RowsOK'
    <3> SUFFICES ASSUME NEW k \in DOMAIN table' PROVE RowOK(k, table'[k])
        BY Zenon DEF RowsOK, RowOK
    <3>1. CASE k \in DOMAIN items
        BY <1>2, <2>2, <3>1, Zenon DEF PutsOK, PutOK
    <3>2. CASE k \notin DOMAIN items
        BY <2>1, <2>2, <3>2, Zenon DEF RowsOK
    <3> QED BY <3>1, <3>2, Zenon
  <2>4. ASSUME NEW k, k[1] \in {"device", "component"} PROVE RowMoves(k)
    <3>1. CASE k \in DOMAIN items
      <4>1. Row(k)' = items[k]
          BY <2>1, <2>2, <3>1, Zenon DEF Row
      <4>2. items[k].version = Row(k).version + 1
          BY <1>2, <2>4, <3>1, Zenon DEF PutsOK, PutOK
      <4> QED BY <4>1, <4>2, Zenon DEF RowMoves
    <3>2. CASE k \notin DOMAIN items
      <4>1. k \notin gone
          BY <1>2, <2>4, Zenon
      <4>2. Row(k)' = Row(k)
          BY <2>1, <2>2, <3>2, <4>1, Zenon DEF Row
      <4> QED BY <4>2, Zenon DEF RowMoves
    <3> QED BY <3>1, <3>2, Zenon
  <2> QED BY <2>3, <2>4, Zenon
<1> QED BY <1>1, <1>2, Zenon DEF Writes

(* and what is born has its parents alive. *)
LEMMA WritesBear ==
    ASSUME Writes, NEW k \in DOMAIN table' \ DOMAIN table
    PROVE  ParentsAlive(k, table'[k])
<1>1. PICK items, gone : table' = Merge(items, gone) /\ PutsOK(items)
    BY Zenon DEF Writes
<1>2. k \in DOMAIN items /\ table'[k] = items[k]
    BY <1>1, Zenon DEF Merge
<1> QED BY <1>1, <1>2, Zenon DEF PutsOK, PutOK

(* The version of a row that is, or would be, a device or a component. *)
LEMMA RowVersion ==
    ASSUME RowsOK, NEW k, k[1] \in {"device", "component"}
    PROVE  /\ Row(k).version \in Nat
           /\ k \in DOMAIN table => Row(k).version # 0
           /\ k[1] = "component" /\ k \in DOMAIN table => Row(k).status \in ComponentStatus
BY Zenon DEF RowsOK, RowOK, Row, NoRow

(* A fence holds on: the parent stays as it was or leaves the version. *)
LEMMA FenceStays ==
    ASSUME RowsOK, NEW k, k[1] \in {"device", "component"}, RowMoves(k),
           NEW v, NEW statuses, Fenced(k, v, statuses)
    PROVE  Fenced(k, v, statuses)'
<1>1. Row(k).version \in Nat
    BY RowVersion
<1> QED BY <1>1 DEF Fenced, RowMoves

LEMMA RelianceStays ==
    ASSUME RowsOK, Writes, NEW op, NEW pc, NEW saw, Relies(op, pc, saw)
    PROVE  Relies(op, pc, saw)'
<1>1. \A k : k[1] \in {"device", "component"} => RowMoves(k)
    BY WritesKeepRows, Zenon
<1>2. Device(op.on)[1] = "device" /\ Component(op.on)[1] = "component"
    BY Zenon DEF Device, Component
<1>3. RowMoves(Device(op.on)) /\ RowMoves(Component(op.on))
    BY <1>1, <1>2
<1>4. ASSUME Fenced(Device(op.on), saw, {"decommissioned"})
      PROVE  Fenced(Device(op.on), saw, {"decommissioned"})'
    BY <1>2, <1>3, <1>4, FenceStays
<1>5. ASSUME Fenced(Component(op.on), saw, TerminalComponent)
      PROVE  Fenced(Component(op.on), saw, TerminalComponent)'
    BY <1>2, <1>3, <1>5, FenceStays
<1> QED BY <1>4, <1>5, Zenon DEF Relies

(* A step of a handler: what it writes, and where it goes on relying on what. *)
Tends(c) ==
    /\ Writes
    /\ \E pc, saw : MovedTo(c, pc, saw) /\ Relies(call[c].op, pc, saw)

LEMMA TendingKeeps ==
    ASSUME ParentsInv, NEW c \in DOMAIN call, Tends(c)
    PROVE  ParentsInv'
<1>1. RowsOK /\ Writes
    BY Zenon DEF ParentsInv, Tends
<1>2. PICK pc, saw : MovedTo(c, pc, saw) /\ Relies(call[c].op, pc, saw)
    BY Zenon DEF Tends
<1>3. PICK k : /\ call' = [call EXCEPT ![c] = k]
               /\ k.op = call[c].op /\ k.pc = pc /\ k.saw = saw
    BY <1>2, Zenon DEF MovedTo
<1>4. ASSUME NEW d \in DOMAIN call' PROVE Relies(call[d].op, call[d].pc, call[d].saw)'
  <2>1. PICK j : j = call'[d]
      BY Zenon
  <2>2. Relies(j.op, j.pc, j.saw)
    <3>1. CASE d = c
      <4>1. j = k
          BY <1>3, <2>1, <3>1, Zenon
      <4> QED BY <1>2, <1>3, <4>1, Zenon
    <3>2. CASE d # c
      <4>1. j = call[d] /\ d \in DOMAIN call
          BY <1>3, <2>1, <3>2, Zenon
      <4> QED BY <4>1, Zenon DEF ParentsInv
    <3> QED BY <3>1, <3>2, Zenon
  <2>3. Relies(j.op, j.pc, j.saw)'
      BY <1>1, <2>2, RelianceStays, Zenon
  <2> QED BY <2>1, <2>3, Zenon
<1>5. RowsOK'
    BY <1>1, WritesKeepRows, Zenon
<1> QED BY <1>4, <1>5, Zenon DEF ParentsInv

(* Where nothing is relied on. *)
LEMMA NothingRelied ==
    ASSUME NEW op, NEW saw, NEW pc,
           \/ pc \in {"begin", "read", "reread", "done"}
           \/ op.kind \notin {"create_component", "create_capability", "update_component"}
    PROVE  Relies(op, pc, saw)
BY Zenon DEF Relies

(* A refusal, an answer, a read and the building of an entity, *)
LEMMA RefusalTends ==
    ASSUME NEW c \in DOMAIN call, HandlerOK(call[c]), NEW out, Finish(c, out), UNCHANGED table
    PROVE  Tends(c)
<1>1. MovedTo(c, "done", 0)
    BY FinishMoves, Zenon
<1>2. Relies(call[c].op, "done", 0)
    BY NothingRelied, Zenon
<1> QED BY <1>1, <1>2, Zenon DEF Tends, Writes

LEMMA ReadTends ==
    ASSUME NEW c \in DOMAIN call, HandlerOK(call[c]), NEW pc, NEW saw,
           Proceed(c, pc, saw) \/ Build(c, pc, saw), Relies(call[c].op, pc, saw)
    PROVE  Tends(c)
<1>1. MovedTo(c, pc, saw)
    BY GoToMoves, BuildMoves, Zenon DEF Proceed
<1>2. UNCHANGED table
    BY Zenon DEF Proceed, Build
<1> QED BY <1>1, <1>2, Zenon DEF Tends, Writes

LEMMA ResendTends ==
    ASSUME NEW c \in DOMAIN call, HandlerOK(call[c]), Resend(c)
    PROVE  Tends(c)
<1>1. MovedTo(c, "begin", 0)
    BY ResendMoves, Zenon
<1>2. Relies(call[c].op, "begin", 0)
    BY NothingRelied, Zenon
<1>3. UNCHANGED table
    BY Zenon DEF Resend
<1> QED BY <1>1, <1>2, <1>3, Zenon DEF Tends, Writes

(* a creation, *)
LEMMA CreationTends ==
    ASSUME NEW c \in DOMAIN call, HandlerOK(call[c]), NEW conditions, NEW items, NEW reread,
           TransactCreate(c, conditions, items, reread), conditions => PutsOK(items)
    PROVE  Tends(c)
<1>1. CASE conditions /\ Create(c, items)
  <2>1. table' = Merge(items, {}) /\ Finish(c, "created")
      BY <1>1, Zenon DEF Create
  <2>2. MovedTo(c, "done", 0)
      BY <2>1, FinishMoves, Zenon
  <2>3. Relies(call[c].op, "done", 0)
      BY NothingRelied, Zenon
  <2>4. PICK gone : gone = {}
      BY Zenon
  <2>5. table' = Merge(items, gone) /\ (\A k \in gone : k[1] = "slot") /\ PutsOK(items)
      BY <1>1, <2>1, <2>4, Zenon
  <2>6. Writes
      BY <2>5, Zenon DEF Writes
  <2> QED BY <2>2, <2>3, <2>6, Zenon DEF Tends
<1>2. CASE Refuse(c)
  <2>1. Finish(c, "refused") /\ UNCHANGED table
      BY <1>2, Zenon DEF Refuse
  <2> QED BY <2>1, RefusalTends, Zenon
<1>3. CASE Proceed(c, "reread", 0)
  <2>1. Relies(call[c].op, "reread", 0)
      BY NothingRelied, Zenon
  <2> QED BY <1>3, <2>1, ReadTends, Zenon
<1> QED BY <1>1, <1>2, <1>3, Zenon DEF TransactCreate

(* and an update. *)
LEMMA UpdateTends ==
    ASSUME NEW c \in DOMAIN call, HandlerOK(call[c]), NEW conditions, NEW items, NEW gone,
           TransactUpdate(c, conditions, items, gone),
           conditions => PutsOK(items) /\ \A k \in gone : k[1] = "slot"
    PROVE  Tends(c)
<1>1. CASE conditions /\ table' = Merge(items, gone) /\ Finish(c, "updated")
  <2>2. MovedTo(c, "done", 0)
      BY <1>1, FinishMoves, Zenon
  <2>3. Relies(call[c].op, "done", 0)
      BY NothingRelied, Zenon
  <2>4. Writes
      BY <1>1, Zenon DEF Writes
  <2> QED BY <2>2, <2>3, <2>4, Zenon DEF Tends
<1>2. CASE Refuse(c)
  <2>1. Finish(c, "refused") /\ UNCHANGED table
      BY <1>2, Zenon DEF Refuse
  <2> QED BY <2>1, RefusalTends, Zenon
<1> QED BY <1>1, <1>2, Zenon DEF TransactUpdate

-----------------------------------------------------------------------------
(* The rows that are put. An update moves the version, *)
LEMMA ChangedOK ==
    ASSUME RowsOK, NEW k \in DOMAIN table, NEW to,
           k[1] = "component" => to \in {"-"} \cup ComponentStatus
    PROVE  PutOK(k, Changed(table[k], to))
<1>1. RowOK(k, table[k]) /\ Row(k) = table[k]
    BY Zenon DEF RowsOK, Row
<1> QED BY <1>1 DEF PutOK, RowOK, Changed

(* and a new row starts at version 1. *)
LEMMA EntityOK ==
    ASSUME NEW k, k \notin DOMAIN table, NEW status, NEW of,
           k[1] = "component" => status = "active",
           k[1] = "integration" => of[3][1] = "identity",
           ParentsAlive(k, Entity(status, of))
    PROVE  PutOK(k, Entity(status, of))
BY DEF PutOK, RowOK, Entity, Row, NoRow, ComponentStatus

(* Sites: no row here is a parent fenced on its version. *)
LEMMA SiteStepsTend ==
    ASSUME ParentsInv, NEW c \in DOMAIN call, HandlerOK(call[c]),
           BuildSite(c) \/ PutSite(c) \/ ReadSite(c) \/ UpdateSite(c)
    PROVE  Tends(c)
<1>0. RowsOK
    BY Zenon DEF ParentsInv
<1>1. ASSUME NEW pc, NEW saw, Proceed(c, pc, saw) \/ Build(c, pc, saw),
             Op(c).kind \in {"create_site", "update_site"}
      PROVE  Tends(c)
    BY <1>1, NothingRelied, ReadTends, Zenon DEF Op
<1>2. CASE BuildSite(c) \/ ReadSite(c)
    BY <1>1, <1>2, RefusalTends, Zenon DEF BuildSite, ReadSite, Refuse, At, Op
<1>3. CASE PutSite(c)
  <2> DEFINE k == Site(NewId(c))
             items == [x \in {k} |-> Entity("active", <<>>)]
  <2>1. ASSUME Absent(k) PROVE PutsOK(items)
    <3>1. PutOK(k, Entity("active", <<>>))
        BY <2>1, EntityOK, Zenon DEF Absent, Site, ParentsAlive
    <3> QED BY <3>1, Zenon DEF PutsOK
  <2>2. TransactCreate(c, Absent(k), items, ~ReceiptFree(Op(c).key))
      BY <1>3, Zenon DEF PutSite
  <2> HIDE DEF items, k
  <2> QED BY <2>1, <2>2, CreationTends, Zenon
<1>4. CASE UpdateSite(c)
  <2> DEFINE k == Site(Op(c).on)
             items == [x \in {k} |-> Changed(table[k], Op(c).to)]
  <2>1. ASSUME AtVersion(k, Op(c).version) PROVE PutsOK(items)
    <3>1. PutOK(k, Changed(table[k], Op(c).to))
        BY <1>0, <2>1, ChangedOK, Zenon DEF AtVersion, Site
    <3> QED BY <3>1, Zenon DEF PutsOK
  <2>2. TransactUpdate(c, AtVersion(k, Op(c).version), items, {})
      BY <1>4, Zenon DEF UpdateSite
  <2> HIDE DEF items, k
  <2> QED BY <2>1, <2>2, UpdateTends, Zenon
<1> QED BY <1>2, <1>3, <1>4, Zenon

(* Assets: the transaction repeats the check of the site. *)
LEMMA AssetStepsTend ==
    ASSUME ParentsInv, NEW c \in DOMAIN call, HandlerOK(call[c]),
           ReadAssetSite(c) \/ PutAsset(c) \/ ReadAsset(c) \/ UpdateAsset(c)
    PROVE  Tends(c)
<1>0. RowsOK
    BY Zenon DEF ParentsInv
<1>1. ASSUME NEW pc, NEW saw, Proceed(c, pc, saw) \/ Build(c, pc, saw),
             Op(c).kind \in {"create_asset", "update_asset"}
      PROVE  Tends(c)
    BY <1>1, NothingRelied, ReadTends, Zenon DEF Op
<1>2. CASE ReadAssetSite(c) \/ ReadAsset(c)
    BY <1>1, <1>2, RefusalTends, Zenon DEF ReadAssetSite, ReadAsset, Refuse, At, Op
<1>3. CASE PutAsset(c)
  <2> DEFINE conditions == Absent(Asset(NewId(c))) /\ HasStatus(Site(Op(c).on), {"active"})
             items == AssetRows(c)
  <2>1. ASSUME conditions PROVE PutsOK(items)
    <3>1. DOMAIN items = {Asset(NewId(c)), Profile(NewId(c))}
          /\ \A k \in DOMAIN items : items[k] = Entity("active", <<Op(c).on>>)
        BY Zenon DEF AssetRows
    <3>2. PutOK(Asset(NewId(c)), Entity("active", <<Op(c).on>>))
        BY <2>1, EntityOK, Zenon DEF Absent, Asset, ParentsAlive, Entity
    <3>3. PutOK(Profile(NewId(c)), Entity("active", <<Op(c).on>>))
        BY Zenon DEF Profile, PutOK, RowOK, ParentsAlive
    <3> QED BY <3>1, <3>2, <3>3, Zenon DEF PutsOK
  <2>2. TransactCreate(c, conditions, items, ~ReceiptFree(Op(c).key))
      BY <1>3, Zenon DEF PutAsset
  <2> HIDE DEF items, conditions
  <2> QED BY <2>1, <2>2, CreationTends, Zenon
<1>4. CASE UpdateAsset(c)
  <2> DEFINE op == Op(c)
             k == Asset(op.on)
             p == Profile(op.on)
             touched == {k} \cup (IF op.profile = 0 THEN {} ELSE {p})
             items == [x \in touched |-> Changed(table[x], IF x = k THEN op.to ELSE "-")]
             conditions == /\ AtVersion(k, op.version)
                           /\ op.profile = 0 \/ AtVersion(p, op.profile)
  <2>1. ASSUME conditions PROVE PutsOK(items)
    <3> SUFFICES ASSUME NEW x \in touched
                 PROVE  PutOK(x, Changed(table[x], IF x = k THEN op.to ELSE "-"))
        BY Zenon DEF PutsOK
    <3>1. x \in DOMAIN table /\ x[1] # "component"
        BY <2>1 DEF AtVersion, Asset, Profile
    <3> QED BY <1>0, <3>1, ChangedOK, Zenon
  <2>2. TransactUpdate(c, conditions, items, {})
      BY <1>4, Zenon DEF UpdateAsset
  <2> HIDE DEF items, conditions
  <2> QED BY <2>1, <2>2, UpdateTends, Zenon
<1> QED BY <1>2, <1>3, <1>4, Zenon

(* Devices. *)
LEMMA DeviceStepsTend ==
    ASSUME ParentsInv, NEW c \in DOMAIN call, HandlerOK(call[c]),
           BuildDevice(c) \/ PutDevice(c) \/ ReadDevice(c) \/ FenceDevice(c) \/ UpdateDevice(c)
    PROVE  Tends(c)
<1>0. RowsOK
    BY Zenon DEF ParentsInv
<1>1. ASSUME NEW pc, NEW saw, Proceed(c, pc, saw) \/ Build(c, pc, saw),
             Op(c).kind \in {"create_device", "update_device"}
      PROVE  Tends(c)
    BY <1>1, NothingRelied, ReadTends, ZenonT(30) DEF Op
<1>2. CASE BuildDevice(c) \/ ReadDevice(c) \/ FenceDevice(c)
    BY <1>1, <1>2, RefusalTends, Zenon DEF BuildDevice, ReadDevice, FenceDevice, Refuse, At, Op
<1>3. CASE PutDevice(c)
  <2> DEFINE keys == {Device(NewId(c)), DeviceLookup(NewId(c))}
             items == [k \in keys |-> Entity("active", <<>>)]
  <2>1. ASSUME \A k \in keys : Absent(k) PROVE PutsOK(items)
    <3>1. PutOK(Device(NewId(c)), Entity("active", <<>>))
        BY <2>1, EntityOK, Zenon DEF Absent, Device, ParentsAlive
    <3>2. PutOK(DeviceLookup(NewId(c)), Entity("active", <<>>))
        BY Zenon DEF DeviceLookup, PutOK, RowOK, ParentsAlive
    <3> QED BY <3>1, <3>2, Zenon DEF PutsOK
  <2>2. TransactCreate(c, \A k \in keys : Absent(k), items, TRUE)
      BY <1>3, Zenon DEF PutDevice
  <2> HIDE DEF items, keys
  <2> QED BY <2>1, <2>2, CreationTends, Zenon
<1>4. CASE UpdateDevice(c)
  <2> DEFINE keys == {Device(Op(c).on), DeviceLookup(Op(c).on)}
             items == [k \in keys |-> Changed(table[k], Op(c).to)]
  <2>1. ASSUME \A k \in keys : AtVersion(k, Op(c).version) PROVE PutsOK(items)
    <3> SUFFICES ASSUME NEW k \in keys PROVE PutOK(k, Changed(table[k], Op(c).to))
        BY Zenon DEF PutsOK
    <3>1. k \in DOMAIN table /\ k[1] # "component"
        BY <2>1 DEF AtVersion, Device, DeviceLookup
    <3> QED BY <1>0, <3>1, ChangedOK, Zenon
  <2>2. TransactUpdate(c, \A k \in keys : AtVersion(k, Op(c).version), items, {})
      BY <1>4, Zenon DEF UpdateDevice
  <2> HIDE DEF items, keys
  <2> QED BY <2>1, <2>2, UpdateTends, Zenon
<1> QED BY <1>2, <1>3, <1>4, Zenon

(* Where a parent fenced on its version is put beside a child, its status is *)
(* none of those the fence excludes.                                         *)
LEMMA FenceTells ==
    ASSUME NEW k, NEW v, NEW statuses, Fenced(k, v, statuses), AtVersion(k, v)
    PROVE  k \in DOMAIN table /\ table[k].status \notin statuses
BY Zenon DEF Fenced, AtVersion, Row

(* The version observed is a fence against the statuses not observed. *)
LEMMA FenceBegins ==
    ASSUME RowsOK, NEW k, k[1] \in {"device", "component"},
           NEW statuses, Row(k).status \notin statuses
    PROVE  Fenced(k, Row(k).version, statuses)
<1>1. Row(k).version \in Nat
    BY RowVersion
<1> QED BY <1>1 DEF Fenced

(* A component moves within its enumeration. *)
LEMMA ComponentTarget ==
    ASSUME RowsOK, NEW i, NEW row \in MaySee(Component(i)), row # NoRow, NEW to,
           Allows(row.status, to, ComponentTransitions)
    PROVE  to \in {"-"} \cup ComponentStatus
<1>1. row.status \in ComponentStatus
  <2>1. CASE row = Row(Component(i))
      BY <2>1, RowVersion DEF Row, Component
  <2>2. CASE row = Entity("active", Row(Component(i)).of)
      BY <2>2, Zenon DEF Entity, ComponentStatus
  <2> QED BY <2>1, <2>2, Zenon DEF MaySee
<1> QED BY <1>1 DEF Allows, MayBecome, ComponentTransitions, ComponentStatus, TerminalComponent

(* Components: the device is fenced on the version observed. *)
LEMMA ComponentCreationTends ==
    ASSUME ParentsInv, NEW c \in DOMAIN call, HandlerOK(call[c]),
           ReadComponentDevice(c) \/ FenceComponentDevice(c) \/ PutComponent(c)
    PROVE  Tends(c)
<1>0. RowsOK
    BY Zenon DEF ParentsInv
<1>1. CASE ReadComponentDevice(c)
  <2>1. Relies(call[c].op, "fence", 0)
      BY <1>1, Zenon DEF Relies, ReadComponentDevice, At
  <2> QED BY <1>1, <2>1, ReadTends, RefusalTends, Zenon DEF ReadComponentDevice, Refuse
<1>2. CASE FenceComponentDevice(c)
  <2> DEFINE k == Device(Op(c).on)
  <2>1. Relies(call[c].op, "reread", 0)
      BY NothingRelied, Zenon
  <2>2. ASSUME Row(k).status # "decommissioned" PROVE Relies(call[c].op, "commit", Row(k).version)
    <3>1. Fenced(k, Row(k).version, {"decommissioned"})
        BY <1>0, <2>2, FenceBegins DEF Device
    <3> QED BY <1>2, <3>1, Zenon DEF Relies, FenceComponentDevice, At, Op
  <2>3. \/ Proceed(c, "reread", 0)
        \/ Row(k).status # "decommissioned" /\ Proceed(c, "commit", Row(k).version)
      BY <1>2, Zenon DEF FenceComponentDevice
  <2> HIDE DEF k
  <2> QED BY <2>1, <2>2, <2>3, ReadTends, Zenon
<1>3. CASE PutComponent(c)
  <2> DEFINE keys == {Component(NewId(c)), ComponentMirror(NewId(c))}
             items == [k \in keys |-> Entity("active", <<Op(c).on>>)]
             conditions == /\ \A k \in keys : Absent(k)
                           /\ AtVersion(Device(Op(c).on), call[c].saw)
  <2>1. ASSUME conditions PROVE PutsOK(items)
    <3>1. Fenced(Device(Op(c).on), call[c].saw, {"decommissioned"})
        BY <1>3, Zenon DEF ParentsInv, Relies, PutComponent, At, Op
    <3>2. ~HasStatus(Device(Op(c).on), {"decommissioned"})
        BY <2>1, <3>1, FenceTells, Zenon DEF HasStatus
    <3>3. PutOK(Component(NewId(c)), Entity("active", <<Op(c).on>>))
        BY <2>1, <3>2, EntityOK, Zenon DEF Absent, Component, ParentsAlive, Entity
    <3>4. PutOK(ComponentMirror(NewId(c)), Entity("active", <<Op(c).on>>))
        BY Zenon DEF ComponentMirror, PutOK, RowOK, ParentsAlive
    <3> QED BY <3>3, <3>4, Zenon DEF PutsOK
  <2>2. TransactCreate(c, conditions, items, TRUE)
      BY <1>3, Zenon DEF PutComponent
  <2> HIDE DEF items, conditions
  <2> QED BY <2>1, <2>2, CreationTends, Zenon
<1> QED BY <1>1, <1>2, <1>3, Zenon

LEMMA ComponentUpdateTends ==
    ASSUME ParentsInv, NEW c \in DOMAIN call, HandlerOK(call[c]),
           ReadComponent(c) \/ FenceComponent(c) \/ UpdateComponent(c)
    PROVE  Tends(c)
<1>0. RowsOK
    BY Zenon DEF ParentsInv
<1>1. CASE ReadComponent(c)
  <2>1. PICK row \in MaySee(Component(Op(c).on)) :
           IF row # NoRow /\ Allows(row.status, Op(c).to, ComponentTransitions)
           THEN Proceed(c, "fence", 0) ELSE Refuse(c)
      BY <1>1, Zenon DEF ReadComponent
  <2>2. CASE row # NoRow /\ Allows(row.status, Op(c).to, ComponentTransitions)
    <3>1. Op(c).to \in {"-"} \cup ComponentStatus
        BY <1>0, <2>2, ComponentTarget, Zenon
    <3>2. Relies(call[c].op, "fence", 0)
        BY <1>1, <3>1, Zenon DEF Relies, ReadComponent, At, Op
    <3>3. Proceed(c, "fence", 0)
        BY <2>1, <2>2, Zenon
    <3> QED BY <3>2, <3>3, ReadTends, Zenon
  <2>3. CASE Refuse(c)
      BY <2>3, RefusalTends, Zenon DEF Refuse
  <2> QED BY <2>1, <2>2, <2>3, Zenon
<1>2. CASE FenceComponent(c)
  <2>1. Relies(call[c].op, "commit", 0)
      BY <1>2, Zenon DEF ParentsInv, Relies, FenceComponent, At
  <2> QED BY <1>2, <2>1, ReadTends, RefusalTends, Zenon DEF FenceComponent, Refuse
<1>3. CASE UpdateComponent(c)
  <2> DEFINE keys == {Component(Op(c).on), ComponentMirror(Op(c).on)}
             items == [k \in keys |-> Changed(table[k], Op(c).to)]
  <2>1. ASSUME \A k \in keys : AtVersion(k, Op(c).version) PROVE PutsOK(items)
    <3> SUFFICES ASSUME NEW k \in keys PROVE PutOK(k, Changed(table[k], Op(c).to))
        BY Zenon DEF PutsOK
    <3>1. Op(c).to \in {"-"} \cup ComponentStatus
        BY <1>3, Zenon DEF ParentsInv, Relies, UpdateComponent, At, Op
    <3>2. k \in DOMAIN table
        BY <2>1, Zenon DEF AtVersion
    <3> QED BY <1>0, <3>1, <3>2, ChangedOK, Zenon
  <2>2. TransactUpdate(c, \A k \in keys : AtVersion(k, Op(c).version), items, {})
      BY <1>3, Zenon DEF UpdateComponent
  <2> HIDE DEF items, keys
  <2> QED BY <2>1, <2>2, UpdateTends, Zenon
<1> QED BY <1>1, <1>2, <1>3, Zenon

(* Capabilities: the component is fenced likewise. *)
LEMMA CapabilityStepsTend ==
    ASSUME ParentsInv, NEW c \in DOMAIN call, HandlerOK(call[c]),
           ReadCapabilityComponent(c) \/ FenceCapabilityComponent(c) \/ PutCapability(c)
    PROVE  Tends(c)
<1>0. RowsOK
    BY Zenon DEF ParentsInv
<1>1. CASE ReadCapabilityComponent(c)
  <2>1. Relies(call[c].op, "fence", 0)
      BY <1>1, Zenon DEF Relies, ReadCapabilityComponent, At
  <2> QED BY <1>1, <2>1, ReadTends, RefusalTends, Zenon DEF ReadCapabilityComponent, Refuse
<1>2. CASE FenceCapabilityComponent(c)
  <2> DEFINE k == Component(Op(c).on)
  <2>1. Relies(call[c].op, "reread", 0)
      BY NothingRelied, Zenon
  <2>2. ASSUME Row(k).status \notin TerminalComponent
        PROVE  Relies(call[c].op, "commit", Row(k).version)
    <3>1. Fenced(k, Row(k).version, TerminalComponent)
        BY <1>0, <2>2, FenceBegins DEF Component
    <3> QED BY <1>2, <3>1, Zenon DEF Relies, FenceCapabilityComponent, At, Op
  <2>3. \/ Proceed(c, "reread", 0)
        \/ Row(k).status \notin TerminalComponent /\ Proceed(c, "commit", Row(k).version)
      BY <1>2, Zenon DEF FenceCapabilityComponent
  <2> HIDE DEF k
  <2> QED BY <2>1, <2>2, <2>3, ReadTends, Zenon
<1>3. CASE PutCapability(c)
  <2> DEFINE k == Capability(NewId(c))
             items == [x \in {k} |-> Entity("active", <<Op(c).on>>)]
             conditions == Absent(k) /\ AtVersion(Component(Op(c).on), call[c].saw)
  <2>1. ASSUME conditions PROVE PutsOK(items)
    <3>1. Fenced(Component(Op(c).on), call[c].saw, TerminalComponent)
        BY <1>3, Zenon DEF ParentsInv, Relies, PutCapability, At, Op
    <3>2. /\ Component(Op(c).on) \in DOMAIN table
          /\ table[Component(Op(c).on)].status \notin TerminalComponent
        BY <2>1, <3>1, FenceTells, Zenon
    <3>3. table[Component(Op(c).on)].status \in ComponentStatus
        BY <1>0, <3>2, Zenon DEF RowsOK, RowOK, Component
    <3>4. HasStatus(Component(Op(c).on), {"active"})
        BY <3>2, <3>3, Zenon DEF HasStatus, ComponentStatus
    <3>5. PutOK(k, Entity("active", <<Op(c).on>>))
        BY <2>1, <3>4, EntityOK, Zenon DEF Absent, Capability, ParentsAlive, Entity
    <3> QED BY <3>5, Zenon DEF PutsOK
  <2>2. TransactCreate(c, conditions, items, TRUE)
      BY <1>3, Zenon DEF PutCapability
  <2> HIDE DEF items, conditions, k
  <2> QED BY <2>1, <2>2, CreationTends, Zenon
<1> QED BY <1>1, <1>2, <1>3, Zenon

(* Accounts have no parent. *)
LEMMA AccountStepsTend ==
    ASSUME ParentsInv, NEW c \in DOMAIN call, HandlerOK(call[c]),
           BuildAccount(c) \/ PutAccount(c) \/ ReadAccount(c) \/ TransitionAccount(c)
    PROVE  Tends(c)
<1>0. RowsOK
    BY Zenon DEF ParentsInv
<1>1. ASSUME NEW pc, NEW saw, Proceed(c, pc, saw) \/ Build(c, pc, saw),
             Op(c).kind \in {"create_account", "transition_account"}
      PROVE  Tends(c)
    BY <1>1, NothingRelied, ReadTends, Zenon DEF Op
<1>2. CASE BuildAccount(c) \/ ReadAccount(c)
    BY <1>1, <1>2, RefusalTends, Zenon
       DEF BuildAccount, ReadAccount, ReadTransition, Refuse, At, Op
<1>3. CASE PutAccount(c)
  <2> DEFINE k == Account(NewId(c))
             items == [x \in {k} |-> Entity("pending", <<>>)]
  <2>1. ASSUME Absent(k) PROVE PutsOK(items)
    <3>1. PutOK(k, Entity("pending", <<>>))
        BY <2>1, EntityOK, Zenon DEF Absent, Account, ParentsAlive
    <3> QED BY <3>1, Zenon DEF PutsOK
  <2>2. TransactCreate(c, Absent(k), items, TRUE)
      BY <1>3, Zenon DEF PutAccount
  <2> HIDE DEF items, k
  <2> QED BY <2>1, <2>2, CreationTends, Zenon
<1>4. CASE TransitionAccount(c)
  <2> DEFINE k == Account(Op(c).on)
             items == [x \in {k} |-> Changed(table[k], Op(c).to)]
  <2>1. ASSUME StatusFence(k, c) PROVE PutsOK(items)
    <3>1. PutOK(k, Changed(table[k], Op(c).to))
        BY <1>0, <2>1, ChangedOK, Zenon DEF StatusFence, AtVersion, Account
    <3> QED BY <3>1, Zenon DEF PutsOK
  <2>2. TransactUpdate(c, StatusFence(k, c), items, {})
      BY <1>4, Zenon DEF TransitionAccount, AuditedUpdate
  <2> HIDE DEF items, k
  <2> QED BY <2>1, <2>2, UpdateTends, Zenon
<1> QED BY <1>2, <1>3, <1>4, Zenon

(* Integrations: the transaction repeats the checks of device and account. *)
LEMMA IntegrationStepsTend ==
    ASSUME ParentsInv, NEW c \in DOMAIN call, HandlerOK(call[c]),
           \/ ReadIntegrationParents(c) \/ PutIntegration(c)
           \/ ReadIntegration(c) \/ TransitionIntegration(c)
    PROVE  Tends(c)
<1>0. RowsOK
    BY Zenon DEF ParentsInv
<1>1. ASSUME NEW pc, NEW saw, Proceed(c, pc, saw) \/ Build(c, pc, saw),
             Op(c).kind \in {"create_integration", "transition_integration"}
      PROVE  Tends(c)
    BY <1>1, NothingRelied, ReadTends, Zenon DEF Op
<1>2. CASE ReadIntegrationParents(c) \/ ReadIntegration(c)
    BY <1>1, <1>2, RefusalTends, Zenon
       DEF ReadIntegrationParents, ReadIntegration, ReadTransition, Refuse, At, Op
<1>3. CASE PutIntegration(c)
  <2> DEFINE op == Op(c)
             k == Integration(NewId(c))
             l == Identity(op.to, op.name)
             items == [x \in {k, l} |-> Entity("provisioning",
                          IF x = k THEN <<op.on, op.to, l>> ELSE <<op.on, NewId(c)>>)]
             conditions == /\ Absent(k)
                           /\ Absent(l)
                           /\ HasStatus(Account(op.to), Provisionable)
                           /\ HasStatus(Device(op.on), {"provisioning", "active", "suspended"})
  <2>1. ASSUME conditions PROVE PutsOK(items)
    <3>1. k[1] = "integration" /\ l[1] = "identity" /\ k # l
        BY Zenon DEF Integration, Identity
    <3>2. items[k] = Entity("provisioning", <<op.on, op.to, l>>)
          /\ items[l] = Entity("provisioning", <<op.on, NewId(c)>>)
        BY <3>1, Zenon
    <3>3. ~HasStatus(Device(op.on), {"decommissioned"})
        BY <2>1, Zenon DEF HasStatus
    <3>4. PICK of : of = <<op.on, op.to, l>>
        BY Zenon
    <3>5. of[1] = op.on /\ of[2] = op.to /\ of[3] = l
        BY <3>4, Zenon
    <3>6. ParentsAlive(k, Entity("provisioning", of))
        BY <2>1, <3>1, <3>3, <3>5, Zenon DEF ParentsAlive, Entity
    <3>7. PutOK(k, Entity("provisioning", of))
        BY <2>1, <3>1, <3>5, <3>6, EntityOK, Zenon DEF Absent
    <3>8. PutOK(l, Entity("provisioning", <<op.on, NewId(c)>>))
        BY <3>1, Zenon DEF PutOK, RowOK, ParentsAlive
    <3> QED BY <3>2, <3>4, <3>7, <3>8, Zenon DEF PutsOK
  <2>2. TransactCreate(c, conditions, items, TRUE)
      BY <1>3, Zenon DEF PutIntegration
  <2> HIDE DEF items, conditions
  <2> QED BY <2>1, <2>2, CreationTends, Zenon
<1>4. CASE TransitionIntegration(c)
  <2> DEFINE k == Integration(Op(c).on)
             l == table[k].of[3]
             items == [x \in {k, l} |-> Changed(table[x], Op(c).to)]
             conditions == StatusFence(k, c) /\ AtVersion(l, Op(c).version)
  <2>1. ASSUME conditions PROVE PutsOK(items)
    <3> SUFFICES ASSUME NEW x \in {k, l} PROVE PutOK(x, Changed(table[x], Op(c).to))
        BY Zenon DEF PutsOK
    <3>1. k \in DOMAIN table /\ l \in DOMAIN table
        BY <2>1, Zenon DEF StatusFence, AtVersion
    <3>2. k[1] = "integration"
        BY Zenon DEF Integration
    <3>3. l[1] = "identity"
        BY <1>0, <3>1, <3>2, Zenon DEF RowsOK, RowOK
    <3> QED BY <1>0, <3>1, <3>2, <3>3, ChangedOK, ZenonT(30)
  <2>2. TransactUpdate(c, conditions, items, {})
      BY <1>4, Zenon DEF TransitionIntegration, AuditedUpdate
  <2> HIDE DEF items, conditions
  <2> QED BY <2>1, <2>2, UpdateTends, Zenon
<1> QED BY <1>2, <1>3, <1>4, Zenon

(* Credentials: so does the transaction that issues one with the account.    *)
LEMMA CredentialStepsTend ==
    ASSUME ParentsInv, NEW c \in DOMAIN call, HandlerOK(call[c]),
           \/ ReadIssuer(c) \/ ListCredentials(c) \/ ChooseSlot(c) \/ IssueCredential(c)
           \/ ReadCredential(c) \/ RevokeCredential(c)
           \/ Authenticate(c) \/ AuthenticateAccount(c)
    PROVE  Tends(c)
<1>0. RowsOK
    BY Zenon DEF ParentsInv
<1>1. ASSUME NEW pc, NEW saw, Proceed(c, pc, saw), Op(c).kind \in {"issue", "revoke", "authenticate"}
      PROVE  Tends(c)
    BY <1>1, NothingRelied, ReadTends, Zenon DEF Op
<1>2. CASE \/ ReadIssuer(c) \/ ListCredentials(c) \/ ChooseSlot(c)
           \/ ReadCredential(c) \/ Authenticate(c) \/ AuthenticateAccount(c)
    BY <1>1, <1>2, RefusalTends, Zenon
       DEF ReadIssuer, ListCredentials, ChooseSlot, ReadCredential, Authenticate,
           AuthenticateAccount, Refuse, At, Op
<1>3. CASE IssueCredential(c)
  <2> DEFINE items == IssueRows(c)
             conditions == /\ HasStatus(Account(Op(c).on), Provisionable)
                           /\ \A k \in DOMAIN IssueRows(c) : Absent(k)
  <2>1. ASSUME conditions PROVE PutsOK(items)
    <3> DEFINE n == call[c].saw
               s == Slot(Op(c).on, n)
    <3>1. DOMAIN items = {Credential(NewId(c)), Listing(NewId(c)), s}
        BY Zenon DEF IssueRows
    <3>2. \A k \in DOMAIN items : items[k] = Entity("active",
              IF k = s THEN <<NewId(c)>> ELSE <<Op(c).on, n>>)
        BY Zenon DEF IssueRows
    <3>3. Credential(NewId(c))[1] = "credential" /\ Listing(NewId(c))[1] = "listing"
          /\ s[1] = "slot"
        BY Zenon DEF Credential, Listing, Slot
    <3> SUFFICES ASSUME NEW k \in DOMAIN items PROVE PutOK(k, items[k])
        BY Zenon DEF PutsOK
    <3>4. CASE k[1] = "credential"
      <4>1. items[k] = Entity("active", <<Op(c).on, n>>)
          BY <3>2, <3>3, <3>4, Zenon
      <4>2. items[k].of[1] = Op(c).on
          BY <4>1 DEF Entity
      <4> QED BY <2>1, <3>4, <4>2, Zenon DEF PutOK, RowOK, ParentsAlive
    <3>5. CASE k[1] \in {"listing", "slot"}
        BY <3>5, Zenon DEF PutOK, RowOK, ParentsAlive
    <3> QED BY <3>1, <3>3, <3>4, <3>5, Zenon
  <2>2. TransactUpdate(c, conditions, items, {})
      BY <1>3, Zenon DEF IssueCredential, AuditedUpdate
  <2> HIDE DEF items, conditions
  <2> QED BY <2>1, <2>2, UpdateTends, Zenon
<1>4. CASE RevokeCredential(c)
  <2> DEFINE i == Op(c).on
             keys == {Credential(i), Listing(i)}
             items == [k \in keys |-> Changed(table[k], "revoked")]
             gone == {Slot(table[Credential(i)].of[1], call[c].saw)}
  <2>1. ASSUME RevokeConditions(c) PROVE PutsOK(items)
    <3>1. PutOK(Credential(i), Changed(table[Credential(i)], "revoked"))
        BY <1>0, <2>1, ChangedOK, Zenon DEF RevokeConditions, HasStatus, Credential
    <3>2. PutOK(Listing(i), Changed(table[Listing(i)], "revoked"))
        BY Zenon DEF Listing, PutOK, RowOK, ParentsAlive
    <3> QED BY <3>1, <3>2, Zenon DEF PutsOK
  <2>2. TransactUpdate(c, RevokeConditions(c), items, gone)
      BY <1>4, Zenon DEF RevokeCredential, AuditedUpdate
  <2>3. \A k \in gone : k[1] = "slot"
      BY DEF Slot
  <2> HIDE DEF items, gone
  <2> QED BY <2>1, <2>2, <2>3, UpdateTends, Zenon
<1> QED BY <1>2, <1>3, <1>4, Zenon

(* Starts and ends put no row of these; a start repeats all its checks. *)
LEMMA DeploymentStepsTend ==
    ASSUME ParentsInv, NEW c \in DOMAIN call, HandlerOK(call[c]), DeploymentStep(c)
    PROVE  Tends(c)
<1>0. PICK items : items = [k \in {} |-> NoRow]
    BY Zenon
<1>1. PutsOK(items)
    BY <1>0, Zenon DEF PutsOK
<1>2. ASSUME NEW pc, NEW saw, Proceed(c, pc, saw) \/ Build(c, pc, saw), Op(c).kind \in {"start", "end"}
      PROVE  Tends(c)
    BY <1>2, NothingRelied, ReadTends, Zenon DEF Op
<1>3. CASE ReadStartParents(c) \/ ReadMarker(c) \/ ReadPrevious(c)
    BY <1>2, <1>3, RefusalTends, Zenon
       DEF ReadStartParents, ReadMarker, ReadPrevious, Refuse, At, Op
<1>4. CASE ReadDeployment(c) \/ FenceDeployment(c) \/ ReadEndMarker(c)
    BY <1>2, <1>4, RefusalTends, Zenon
       DEF ReadDeployment, FenceDeployment, ReadEndMarker, Refuse, At, Op
<1>5. CASE CommitStart(c)
  <2>1. TransactCreate(c, StartConditions(c), items, TRUE)
      BY <1>0, <1>5, Zenon DEF CommitStart
  <2> QED BY <1>1, <2>1, CreationTends, Zenon
<1>6. CASE CommitEnd(c)
  <2>1. PICK gone : gone = {}
      BY Zenon
  <2>2. TransactUpdate(c, EndConditions(c), items, gone)
      BY <1>0, <1>6, <2>1, Zenon DEF CommitEnd
  <2>3. \A k \in gone : k[1] = "slot"
      BY <2>1, Zenon
  <2> QED BY <1>1, <2>2, <2>3, UpdateTends, ZenonT(30)
<1> QED BY <1>3, <1>4, <1>5, <1>6, Zenon DEF DeploymentStep

DeploymentParents(i) ==
    LET d == deployment'[i]
    IN  /\ HasStatus(Component(d.component), {"active"})
        /\ HasStatus(Asset(d.asset), {"active"})
        /\ HasStatus(Site(table[Asset(d.asset)].of[1]), {"active"})

LEMMA DeploymentsBorn ==
    ASSUME NEW c, DeploymentStep(c), NEW i \in DOMAIN deployment' \ DOMAIN deployment
    PROVE  DeploymentParents(i)
<1>1. ASSUME UNCHANGED deploymentVars PROVE FALSE
    BY <1>1, Zenon DEF deploymentVars
<1>2. ASSUME NEW j, NEW at, PutEnd(j, at) PROVE FALSE
    BY <1>2, Zenon DEF PutEnd
<1>3. CommitStart(c)
  <2>1. ASSUME CommitEnd(c) PROVE FALSE
      BY <1>1, <1>2, <2>1, Zenon DEF CommitEnd
  <2>2. ASSUME ReadStartParents(c) \/ ReadMarker(c) \/ ReadPrevious(c) PROVE FALSE
      BY <1>1, <2>2, Zenon DEF ReadStartParents, ReadMarker, ReadPrevious
  <2>3. ASSUME ReadDeployment(c) \/ FenceDeployment(c) \/ ReadEndMarker(c) PROVE FALSE
      BY <1>1, <2>3, Zenon DEF ReadDeployment, FenceDeployment, ReadEndMarker
  <2> QED BY <2>1, <2>2, <2>3, Zenon DEF DeploymentStep
<1>4. /\ StartConditions(c)
      /\ PutOpen(NewId(c), Deployment(Op(c).on, Op(c).to, Op(c).at), call[c].saw.end)
    BY <1>1, <1>3, Zenon DEF CommitStart
<1>5. deployment'[i] = Deployment(Op(c).on, Op(c).to, Op(c).at)
    BY <1>4, Zenon DEF PutOpen
<1>6. deployment'[i].component = Op(c).on /\ deployment'[i].asset = Op(c).to
    BY <1>5 DEF Deployment
<1> QED BY <1>4, <1>6, Zenon DEF DeploymentParents, StartConditions

-----------------------------------------------------------------------------
(* Every step of a handler, whatever it handles. *)
LEMMA HandlersTend ==
    ASSUME ParentsInv, NEW c \in DOMAIN call, HandlerOK(call[c]),
           \/ LookUpReceipt(c) \/ RereadReceipt(c) \/ Resend(c)
           \/ RegistryStep(c) \/ DeploymentStep(c) \/ IntegrationStep(c)
    PROVE  Tends(c)
<1>1. CASE LookUpReceipt(c) \/ RereadReceipt(c)
  <2>1. Relies(call[c].op, "read", 0)
      BY NothingRelied, Zenon
  <2>2. \/ Proceed(c, "read", 0)
        \/ \E out : Finish(c, out) /\ UNCHANGED table
      BY <1>1, Zenon DEF LookUpReceipt, RereadReceipt, Refuse, Replay
  <2> QED BY <2>1, <2>2, ReadTends, RefusalTends, Zenon
<1>2. CASE RegistryStep(c)
    BY <1>2, SiteStepsTend, AssetStepsTend, DeviceStepsTend, ComponentCreationTends,
       ComponentUpdateTends, CapabilityStepsTend, Zenon DEF RegistryStep
<1>3. CASE IntegrationStep(c)
    BY <1>3, AccountStepsTend, IntegrationStepsTend, CredentialStepsTend, Zenon DEF IntegrationStep
<1> QED BY <1>1, <1>2, <1>3, DeploymentStepsTend, ResendTends, Zenon

LEMMA InitEstablishesParents == RegistryInit => ParentsInv
<1> SUFFICES ASSUME RegistryInit PROVE ParentsInv
    BY Zenon
<1>1. RowsOK
    BY RowsAssumption, Zenon DEF RegistryInit, StoreInit, RowsOK, RowOK, ComponentStatus
<1>2. \A c \in DOMAIN call : call[c].pc = "begin"
    BY DEF RegistryInit, StoreInit
<1> QED BY <1>1, <1>2, NothingRelied, Zenon DEF ParentsInv

LEMMA StepKeepsParents ==
    DeploymentInv /\ ParentsInv /\ [RegistryNext]_registryVars => ParentsInv'
<1> SUFFICES ASSUME DeploymentInv, ParentsInv, [RegistryNext]_registryVars PROVE ParentsInv'
    BY Zenon
<1>1. ASSUME UNCHANGED <<table, call>> PROVE ParentsInv'
    BY <1>1, Zenon DEF ParentsInv, RowsOK, RowOK, Relies, Fenced, Row
<1>2. ASSUME NEW c \in DOMAIN call,
             \/ LookUpReceipt(c) \/ RereadReceipt(c) \/ Resend(c)
             \/ RegistryStep(c) \/ DeploymentStep(c) \/ IntegrationStep(c)
      PROVE  ParentsInv'
  <2>1. HandlerOK(call[c])
      BY Zenon DEF DeploymentInv, CallsOK
  <2>2. Tends(c)
      BY <1>2, <2>1, HandlersTend, Zenon
  <2> QED BY <2>2, TendingKeeps, Zenon
<1>3. CASE ClockTick
    BY <1>1, <1>3, Zenon DEF ClockTick
<1>4. CASE UNCHANGED registryVars
    BY <1>1, <1>4, Zenon DEF registryVars, storeVars
<1> QED BY <1>2, <1>3, <1>4, Zenon DEF RegistryNext

LEMMA StepBearsUnderLiveParents ==
    DeploymentInv /\ ParentsInv /\ [RegistryNext]_registryVars => [BornUnderLiveParent]_registryVars
<1> SUFFICES ASSUME DeploymentInv, ParentsInv, RegistryNext PROVE BornUnderLiveParent
    BY Zenon
<1>1. Writes
  <2>1. ASSUME NEW c \in DOMAIN call,
               \/ LookUpReceipt(c) \/ RereadReceipt(c) \/ Resend(c)
               \/ RegistryStep(c) \/ DeploymentStep(c) \/ IntegrationStep(c)
        PROVE  Writes
    <3>1. HandlerOK(call[c])
        BY Zenon DEF DeploymentInv, CallsOK
    <3> QED BY <2>1, <3>1, HandlersTend, Zenon DEF Tends
  <2>2. CASE ClockTick
      BY <2>2, Zenon DEF ClockTick, Writes
  <2> QED BY <2>1, <2>2, Zenon DEF RegistryNext
<1>2. ASSUME NEW i \in DOMAIN deployment' \ DOMAIN deployment PROVE DeploymentParents(i)
  <2>1. ASSUME UNCHANGED deploymentVars PROVE FALSE
      BY <1>2, <2>1, Zenon DEF deploymentVars
  <2>2. \E c : DeploymentStep(c)
      BY <2>1, Zenon DEF RegistryNext
  <2> QED BY <1>2, <2>2, DeploymentsBorn, Zenon
<1>3. \A k \in DOMAIN table' \ DOMAIN table : ParentsAlive(k, table'[k])
    BY <1>1, WritesBear, Zenon
<1> QED BY <1>2, <1>3, Zenon DEF BornUnderLiveParent, DeploymentParents, ParentsAlive

(* For every set of calls, however they interleave: whenever an asset, a     *)
(* component, a capability, an integration, a credential or a deployment is  *)
(* written, its parents are not retired at that moment, although the         *)
(* services looked at them several reads earlier, and not always             *)
(* consistently.                                                             *)
THEOREM ParentsAlwaysAliveAtBirth == RegistrySpec => ParentsAliveAtBirth
<1>1. RegistryInit => DeploymentInv /\ ParentsInv
    BY InitEstablishesDeployments, InitEstablishesParents, Zenon
<1>2. DeploymentInv /\ ParentsInv /\ [RegistryNext]_registryVars => (DeploymentInv /\ ParentsInv)'
    BY StepKeepsDeployments, StepKeepsParents, Zenon
<1> QED BY <1>1, <1>2, StepBearsUnderLiveParents, PTL DEF RegistrySpec, ParentsAliveAtBirth

-----------------------------------------------------------------------------
(***************************************************************************)
(* Copies: every second copy follows its original.                         *)
(*                                                                         *)
(* The rows fall into families that only their own transactions touch, so  *)
(* each family is an invariant of its own. Credentials need the converse   *)
(* direction too: a slot is held by a live credential that names it, hence *)
(* the slot a revocation frees is the one its credential holds.            *)
(***************************************************************************)

RowFields == {"status", "version", "of"}

DevicesAgree ==
    \A i : Device(i) \in DOMAIN table =>
        DeviceLookup(i) \in DOMAIN table /\ table[DeviceLookup(i)] = table[Device(i)]

ComponentsAgree ==
    \A i : Component(i) \in DOMAIN table =>
        ComponentMirror(i) \in DOMAIN table /\ table[ComponentMirror(i)] = table[Component(i)]

CredentialAgrees(i) ==
    LET row == table[Credential(i)]
        s   == Slot(row.of[1], row.of[2])
    IN  /\ DOMAIN row = RowFields
        /\ Listing(i) \in DOMAIN table /\ table[Listing(i)] = row
        /\ row.status = "active" => s \in DOMAIN table /\ table[s].of = <<i>>

SlotHeld(a, n, i) ==
    /\ table[Slot(a, n)].of = <<i>>
    /\ Credential(i) \in DOMAIN table
    /\ table[Credential(i)].status = "active"
    /\ table[Credential(i)].of = <<a, n>>

CredentialsAgree ==
    /\ \A i : Credential(i) \in DOMAIN table => CredentialAgrees(i)
    /\ \A a, n : Slot(a, n) \in DOMAIN table => \E i : SlotHeld(a, n, i)

IntegrationAgrees(i) ==
    LET row == table[Integration(i)]
        l   == row.of[3]
    IN  /\ DOMAIN row = RowFields
        /\ l[1] = "identity" /\ l \in DOMAIN table
        /\ DOMAIN table[l] = RowFields
        /\ table[l].of[1] = row.of[1] /\ table[l].of[2] = i
        /\ table[l].status = row.status /\ table[l].version = row.version

IntegrationsAgree == \A i : Integration(i) \in DOMAIN table => IntegrationAgrees(i)

(* The keys are built as the model builds them. *)
WellKeyed(k) ==
    /\ k[1] \in {"device", "component", "credential", "integration"} => k = <<k[1], k[2]>>
    /\ k[1] = "slot" => k = <<"slot", k[2], k[3]>>

KeysOK == \A k \in DOMAIN table : WellKeyed(k)

CopiesInv == /\ KeysOK
             /\ DevicesAgree
             /\ ComponentsAgree
             /\ CredentialsAgree
             /\ IntegrationsAgree

-----------------------------------------------------------------------------
(* The property, from the invariant. *)
LEMMA CopiesInvAgree == CopiesInv => CopiesAgree
<1> SUFFICES ASSUME CopiesInv, NEW k \in DOMAIN table
             PROVE  /\ k[1] = "device" => table[k] = Row(DeviceLookup(k[2]))
                    /\ k[1] = "component" => table[k] = Row(ComponentMirror(k[2]))
                    /\ k[1] = "credential" =>
                          /\ table[k] = Row(Listing(k[2]))
                          /\ table[k].status = "active" =>
                                Row(Slot(table[k].of[1], table[k].of[2])).of = <<k[2]>>
                    /\ k[1] = "slot" =>
                          LET i == Credential(table[k].of[1])
                          IN  table[i].status = "active" /\ table[i].of = <<k[2], k[3]>>
                    /\ k[1] = "integration" =>
                          LET l == table[k].of[3]
                          IN  /\ Resolve(l) = k[2]
                              /\ table[l].status = table[k].status
                              /\ table[l].version = table[k].version
    BY Zenon DEF CopiesAgree
<1>0. WellKeyed(k)
    BY Zenon DEF CopiesInv, KeysOK
<1>1. CASE k[1] = "device"
  <2>1. k = Device(k[2])
      BY <1>0, <1>1, Zenon DEF WellKeyed, Device
  <2>2. DeviceLookup(k[2]) \in DOMAIN table /\ table[DeviceLookup(k[2])] = table[k]
      BY <2>1, Zenon DEF CopiesInv, DevicesAgree
  <2> QED BY <1>1, <2>2, Zenon DEF Row
<1>2. CASE k[1] = "component"
  <2>1. k = Component(k[2])
      BY <1>0, <1>2, Zenon DEF WellKeyed, Component
  <2>2. ComponentMirror(k[2]) \in DOMAIN table /\ table[ComponentMirror(k[2])] = table[k]
      BY <2>1, Zenon DEF CopiesInv, ComponentsAgree
  <2> QED BY <1>2, <2>2, Zenon DEF Row
<1>3. CASE k[1] = "credential"
  <2>1. k = Credential(k[2])
      BY <1>0, <1>3, Zenon DEF WellKeyed, Credential
  <2>2. CredentialAgrees(k[2])
      BY <2>1, Zenon DEF CopiesInv, CredentialsAgree
  <2> QED BY <1>3, <2>1, <2>2, Zenon DEF CredentialAgrees, Row
<1>4. CASE k[1] = "slot"
  <2>1. k = Slot(k[2], k[3])
      BY <1>0, <1>4, Zenon DEF WellKeyed, Slot
  <2>2. PICK i : SlotHeld(k[2], k[3], i)
      BY <2>1, Zenon DEF CopiesInv, CredentialsAgree
  <2>3. table[k].of[1] = i
      BY <2>1, <2>2 DEF SlotHeld
  <2> QED BY <1>4, <2>2, <2>3, Zenon DEF SlotHeld
<1>5. CASE k[1] = "integration"
  <2>1. k = Integration(k[2])
      BY <1>0, <1>5, Zenon DEF WellKeyed, Integration
  <2>2. IntegrationAgrees(k[2])
      BY <2>1, Zenon DEF CopiesInv, IntegrationsAgree
  <2> QED BY <1>5, <2>1, <2>2, Zenon DEF IntegrationAgrees, Resolve
<1> QED BY <1>1, <1>2, <1>3, <1>4, <1>5, Zenon

-----------------------------------------------------------------------------
(* A transaction that touches rows of some kinds only. *)
Touching(items, gone, kinds) ==
    /\ table' = Merge(items, gone)
    /\ \A k \in DOMAIN items : k[1] \in kinds /\ (k \in DOMAIN table \/ WellKeyed(k))
    /\ \A k \in gone : k[1] \in kinds

Touches(kinds) ==
    \/ UNCHANGED table
    \/ \E items, gone : Touching(items, gone, kinds)

Same(k) ==
    /\ k \in DOMAIN table' <=> k \in DOMAIN table
    /\ k \in DOMAIN table => table'[k] = table[k]

LEMMA Untouched ==
    ASSUME NEW kinds, Touches(kinds), NEW k, k[1] \notin kinds
    PROVE  Same(k)
BY Zenon DEF Touches, Touching, Merge, Same

(* The first element of a key is its kind. *)
LEMMA KindOf ==
    /\ \A i : /\ Device(i)[1] = "device" /\ DeviceLookup(i)[1] = "device_lookup"
            /\ Component(i)[1] = "component" /\ ComponentMirror(i)[1] = "component_mirror"
            /\ Credential(i)[1] = "credential" /\ Listing(i)[1] = "listing"
            /\ Integration(i)[1] = "integration"
    /\ \A a, n : Slot(a, n)[1] = "slot" /\ Identity(a, n)[1] = "identity"
BY Zenon DEF Device, DeviceLookup, Component, ComponentMirror, Credential, Listing, Integration, Slot, Identity

LEMMA KeysKept ==
    ASSUME KeysOK, NEW kinds, Touches(kinds)
    PROVE  KeysOK'
<1> SUFFICES ASSUME NEW k \in DOMAIN table' PROVE WellKeyed(k)
    BY Zenon DEF KeysOK, WellKeyed
<1>1. k \in DOMAIN table \/ WellKeyed(k)
    BY Zenon DEF Touches, Touching, Merge
<1> QED BY <1>1, Zenon DEF KeysOK

(* A family that a transaction does not touch agrees on. *)
LEMMA DevicesKept ==
    ASSUME DevicesAgree, NEW kinds, Touches(kinds), kinds \cap {"device", "device_lookup"} = {}
    PROVE  DevicesAgree'
<1> SUFFICES ASSUME NEW i, Device(i) \in DOMAIN table'
             PROVE  DeviceLookup(i) \in DOMAIN table' /\ table'[DeviceLookup(i)] = table'[Device(i)]
    BY Zenon DEF DevicesAgree
<1>1. Same(Device(i)) /\ Same(DeviceLookup(i))
    BY Untouched, KindOf, Zenon
<1> QED BY <1>1, Zenon DEF DevicesAgree, Same

LEMMA ComponentsKept ==
    ASSUME ComponentsAgree, NEW kinds, Touches(kinds),
           kinds \cap {"component", "component_mirror"} = {}
    PROVE  ComponentsAgree'
<1> SUFFICES ASSUME NEW i, Component(i) \in DOMAIN table'
             PROVE  /\ ComponentMirror(i) \in DOMAIN table'
                    /\ table'[ComponentMirror(i)] = table'[Component(i)]
    BY Zenon DEF ComponentsAgree
<1>1. Same(Component(i)) /\ Same(ComponentMirror(i))
    BY Untouched, KindOf, Zenon
<1> QED BY <1>1, Zenon DEF ComponentsAgree, Same

(* A credential whose rows stay, and its slot while it is active, agrees on. *)
LEMMA CredentialStays ==
    ASSUME NEW i, Credential(i) \in DOMAIN table, CredentialAgrees(i),
           Same(Credential(i)), Same(Listing(i)),
           table[Credential(i)].status = "active" =>
              Same(Slot(table[Credential(i)].of[1], table[Credential(i)].of[2]))
    PROVE  CredentialAgrees(i)'
BY Zenon DEF CredentialAgrees, Same

LEMMA SlotStays ==
    ASSUME NEW a, NEW n, NEW i, Slot(a, n) \in DOMAIN table, SlotHeld(a, n, i),
           Same(Slot(a, n)), Same(Credential(i))
    PROVE  SlotHeld(a, n, i)'
BY Zenon DEF SlotHeld, Same

LEMMA CredentialsKept ==
    ASSUME CredentialsAgree, NEW kinds, Touches(kinds),
           kinds \cap {"credential", "listing", "slot"} = {}
    PROVE  CredentialsAgree'
<1>1. \A i : Same(Credential(i)) /\ Same(Listing(i))
    BY Untouched, KindOf, Zenon
<1>2. \A a, n : Same(Slot(a, n))
    BY Untouched, KindOf, Zenon
<1>3. ASSUME NEW i, Credential(i) \in DOMAIN table' PROVE CredentialAgrees(i)'
  <2>1. Credential(i) \in DOMAIN table
      BY <1>1, <1>3, Zenon DEF Same
  <2> QED BY <1>1, <1>2, <2>1, CredentialStays, Zenon DEF CredentialsAgree
<1>4. ASSUME NEW a, NEW n, Slot(a, n) \in DOMAIN table' PROVE \E i : SlotHeld(a, n, i)'
  <2>1. Slot(a, n) \in DOMAIN table
      BY <1>2, <1>4, Zenon DEF Same
  <2>2. PICK i : SlotHeld(a, n, i)
      BY <2>1, Zenon DEF CredentialsAgree
  <2>3. SlotHeld(a, n, i)'
      BY <1>1, <1>2, <2>1, <2>2, SlotStays, ZenonT(30)
  <2> QED BY <2>3, Zenon
<1> QED BY <1>3, <1>4, Zenon DEF CredentialsAgree

LEMMA IntegrationStays ==
    ASSUME NEW i, Integration(i) \in DOMAIN table, IntegrationAgrees(i),
           Same(Integration(i)), Same(table[Integration(i)].of[3])
    PROVE  IntegrationAgrees(i)'
BY Zenon DEF IntegrationAgrees, Same

LEMMA IntegrationsKept ==
    ASSUME IntegrationsAgree, NEW kinds, Touches(kinds),
           kinds \cap {"integration", "identity"} = {}
    PROVE  IntegrationsAgree'
<1> SUFFICES ASSUME NEW i, Integration(i) \in DOMAIN table' PROVE IntegrationAgrees(i)'
    BY Zenon DEF IntegrationsAgree
<1>1. Same(Integration(i))
    BY Untouched, KindOf, Zenon
<1>2. Integration(i) \in DOMAIN table
    BY <1>1, Zenon DEF Same
<1>3. IntegrationAgrees(i)
    BY <1>2, Zenon DEF IntegrationsAgree
<1>4. Same(table[Integration(i)].of[3])
    BY <1>3, Untouched, Zenon DEF IntegrationAgrees
<1> QED BY <1>1, <1>2, <1>3, <1>4, IntegrationStays, ZenonT(30)

-----------------------------------------------------------------------------
(* What the two transactions touch. *)
LEMMA CreationTouches ==
    ASSUME NEW c, NEW conditions, NEW items, NEW reread, NEW kinds,
           TransactCreate(c, conditions, items, reread),
           \A k \in DOMAIN items : k[1] \in kinds /\ WellKeyed(k)
    PROVE  /\ Touches(kinds)
           /\ UNCHANGED table \/ (conditions /\ table' = Merge(items, {}))
<1>1. UNCHANGED table \/ (conditions /\ table' = Merge(items, {}))
    BY Zenon DEF TransactCreate, Create, Refuse, Proceed
<1>2. ASSUME table' = Merge(items, {}) PROVE Touches(kinds)
  <2>1. PICK gone : gone = {}
      BY Zenon
  <2>2. Touching(items, gone, kinds)
      BY <1>2, <2>1, Zenon DEF Touching
  <2> QED BY <2>2, Zenon DEF Touches
<1> QED BY <1>1, <1>2, Zenon DEF Touches

LEMMA UpdateTouches ==
    ASSUME NEW c, NEW conditions, NEW items, NEW gone, NEW kinds,
           TransactUpdate(c, conditions, items, gone),
           conditions => \A k \in DOMAIN items : k[1] \in kinds /\ (k \in DOMAIN table \/ WellKeyed(k)),
           \A k \in gone : k[1] \in kinds
    PROVE  /\ Touches(kinds)
           /\ UNCHANGED table \/ (conditions /\ table' = Merge(items, gone))
<1>1. UNCHANGED table \/ (conditions /\ table' = Merge(items, gone))
    BY Zenon DEF TransactUpdate, Refuse
<1>2. ASSUME conditions /\ table' = Merge(items, gone) PROVE Touches(kinds)
    BY <1>2, Zenon DEF Touches, Touching
<1> QED BY <1>1, <1>2, Zenon DEF Touches

(* Rows without a second copy. *)
Single == {"site", "asset", "profile", "capability", "account"}

LEMMA SingleRowsTouched ==
    ASSUME NEW c,
           \/ PutSite(c) \/ UpdateSite(c) \/ PutAsset(c) \/ UpdateAsset(c)
           \/ PutCapability(c) \/ PutAccount(c) \/ TransitionAccount(c)
    PROVE  Touches(Single)
<1>1. CASE PutSite(c)
  <2> DEFINE items == [k \in {Site(NewId(c))} |-> Entity("active", <<>>)]
  <2>1. \A k \in DOMAIN items : k[1] \in Single /\ WellKeyed(k)
      BY DEF Site, Single, WellKeyed
  <2>2. TransactCreate(c, Absent(Site(NewId(c))), items, ~ReceiptFree(Op(c).key))
      BY <1>1, Zenon DEF PutSite
  <2> HIDE DEF items
  <2> QED BY <2>1, <2>2, CreationTouches, Zenon
<1>2. CASE PutAsset(c)
  <2> DEFINE items == AssetRows(c)
  <2>1. \A k \in DOMAIN items : k[1] \in Single /\ WellKeyed(k)
      BY DEF AssetRows, Asset, Profile, Single, WellKeyed
  <2>2. \E conditions, reread : TransactCreate(c, conditions, items, reread)
      BY <1>2, Zenon DEF PutAsset
  <2> HIDE DEF items
  <2> QED BY <2>1, <2>2, CreationTouches, Zenon
<1>3. CASE PutCapability(c)
  <2> DEFINE items == [x \in {Capability(NewId(c))} |-> Entity("active", <<Op(c).on>>)]
  <2>1. \A k \in DOMAIN items : k[1] \in Single /\ WellKeyed(k)
      BY DEF Capability, Single, WellKeyed
  <2>2. \E conditions : TransactCreate(c, conditions, items, TRUE)
      BY <1>3, Zenon DEF PutCapability
  <2> HIDE DEF items
  <2> QED BY <2>1, <2>2, CreationTouches, Zenon
<1>4. CASE PutAccount(c)
  <2> DEFINE items == [x \in {Account(NewId(c))} |-> Entity("pending", <<>>)]
  <2>1. \A k \in DOMAIN items : k[1] \in Single /\ WellKeyed(k)
      BY DEF Account, Single, WellKeyed
  <2>2. TransactCreate(c, Absent(Account(NewId(c))), items, TRUE)
      BY <1>4, Zenon DEF PutAccount
  <2> HIDE DEF items
  <2> QED BY <2>1, <2>2, CreationTouches, Zenon
<1>5. CASE UpdateSite(c)
  <2> DEFINE k == Site(Op(c).on)
             items == [x \in {k} |-> Changed(table[k], Op(c).to)]
  <2>1. \A x \in DOMAIN items : x[1] \in Single /\ WellKeyed(x)
      BY DEF Site, Single, WellKeyed
  <2>2. TransactUpdate(c, AtVersion(k, Op(c).version), items, {})
      BY <1>5, Zenon DEF UpdateSite
  <2> HIDE DEF items, k
  <2> QED BY <2>1, <2>2, UpdateTouches
<1>6. CASE UpdateAsset(c)
  <2> DEFINE op == Op(c)
             k == Asset(op.on)
             p == Profile(op.on)
             touched == {k} \cup (IF op.profile = 0 THEN {} ELSE {p})
             items == [x \in touched |-> Changed(table[x], IF x = k THEN op.to ELSE "-")]
             conditions == /\ AtVersion(k, op.version)
                           /\ op.profile = 0 \/ AtVersion(p, op.profile)
  <2>1. \A x \in DOMAIN items : x[1] \in Single /\ WellKeyed(x)
      BY DEF Asset, Profile, Single, WellKeyed
  <2>2. TransactUpdate(c, conditions, items, {})
      BY <1>6, Zenon DEF UpdateAsset
  <2> HIDE DEF items, conditions
  <2> QED BY <2>1, <2>2, UpdateTouches
<1>7. CASE TransitionAccount(c)
  <2> DEFINE k == Account(Op(c).on)
             items == [x \in {k} |-> Changed(table[k], Op(c).to)]
  <2>1. \A x \in DOMAIN items : x[1] \in Single /\ WellKeyed(x)
      BY DEF Account, Single, WellKeyed
  <2>2. TransactUpdate(c, StatusFence(k, c), items, {})
      BY <1>7, Zenon DEF TransitionAccount, AuditedUpdate
  <2> HIDE DEF items, k
  <2> QED BY <2>1, <2>2, UpdateTouches
<1> QED BY <1>1, <1>2, <1>3, <1>4, <1>5, <1>6, <1>7, ZenonT(30)

(* A device and its lookup row are put together and changed alike. *)
LEMMA DeviceWritesAgree ==
    ASSUME DevicesAgree, NEW c, PutDevice(c) \/ UpdateDevice(c)
    PROVE  Touches({"device", "device_lookup"}) /\ DevicesAgree'
<1>1. CASE PutDevice(c)
  <2> DEFINE keys == {Device(NewId(c)), DeviceLookup(NewId(c))}
             items == [k \in keys |-> Entity("active", <<>>)]
  <2>1. \A k \in DOMAIN items : k[1] \in {"device", "device_lookup"} /\ WellKeyed(k)
      BY DEF Device, DeviceLookup, WellKeyed
  <2>2. TransactCreate(c, \A k \in keys : Absent(k), items, TRUE)
      BY <1>1, Zenon DEF PutDevice
  <2>3. /\ Touches({"device", "device_lookup"})
        /\ UNCHANGED table \/ table' = Merge(items, {})
    <3> HIDE DEF items, keys
    <3> QED BY <2>1, <2>2, CreationTouches, Zenon
  <2>4. ASSUME table' = Merge(items, {}), NEW i, Device(i) \in DOMAIN table'
        PROVE  DeviceLookup(i) \in DOMAIN table' /\ table'[DeviceLookup(i)] = table'[Device(i)]
    <3>1. CASE i = NewId(c)
        BY <2>4, <3>1, Zenon DEF Merge
    <3>2. CASE i # NewId(c)
      <4>1. Device(i) \notin keys /\ DeviceLookup(i) \notin keys
          BY <3>2, Zenon DEF Device, DeviceLookup
      <4> QED BY <2>4, <4>1, Zenon DEF Merge, DevicesAgree
    <3> QED BY <3>1, <3>2, Zenon
  <2> HIDE DEF items, keys
  <2> QED BY <2>3, <2>4, Zenon DEF DevicesAgree
<1>2. CASE UpdateDevice(c)
  <2> DEFINE keys == {Device(Op(c).on), DeviceLookup(Op(c).on)}
             items == [k \in keys |-> Changed(table[k], Op(c).to)]
             conditions == \A k \in keys : AtVersion(k, Op(c).version)
  <2>1. \A k \in DOMAIN items : k[1] \in {"device", "device_lookup"} /\ WellKeyed(k)
      BY DEF Device, DeviceLookup, WellKeyed
  <2>2. TransactUpdate(c, conditions, items, {})
      BY <1>2, Zenon DEF UpdateDevice
  <2>3. /\ Touches({"device", "device_lookup"})
        /\ UNCHANGED table \/ (conditions /\ table' = Merge(items, {}))
    <3> HIDE DEF items, conditions
    <3> QED BY <2>1, <2>2, UpdateTouches, Zenon
  <2>4. ASSUME conditions, table' = Merge(items, {}), NEW i, Device(i) \in DOMAIN table'
        PROVE  DeviceLookup(i) \in DOMAIN table' /\ table'[DeviceLookup(i)] = table'[Device(i)]
    <3>1. CASE i = Op(c).on
      <4>1. Device(i) \in DOMAIN table
          BY <2>4, <3>1, Zenon DEF AtVersion
      <4>2. table[DeviceLookup(i)] = table[Device(i)]
          BY <4>1, Zenon DEF DevicesAgree
      <4> QED BY <2>4, <3>1, <4>2, ZenonT(30) DEF Merge
    <3>2. CASE i # Op(c).on
      <4>1. Device(i) \notin keys /\ DeviceLookup(i) \notin keys
          BY <3>2, Zenon DEF Device, DeviceLookup
      <4> QED BY <2>4, <4>1, Zenon DEF Merge, DevicesAgree
    <3> QED BY <3>1, <3>2, Zenon
  <2> HIDE DEF items, conditions
  <2> QED BY <2>3, <2>4, Zenon DEF DevicesAgree
<1> QED BY <1>1, <1>2, Zenon

(* So are a component and its mirror. *)
LEMMA ComponentWritesAgree ==
    ASSUME ComponentsAgree, NEW c, PutComponent(c) \/ UpdateComponent(c)
    PROVE  Touches({"component", "component_mirror"}) /\ ComponentsAgree'
<1>1. CASE PutComponent(c)
  <2> DEFINE keys == {Component(NewId(c)), ComponentMirror(NewId(c))}
             items == [k \in keys |-> Entity("active", <<Op(c).on>>)]
             conditions == /\ \A k \in keys : Absent(k)
                           /\ AtVersion(Device(Op(c).on), call[c].saw)
  <2>1. \A k \in DOMAIN items : k[1] \in {"component", "component_mirror"} /\ WellKeyed(k)
      BY DEF Component, ComponentMirror, WellKeyed
  <2>2. TransactCreate(c, conditions, items, TRUE)
      BY <1>1, Zenon DEF PutComponent
  <2>3. /\ Touches({"component", "component_mirror"})
        /\ UNCHANGED table \/ table' = Merge(items, {})
    <3> HIDE DEF items, keys, conditions
    <3> QED BY <2>1, <2>2, CreationTouches, ZenonT(30)
  <2>4. ASSUME table' = Merge(items, {}), NEW i, Component(i) \in DOMAIN table'
        PROVE  ComponentMirror(i) \in DOMAIN table' /\ table'[ComponentMirror(i)] = table'[Component(i)]
    <3>1. CASE i = NewId(c)
        BY <2>4, <3>1, Zenon DEF Merge
    <3>2. CASE i # NewId(c)
      <4>1. Component(i) \notin keys /\ ComponentMirror(i) \notin keys
          BY <3>2, Zenon DEF Component, ComponentMirror
      <4> QED BY <2>4, <4>1, Zenon DEF Merge, ComponentsAgree
    <3> QED BY <3>1, <3>2, Zenon
  <2> HIDE DEF items, keys
  <2> QED BY <2>3, <2>4, Zenon DEF ComponentsAgree
<1>2. CASE UpdateComponent(c)
  <2> DEFINE keys == {Component(Op(c).on), ComponentMirror(Op(c).on)}
             items == [k \in keys |-> Changed(table[k], Op(c).to)]
             conditions == \A k \in keys : AtVersion(k, Op(c).version)
  <2>1. \A k \in DOMAIN items : k[1] \in {"component", "component_mirror"} /\ WellKeyed(k)
      BY DEF Component, ComponentMirror, WellKeyed
  <2>2. TransactUpdate(c, conditions, items, {})
      BY <1>2, Zenon DEF UpdateComponent
  <2>3. /\ Touches({"component", "component_mirror"})
        /\ UNCHANGED table \/ (conditions /\ table' = Merge(items, {}))
    <3> HIDE DEF items, conditions
    <3> QED BY <2>1, <2>2, UpdateTouches, ZenonT(30)
  <2>4. ASSUME conditions, table' = Merge(items, {}), NEW i, Component(i) \in DOMAIN table'
        PROVE  ComponentMirror(i) \in DOMAIN table' /\ table'[ComponentMirror(i)] = table'[Component(i)]
    <3>1. CASE i = Op(c).on
      <4>1. Component(i) \in DOMAIN table
          BY <2>4, <3>1, Zenon DEF AtVersion
      <4>2. table[ComponentMirror(i)] = table[Component(i)]
          BY <4>1, Zenon DEF ComponentsAgree
      <4> QED BY <2>4, <3>1, <4>2, Zenon DEF Merge
    <3>2. CASE i # Op(c).on
      <4>1. Component(i) \notin keys /\ ComponentMirror(i) \notin keys
          BY <3>2, Zenon DEF Component, ComponentMirror
      <4> QED BY <2>4, <4>1, Zenon DEF Merge, ComponentsAgree
    <3> QED BY <3>1, <3>2, Zenon
  <2> HIDE DEF items, conditions
  <2> QED BY <2>3, <2>4, Zenon DEF ComponentsAgree
<1> QED BY <1>1, <1>2, Zenon

(* What is put where nothing was leaves every row as it is. *)
LEMMA NewRows ==
    ASSUME NEW items, table' = Merge(items, {}), \A k \in DOMAIN items : Absent(k)
    PROVE  /\ \A k \in DOMAIN table : k \in DOMAIN table' /\ table'[k] = table[k]
           /\ \A k \in DOMAIN items : k \in DOMAIN table' /\ table'[k] = items[k]
           /\ \A k \in DOMAIN table' : k \in DOMAIN table \/ k \in DOMAIN items
BY Zenon DEF Merge, Absent

LEMMA KeysInjective ==
    /\ \A i, j : Credential(i) = Credential(j) => i = j
    /\ \A i, j : Listing(i) = Listing(j) => i = j
    /\ \A i, j : Integration(i) = Integration(j) => i = j
    /\ \A a, m, b, n : Slot(a, m) = Slot(b, n) => a = b /\ m = n
BY Zenon DEF Credential, Listing, Integration, Slot

(* A credential is issued with its listing and a slot that nobody held. *)
LEMMA IssueAgrees ==
    ASSUME CredentialsAgree, NEW c, IssueCredential(c)
    PROVE  Touches({"credential", "listing", "slot"}) /\ CredentialsAgree'
<1> DEFINE items == IssueRows(c)
           conditions == /\ HasStatus(Account(Op(c).on), Provisionable)
                         /\ \A k \in DOMAIN items : Absent(k)
<1>1. PICK i0, a0, n0 : i0 = NewId(c) /\ a0 = Op(c).on /\ n0 = call[c].saw
    BY Zenon
<1>2. DOMAIN items = {Credential(i0), Listing(i0), Slot(a0, n0)}
    BY <1>1, Zenon DEF IssueRows
<1>3. \A k \in DOMAIN items : items[k] = Entity("active", IF k = Slot(a0, n0) THEN <<i0>> ELSE <<a0, n0>>)
    BY <1>1, Zenon DEF IssueRows
<1>4. \A k \in DOMAIN items : k[1] \in {"credential", "listing", "slot"} /\ WellKeyed(k)
    BY <1>2 DEF Credential, Listing, Slot, WellKeyed
<1>5. TransactUpdate(c, conditions, items, {})
    BY Zenon DEF IssueCredential, AuditedUpdate
<1>6. /\ Touches({"credential", "listing", "slot"})
      /\ UNCHANGED table \/ (conditions /\ table' = Merge(items, {}))
  <2> HIDE DEF items, conditions
  <2> QED BY <1>4, <1>5, UpdateTouches, ZenonT(30)
<1>7. CASE UNCHANGED table
  <2>1. Touches({})
      BY <1>7, Zenon DEF Touches
  <2> QED BY <1>6, <2>1, CredentialsKept, Zenon
<1>8. ASSUME conditions, table' = Merge(items, {}) PROVE CredentialsAgree'
  <2>1. /\ \A k \in DOMAIN table : k \in DOMAIN table' /\ table'[k] = table[k]
        /\ \A k \in DOMAIN items : k \in DOMAIN table' /\ table'[k] = items[k]
        /\ \A k \in DOMAIN table' : k \in DOMAIN table \/ k \in DOMAIN items
    <3> HIDE DEF items
    <3> QED BY <1>8, NewRows, Zenon
  <2>2. /\ items[Credential(i0)] = Entity("active", <<a0, n0>>)
        /\ items[Listing(i0)] = Entity("active", <<a0, n0>>)
        /\ items[Slot(a0, n0)] = Entity("active", <<i0>>)
      BY <1>2, <1>3, KindOf
  <2> HIDE DEF items
  <2>3. ASSUME NEW i, Credential(i) \in DOMAIN table' PROVE CredentialAgrees(i)'
    <3>1. CASE i = i0
      <4>1. table'[Credential(i)] = Entity("active", <<a0, n0>>)
            /\ Listing(i) \in DOMAIN table' /\ table'[Listing(i)] = table'[Credential(i)]
          BY <1>2, <2>1, <2>2, <3>1, Zenon
      <4>2. Slot(a0, n0) \in DOMAIN table' /\ table'[Slot(a0, n0)].of = <<i>>
          BY <1>2, <2>1, <2>2, <3>1 DEF Entity
      <4>3. table'[Credential(i)].of[1] = a0 /\ table'[Credential(i)].of[2] = n0
            /\ DOMAIN table'[Credential(i)] = RowFields
          BY <4>1 DEF Entity, RowFields
      <4> QED BY <4>1, <4>2, <4>3, Zenon DEF CredentialAgrees
    <3>2. CASE i # i0
      <4>1. Credential(i) \in DOMAIN table
          BY <1>2, <2>1, <2>3, <3>2, KeysInjective, KindOf
      <4>2. CredentialAgrees(i)
          BY <4>1, Zenon DEF CredentialsAgree
      <4>3. Same(Credential(i)) /\ Same(Listing(i))
          BY <2>1, <4>1, <4>2, Zenon DEF Same, CredentialAgrees
      <4>4. ASSUME table[Credential(i)].status = "active"
            PROVE  Same(Slot(table[Credential(i)].of[1], table[Credential(i)].of[2]))
          BY <2>1, <4>2, <4>4, Zenon DEF Same, CredentialAgrees
      <4> QED BY <4>1, <4>2, <4>3, <4>4, CredentialStays, Zenon
    <3> QED BY <3>1, <3>2, Zenon
  <2>4. ASSUME NEW a, NEW n, Slot(a, n) \in DOMAIN table' PROVE \E i : SlotHeld(a, n, i)'
    <3>1. CASE a = a0 /\ n = n0
      <4>1. SlotHeld(a, n, i0)'
          BY <1>2, <2>1, <2>2, <3>1 DEF SlotHeld, Entity
      <4> QED BY <4>1, Zenon
    <3>2. CASE ~(a = a0 /\ n = n0)
      <4>1. Slot(a, n) \in DOMAIN table
          BY <1>2, <2>1, <2>4, <3>2, KeysInjective, KindOf
      <4>2. PICK i : SlotHeld(a, n, i)
          BY <4>1, ZenonT(30) DEF CredentialsAgree
      <4>3. Same(Slot(a, n)) /\ Same(Credential(i))
          BY <2>1, <4>1, <4>2, ZenonT(30) DEF Same, SlotHeld
      <4>4. SlotHeld(a, n, i)'
          BY <4>1, <4>2, <4>3, SlotStays, ZenonT(30)
      <4> QED BY <4>4, Zenon
    <3> QED BY <3>1, <3>2, ZenonT(30)
  <2> QED BY <2>3, <2>4, Zenon DEF CredentialsAgree
<1> QED BY <1>6, <1>7, <1>8, Zenon

(* A credential is revoked with its listing, and the slot it frees is the    *)
(* one it held: that slot names it, and it names one slot only.              *)
LEMMA RevokeAgrees ==
    ASSUME CredentialsAgree, NEW c, RevokeCredential(c)
    PROVE  Touches({"credential", "listing", "slot"}) /\ CredentialsAgree'
<1>1. PICK i0, a0, n0 : i0 = Op(c).on /\ a0 = table[Credential(i0)].of[1] /\ n0 = call[c].saw
    BY Zenon
<1> DEFINE keys == {Credential(i0), Listing(i0)}
           items == [k \in keys |-> Changed(table[k], "revoked")]
           gone == {Slot(a0, n0)}
<1>2. \A k \in DOMAIN items : k[1] \in {"credential", "listing", "slot"} /\ WellKeyed(k)
    BY DEF Credential, Listing, WellKeyed
<1>3. \A k \in gone : k[1] \in {"credential", "listing", "slot"}
    BY DEF Slot
<1>4. TransactUpdate(c, RevokeConditions(c), items, gone)
    BY <1>1, ZenonT(30) DEF RevokeCredential, AuditedUpdate
<1>5. /\ Touches({"credential", "listing", "slot"})
      /\ UNCHANGED table \/ (RevokeConditions(c) /\ table' = Merge(items, gone))
  <2> HIDE DEF items, gone
  <2> QED BY <1>2, <1>3, <1>4, UpdateTouches, ZenonT(30)
<1>6. CASE UNCHANGED table
  <2>1. Touches({})
      BY <1>6, Zenon DEF Touches
  <2> QED BY <1>5, <2>1, CredentialsKept, ZenonT(30)
<1>7. ASSUME RevokeConditions(c), table' = Merge(items, gone) PROVE CredentialsAgree'
  <2>1. /\ Credential(i0) \in DOMAIN table /\ table[Credential(i0)].status = "active"
        /\ Slot(a0, n0) \in DOMAIN table /\ table[Slot(a0, n0)].of[1] = i0
      BY <1>1, <1>7, Zenon DEF RevokeConditions, HasStatus
  <2>2. table[Credential(i0)].of = <<a0, n0>>
    <3>1. PICK i : SlotHeld(a0, n0, i)
        BY <2>1, Zenon DEF CredentialsAgree
    <3>2. i = i0
        BY <2>1, <3>1 DEF SlotHeld
    <3> QED BY <3>1, <3>2, Zenon DEF SlotHeld
  <2>3. \A k : k \notin keys /\ k # Slot(a0, n0) => Same(k)
      BY <1>7, Zenon DEF Merge, Same
  <2>4. \A k \in keys : k \in DOMAIN table' /\ table'[k] = Changed(table[k], "revoked")
      BY <1>7, Zenon DEF Merge
  <2>5. Slot(a0, n0) \notin DOMAIN table'
      BY <1>7, KindOf, Zenon DEF Merge
  <2> HIDE DEF items, gone
  <2>6. ASSUME NEW i, Credential(i) \in DOMAIN table' PROVE CredentialAgrees(i)'
    <3>1. CASE i = i0
      <4>1. CredentialAgrees(i)
          BY <2>1, <3>1, Zenon DEF CredentialsAgree
      <4>2. table'[Credential(i)] = Changed(table[Credential(i)], "revoked")
            /\ Listing(i) \in DOMAIN table' /\ table'[Listing(i)] = Changed(table[Listing(i)], "revoked")
          BY <2>4, <3>1, Zenon
      <4>3. table[Listing(i)] = table[Credential(i)] /\ DOMAIN table[Credential(i)] = RowFields
          BY <4>1, Zenon DEF CredentialAgrees
      <4>4. /\ Changed(table[Credential(i)], "revoked").status = "revoked"
            /\ DOMAIN Changed(table[Credential(i)], "revoked") = RowFields
          BY <4>3, Zenon DEF Changed, RowFields
      <4> QED BY <4>2, <4>3, <4>4, Zenon DEF CredentialAgrees
    <3>2. CASE i # i0
      <4>1. Same(Credential(i)) /\ Same(Listing(i))
          BY <2>3, <3>2, KeysInjective, KindOf
      <4>2. Credential(i) \in DOMAIN table /\ CredentialAgrees(i)
          BY <2>6, <4>1, Zenon DEF Same, CredentialsAgree
      <4>3. ASSUME table[Credential(i)].status = "active"
            PROVE  Same(Slot(table[Credential(i)].of[1], table[Credential(i)].of[2]))
        <5> DEFINE s == Slot(table[Credential(i)].of[1], table[Credential(i)].of[2])
        <5>1. table[s].of = <<i>>
            BY <4>2, <4>3, Zenon DEF CredentialAgrees
        <5>2. s # Slot(a0, n0)
            BY <2>1, <3>2, <5>1
        <5>3. s[1] = "slot"
            BY KindOf, Zenon
        <5> HIDE DEF s
        <5>4. Same(s)
            BY <2>3, <5>2, <5>3, KindOf, ZenonT(30)
        <5> QED BY <5>4, Zenon DEF s
      <4> QED BY <4>1, <4>2, <4>3, CredentialStays, ZenonT(30)
    <3> QED BY <3>1, <3>2, Zenon
  <2>7. ASSUME NEW a, NEW n, Slot(a, n) \in DOMAIN table' PROVE \E i : SlotHeld(a, n, i)'
    <3>1. Slot(a, n) # Slot(a0, n0)
        BY <2>5, <2>7, Zenon
    <3>2. Same(Slot(a, n))
        BY <2>3, <3>1, KindOf, ZenonT(30)
    <3>3. Slot(a, n) \in DOMAIN table
        BY <2>7, <3>2, ZenonT(30) DEF Same
    <3>4. PICK i : SlotHeld(a, n, i)
        BY <3>3, ZenonT(30) DEF CredentialsAgree
    <3>5. i # i0
        BY <2>2, <3>1, <3>4 DEF SlotHeld
    <3>6. Same(Credential(i))
        BY <2>3, <3>5, KeysInjective, KindOf
    <3>7. SlotHeld(a, n, i)'
        BY <3>2, <3>3, <3>4, <3>6, SlotStays, Zenon
    <3> QED BY <3>7, Zenon
  <2> QED BY <2>6, <2>7, ZenonT(30) DEF CredentialsAgree
<1> QED BY <1>5, <1>6, <1>7, Zenon

(* An integration is put with the lookup row of an identity nobody claimed, *)
LEMMA ClaimAgrees ==
    ASSUME IntegrationsAgree, NEW c, PutIntegration(c)
    PROVE  Touches({"integration", "identity"}) /\ IntegrationsAgree'
<1> DEFINE i0 == NewId(c)
           d0 == Op(c).on
           a0 == Op(c).to
           l0 == Identity(a0, Op(c).name)
           k0 == Integration(i0)
           items == [x \in {k0, l0} |-> Entity("provisioning",
                        IF x = k0 THEN <<d0, a0, l0>> ELSE <<d0, i0>>)]
           conditions == /\ Absent(k0)
                         /\ Absent(l0)
                         /\ HasStatus(Account(a0), Provisionable)
                         /\ HasStatus(Device(d0), {"provisioning", "active", "suspended"})
<1>2. k0[1] = "integration" /\ l0[1] = "identity" /\ k0 # l0
    BY KindOf
<1>3. \A k \in DOMAIN items : k[1] \in {"integration", "identity"} /\ WellKeyed(k)
    BY <1>2 DEF WellKeyed, Integration
<1>4. TransactCreate(c, conditions, items, TRUE)
    BY Zenon DEF PutIntegration
<1>5. /\ Touches({"integration", "identity"})
      /\ UNCHANGED table \/ (conditions /\ table' = Merge(items, {}))
  <2> HIDE DEF items, conditions
  <2> QED BY <1>3, <1>4, CreationTouches, Zenon
<1>6. CASE UNCHANGED table
  <2>1. Touches({})
      BY <1>6, Zenon DEF Touches
  <2> QED BY <1>5, <2>1, IntegrationsKept, Zenon
<1>7. ASSUME conditions, table' = Merge(items, {}) PROVE IntegrationsAgree'
  <2>1. \A k \in DOMAIN items : Absent(k)
      BY <1>7, Zenon
  <2>2. /\ \A k \in DOMAIN table : k \in DOMAIN table' /\ table'[k] = table[k]
        /\ \A k \in DOMAIN items : k \in DOMAIN table' /\ table'[k] = items[k]
        /\ \A k \in DOMAIN table' : k \in DOMAIN table \/ k \in DOMAIN items
    <3> HIDE DEF items
    <3> QED BY <1>7, <2>1, NewRows, ZenonT(30)
  <2>3. DOMAIN items = {k0, l0} /\ items[k0] = Entity("provisioning", <<d0, a0, l0>>)
        /\ items[l0] = Entity("provisioning", <<d0, i0>>)
      BY <1>2, Zenon
  <2> HIDE DEF items
  <2> SUFFICES ASSUME NEW i, Integration(i) \in DOMAIN table' PROVE IntegrationAgrees(i)'
      BY Zenon DEF IntegrationsAgree
  <2>4. CASE i = i0
    <3>1. /\ table'[k0] = Entity("provisioning", <<d0, a0, l0>>)
          /\ l0 \in DOMAIN table' /\ table'[l0] = Entity("provisioning", <<d0, i0>>)
        BY <2>2, <2>3, Zenon
    <3>2. /\ table'[k0].of[1] = d0 /\ table'[k0].of[3] = l0
          /\ table'[l0].of[1] = d0 /\ table'[l0].of[2] = i0
          /\ table'[l0].status = table'[k0].status /\ table'[l0].version = table'[k0].version
          /\ DOMAIN table'[k0] = RowFields /\ DOMAIN table'[l0] = RowFields
        BY <3>1 DEF Entity, RowFields
    <3> QED BY <1>2, <2>4, <3>1, <3>2, ZenonT(30) DEF IntegrationAgrees
  <2>5. CASE i # i0
    <3>1. Integration(i) \in DOMAIN table
        BY <1>2, <2>2, <2>3, <2>5, KeysInjective, KindOf, ZenonT(30)
    <3>2. IntegrationAgrees(i)
        BY <3>1, Zenon DEF IntegrationsAgree
    <3>3. Same(Integration(i)) /\ Same(table[Integration(i)].of[3])
        BY <2>2, <3>1, <3>2, Zenon DEF Same, IntegrationAgrees
    <3> QED BY <3>1, <3>2, <3>3, IntegrationStays, Zenon
  <2> QED BY <2>4, <2>5, Zenon
<1> QED BY <1>5, <1>6, <1>7, Zenon

LEMMA ChangedFields ==
    ASSUME NEW row, DOMAIN row = RowFields, NEW to
    PROVE  /\ DOMAIN Changed(row, to) = RowFields
           /\ Changed(row, to).of = row.of
           /\ Changed(row, to).status = IF to = "-" THEN row.status ELSE to
           /\ Changed(row, to).version = row.version + 1
BY Zenon DEF Changed, RowFields

(* and both change alike: no other integration has that lookup row. *)
LEMMA TransitionAgrees ==
    ASSUME IntegrationsAgree, NEW c, TransitionIntegration(c)
    PROVE  Touches({"integration", "identity"}) /\ IntegrationsAgree'
<1>1. PICK i0, l0, to : i0 = Op(c).on /\ l0 = table[Integration(i0)].of[3] /\ to = Op(c).to
    BY Zenon
<1> DEFINE k0 == Integration(i0)
           items == [x \in {k0, l0} |-> Changed(table[x], to)]
           conditions == StatusFence(k0, c) /\ AtVersion(l0, Op(c).version)
<1>2. ASSUME conditions PROVE /\ k0 \in DOMAIN table /\ l0 \in DOMAIN table
                              /\ k0[1] = "integration" /\ l0[1] = "identity"
                              /\ IntegrationAgrees(i0)
  <2>1. k0 \in DOMAIN table /\ l0 \in DOMAIN table
      BY <1>2, Zenon DEF StatusFence, AtVersion
  <2>2. IntegrationAgrees(i0)
      BY <2>1, Zenon DEF IntegrationsAgree
  <2> QED BY <1>1, <2>1, <2>2, KindOf, ZenonT(30) DEF IntegrationAgrees
<1>3. conditions => \A k \in DOMAIN items :
          k[1] \in {"integration", "identity"} /\ (k \in DOMAIN table \/ WellKeyed(k))
  <2> HIDE DEF conditions, k0
  <2> QED BY <1>2, Zenon
<1>4. TransactUpdate(c, conditions, items, {})
    BY <1>1, ZenonT(30) DEF TransitionIntegration, AuditedUpdate
<1>5. /\ Touches({"integration", "identity"})
      /\ UNCHANGED table \/ (conditions /\ table' = Merge(items, {}))
  <2> HIDE DEF items, conditions
  <2> QED BY <1>3, <1>4, UpdateTouches, ZenonT(30)
<1>6. CASE UNCHANGED table
  <2>1. Touches({})
      BY <1>6, Zenon DEF Touches
  <2> QED BY <1>5, <2>1, IntegrationsKept, ZenonT(30)
<1>7. ASSUME conditions, table' = Merge(items, {}) PROVE IntegrationsAgree'
  <2>1. \A k : k \notin {k0, l0} => Same(k)
      BY <1>7, ZenonT(30) DEF Merge, Same
  <2>2. \A k \in {k0, l0} : k \in DOMAIN table' /\ table'[k] = Changed(table[k], to)
      BY <1>7, Zenon DEF Merge
  <2>3. /\ k0 \in DOMAIN table /\ l0 \in DOMAIN table
        /\ k0[1] = "integration" /\ l0[1] = "identity"
        /\ IntegrationAgrees(i0)
      BY <1>2, <1>7, ZenonT(30)
  <2> HIDE DEF items, conditions
  <2> SUFFICES ASSUME NEW i, Integration(i) \in DOMAIN table' PROVE IntegrationAgrees(i)'
      BY ZenonT(30) DEF IntegrationsAgree
  <2>4. CASE i = i0
    <3>1. /\ DOMAIN table[k0] = RowFields /\ DOMAIN table[l0] = RowFields
          /\ table[l0].of[1] = table[k0].of[1] /\ table[l0].of[2] = i0
          /\ table[l0].status = table[k0].status /\ table[l0].version = table[k0].version
        BY <1>1, <2>3, ZenonT(30) DEF IntegrationAgrees
    <3>2. ASSUME NEW k \in {k0, l0}
          PROVE  /\ DOMAIN table'[k] = RowFields
                 /\ table'[k].of = table[k].of
                 /\ table'[k].status = IF to = "-" THEN table[k].status ELSE to
                 /\ table'[k].version = table[k].version + 1
      <4>1. PICK row : row = table[k] /\ DOMAIN row = RowFields
          BY <3>1, Zenon
      <4>2. table'[k] = Changed(row, to)
          BY <2>2, <4>1, Zenon
      <4> HIDE DEF k0
      <4> QED BY <4>1, <4>2, ChangedFields
    <3>3. table'[k0].of[3] = l0 /\ l0 \in DOMAIN table'
        BY <1>1, <2>2, <3>2, Zenon
    <3>4. /\ table'[l0].of[1] = table'[k0].of[1] /\ table'[l0].of[2] = i0
          /\ table'[l0].status = table'[k0].status /\ table'[l0].version = table'[k0].version
          /\ DOMAIN table'[k0] = RowFields /\ DOMAIN table'[l0] = RowFields
      <4> HIDE DEF k0
      <4> QED BY <3>1, <3>2, Zenon
    <3> QED BY <2>3, <2>4, <3>3, <3>4, ZenonT(30) DEF IntegrationAgrees
  <2>5. CASE i # i0
    <3>1. Same(Integration(i))
        BY <2>1, <2>3, <2>5, KeysInjective, KindOf, ZenonT(30)
    <3>2. Integration(i) \in DOMAIN table /\ IntegrationAgrees(i)
        BY <3>1, Zenon DEF Same, IntegrationsAgree
    <3>3. table[Integration(i)].of[3] # l0
        BY <1>1, <2>3, <2>5, <3>2, ZenonT(30) DEF IntegrationAgrees
    <3>4. table[Integration(i)].of[3][1] = "identity"
        BY <3>2, Zenon DEF IntegrationAgrees
    <3>5. Same(table[Integration(i)].of[3])
        BY <2>1, <2>3, <3>3, <3>4, Zenon
    <3> QED BY <3>1, <3>2, <3>5, IntegrationStays, ZenonT(30)
  <2> QED BY <2>4, <2>5, ZenonT(30)
<1> QED BY <1>5, <1>6, <1>7, ZenonT(30)

-----------------------------------------------------------------------------
(* Every other step leaves the table as it is. *)
LEMMA OtherStepsTouchNothing ==
    ASSUME NEW c,
           \/ BuildSite(c) \/ ReadSite(c) \/ ReadAssetSite(c) \/ ReadAsset(c)
           \/ BuildDevice(c) \/ ReadDevice(c) \/ FenceDevice(c)
           \/ ReadComponentDevice(c) \/ FenceComponentDevice(c)
           \/ ReadComponent(c) \/ FenceComponent(c)
           \/ ReadCapabilityComponent(c) \/ FenceCapabilityComponent(c)
           \/ BuildAccount(c) \/ ReadAccount(c)
           \/ ReadIntegrationParents(c) \/ ReadIntegration(c)
           \/ ReadIssuer(c) \/ ListCredentials(c) \/ ChooseSlot(c) \/ ReadCredential(c)
           \/ Authenticate(c) \/ AuthenticateAccount(c)
           \/ ReadStartParents(c) \/ ReadMarker(c) \/ ReadPrevious(c)
           \/ ReadDeployment(c) \/ FenceDeployment(c) \/ ReadEndMarker(c)
           \/ LookUpReceipt(c) \/ RereadReceipt(c) \/ Resend(c) \/ ClockTick
    PROVE  UNCHANGED table
<1> USE DEF Refuse, Proceed, Build, Replay
<1>1. CASE BuildSite(c) \/ ReadSite(c) \/ ReadAssetSite(c) \/ ReadAsset(c)
    BY <1>1, Zenon DEF BuildSite, ReadSite, ReadAssetSite, ReadAsset
<1>2. CASE BuildDevice(c) \/ ReadDevice(c) \/ FenceDevice(c)
    BY <1>2, Zenon DEF BuildDevice, ReadDevice, FenceDevice
<1>3. CASE ReadComponentDevice(c) \/ FenceComponentDevice(c) \/ ReadComponent(c) \/ FenceComponent(c)
    BY <1>3, Zenon DEF ReadComponentDevice, FenceComponentDevice, ReadComponent, FenceComponent
<1>4. CASE ReadCapabilityComponent(c) \/ FenceCapabilityComponent(c)
    BY <1>4, Zenon DEF ReadCapabilityComponent, FenceCapabilityComponent
<1>5. CASE BuildAccount(c) \/ ReadAccount(c) \/ ReadIntegrationParents(c) \/ ReadIntegration(c)
    BY <1>5, Zenon DEF BuildAccount, ReadAccount, ReadTransition, ReadIntegrationParents, ReadIntegration
<1>6. CASE ReadIssuer(c) \/ ListCredentials(c) \/ ChooseSlot(c) \/ ReadCredential(c)
    BY <1>6, Zenon DEF ReadIssuer, ListCredentials, ChooseSlot, ReadCredential
<1>7. CASE Authenticate(c) \/ AuthenticateAccount(c)
    BY <1>7, Zenon DEF Authenticate, AuthenticateAccount
<1>8. CASE ReadStartParents(c) \/ ReadMarker(c) \/ ReadPrevious(c)
    BY <1>8, Zenon DEF ReadStartParents, ReadMarker, ReadPrevious
<1>9. CASE ReadDeployment(c) \/ FenceDeployment(c) \/ ReadEndMarker(c)
    BY <1>9, Zenon DEF ReadDeployment, FenceDeployment, ReadEndMarker
<1>10. CASE LookUpReceipt(c) \/ RereadReceipt(c) \/ Resend(c) \/ ClockTick
    BY <1>10, Zenon DEF LookUpReceipt, RereadReceipt, Resend, ClockTick
<1> QED BY <1>1, <1>2, <1>3, <1>4, <1>5, <1>6, <1>7, <1>8, <1>9, <1>10, ZenonT(30)

(* The transaction of a start or an end puts its rows elsewhere. *)
LEMMA DeploymentsTouchNothing ==
    ASSUME NEW c, CommitStart(c) \/ CommitEnd(c)
    PROVE  Touches({})
<1>1. PICK items : items = [k \in {} |-> NoRow]
    BY Zenon
<1>2. \A k \in DOMAIN items : k[1] \in {} /\ WellKeyed(k)
    BY <1>1, ZenonT(30)
<1>3. CASE CommitStart(c)
  <2>1. TransactCreate(c, StartConditions(c), items, TRUE)
      BY <1>1, <1>3, Zenon DEF CommitStart
  <2> QED BY <1>2, <2>1, CreationTouches, ZenonT(30)
<1>4. CASE CommitEnd(c)
  <2>1. TransactUpdate(c, EndConditions(c), items, {})
      BY <1>1, <1>4, Zenon DEF CommitEnd
  <2> QED BY <1>2, <2>1, UpdateTouches, ZenonT(30)
<1> QED BY <1>3, <1>4, ZenonT(30)

(* So a step touches one family, and that one agrees on. *)
LEMMA StepKeepsCopies == CopiesInv /\ [RegistryNext]_registryVars => CopiesInv'
<1> SUFFICES ASSUME CopiesInv, [RegistryNext]_registryVars PROVE CopiesInv'
    BY Zenon
<1>0. KeysOK /\ DevicesAgree /\ ComponentsAgree /\ CredentialsAgree /\ IntegrationsAgree
    BY Zenon DEF CopiesInv
<1>1. ASSUME Touches(Single) PROVE CopiesInv'
    BY <1>0, <1>1, KeysKept, DevicesKept, ComponentsKept, CredentialsKept, IntegrationsKept, ZenonT(30)
       DEF Single, CopiesInv
<1>2. ASSUME UNCHANGED table \/ Touches({}) PROVE CopiesInv'
  <2>1. Touches({})
      BY <1>2, Zenon DEF Touches
  <2> QED BY <1>0, <2>1, KeysKept, DevicesKept, ComponentsKept, CredentialsKept, IntegrationsKept, ZenonT(30)
         DEF CopiesInv
<1>3. ASSUME NEW c, PutDevice(c) \/ UpdateDevice(c) PROVE CopiesInv'
  <2>1. Touches({"device", "device_lookup"}) /\ DevicesAgree'
      BY <1>0, <1>3, DeviceWritesAgree, Zenon
  <2> QED BY <1>0, <2>1, KeysKept, ComponentsKept, CredentialsKept, IntegrationsKept, ZenonT(30) DEF CopiesInv
<1>4. ASSUME NEW c, PutComponent(c) \/ UpdateComponent(c) PROVE CopiesInv'
  <2>1. Touches({"component", "component_mirror"}) /\ ComponentsAgree'
      BY <1>0, <1>4, ComponentWritesAgree, Zenon
  <2> QED BY <1>0, <2>1, KeysKept, DevicesKept, CredentialsKept, IntegrationsKept, ZenonT(30) DEF CopiesInv
<1>5. ASSUME NEW c, IssueCredential(c) \/ RevokeCredential(c) PROVE CopiesInv'
  <2>1. Touches({"credential", "listing", "slot"}) /\ CredentialsAgree'
      BY <1>0, <1>5, IssueAgrees, RevokeAgrees, Zenon
  <2> QED BY <1>0, <2>1, KeysKept, DevicesKept, ComponentsKept, IntegrationsKept, ZenonT(30) DEF CopiesInv
<1>6. ASSUME NEW c, PutIntegration(c) \/ TransitionIntegration(c) PROVE CopiesInv'
  <2>1. Touches({"integration", "identity"}) /\ IntegrationsAgree'
      BY <1>0, <1>6, ClaimAgrees, TransitionAgrees, Zenon
  <2> QED BY <1>0, <2>1, KeysKept, DevicesKept, ComponentsKept, CredentialsKept, Zenon DEF CopiesInv
<1>7. ASSUME NEW c, RegistryStep(c) PROVE CopiesInv'
    BY <1>1, <1>2, <1>3, <1>4, <1>7, SingleRowsTouched, OtherStepsTouchNothing, Zenon DEF RegistryStep
<1>8. ASSUME NEW c, DeploymentStep(c) PROVE CopiesInv'
    BY <1>2, <1>8, OtherStepsTouchNothing, DeploymentsTouchNothing, Zenon DEF DeploymentStep
<1>9. ASSUME NEW c, IntegrationStep(c) PROVE CopiesInv'
    BY <1>1, <1>2, <1>5, <1>6, <1>9, SingleRowsTouched, OtherStepsTouchNothing, Zenon DEF IntegrationStep
<1>10. ASSUME NEW c, LookUpReceipt(c) \/ RereadReceipt(c) \/ Resend(c) PROVE CopiesInv'
    BY <1>2, <1>10, OtherStepsTouchNothing, Zenon
<1>11. CASE ClockTick \/ UNCHANGED registryVars
    BY <1>2, <1>11, Zenon DEF ClockTick, registryVars, storeVars
<1> QED BY <1>7, <1>8, <1>9, <1>10, <1>11, Zenon DEF RegistryNext

LEMMA InitEstablishesCopies == RegistryInit => CopiesInv
<1> SUFFICES ASSUME RegistryInit PROVE CopiesInv
    BY Zenon
<1>1. table = InitialRows
    BY Zenon DEF RegistryInit, StoreInit
<1>2. KeysOK
    BY <1>1, RowsAssumption, Zenon DEF KeysOK, WellKeyed
<1>3. DevicesAgree
  <2> SUFFICES ASSUME NEW i, Device(i) \in DOMAIN InitialRows
               PROVE  DeviceLookup(i) \in DOMAIN InitialRows
                      /\ InitialRows[DeviceLookup(i)] = InitialRows[Device(i)]
      BY <1>1, Zenon DEF DevicesAgree
  <2>1. Device(i)[1] = "device" /\ Device(i)[2] = i
      BY Zenon DEF Device
  <2> QED BY <2>1, RowsAssumption, Zenon
<1>4. ComponentsAgree
  <2> SUFFICES ASSUME NEW i, Component(i) \in DOMAIN InitialRows
               PROVE  ComponentMirror(i) \in DOMAIN InitialRows
                      /\ InitialRows[ComponentMirror(i)] = InitialRows[Component(i)]
      BY <1>1, Zenon DEF ComponentsAgree
  <2>1. Component(i)[1] = "component" /\ Component(i)[2] = i
      BY Zenon DEF Component
  <2> QED BY <2>1, RowsAssumption, Zenon
<1>5. CredentialsAgree /\ IntegrationsAgree
    BY <1>1, RowsAssumption, KindOf DEF CredentialsAgree, IntegrationsAgree
<1> QED BY <1>2, <1>3, <1>4, <1>5, Zenon DEF CopiesInv

(* In every reachable state, for any set of calls: the second copy of a      *)
(* device, component or credential equals its original, an external identity *)
(* finds the one integration that claimed it, with its status and version,   *)
(* and a live credential holds its slot of the account alone.                *)
THEOREM CopiesAlwaysAgree == RegistrySpec => []CopiesAgree
<1> QED BY InitEstablishesCopies, StepKeepsCopies, CopiesInvAgree, PTL DEF RegistrySpec
=============================================================================
