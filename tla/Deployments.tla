---------------------------- MODULE Deployments ----------------------------
(***************************************************************************)
(* Starting and ending deployments through /v2: DeploymentService and      *)
(* DynamoDeploymentRepository.                                             *)
(***************************************************************************)
EXTENDS Registry, DeploymentStore

CONSTANT DefaultComponents  \* default_component_id_for_legacy_device(...)

(* build(): each parent is looked at in turn, the component by an eventually *)
(* consistent read, and so is the CURRENT pointer. A missing parent is a 404 *)
(* at once; any conflict makes the service read the receipt again.           *)
ReadStartParents(c) ==
    LET op == Op(c)  asset == Row(Asset(Op(c).to))
    IN  /\ At(c, "start", "read")
        /\ \E component \in MaySee(Component(op.on)) :
             IF op.at > clock \/ component = NoRow \/ asset = NoRow THEN Refuse(c)
             ELSE IF /\ component.status = "active"
                     /\ op.on \notin DefaultComponents
                     /\ asset.status = "active"
                     /\ HasStatus(Site(asset.of[1]), {"active"})
                     /\ current[op.on] = NoId
                  THEN Build(c, "marker", 0)
                  ELSE Proceed(c, "reread", 0)
        /\ UNCHANGED deploymentVars

(* start_deployment reads the marker ... *)
ReadMarker(c) ==
    LET op == Op(c)
    IN  /\ At(c, "start", "marker")
        /\ IF op.at < marker[op.on].last
           THEN Proceed(c, "reread", 0)
           ELSE Proceed(c, "previous", [seq |-> marker[op.on].seq, end |-> 0])
        /\ UNCHANGED deploymentVars

(* ... and the latest history row (_ensure_after_previous). *)
ReadPrevious(c) ==
    LET op == Op(c)
        H  == History(Op(c).on)
        d  == deployment[Latest(H)]
    IN  /\ At(c, "start", "previous")
        /\ IF H = {} THEN Proceed(c, "commit", call[c].saw)
           ELSE IF d.end = Open \/ op.at < d.end THEN Proceed(c, "reread", 0)
           ELSE Proceed(c, "commit", [call[c].saw EXCEPT !.end = d.end])
        /\ UNCHANGED deploymentVars

StartConditions(c) ==
    LET op == Op(c)
    IN  /\ NewId(c) \notin DOMAIN deployment
        /\ current[op.on] = NoId
        /\ StartAllowed(op.on, call[c].saw.seq, op.at)
        /\ HasStatus(Component(op.on), {"active"})
        /\ HasStatus(Asset(op.to), {"active"})
        /\ HasStatus(Site(table[Asset(op.to)].of[1]), {"active"})

CommitStart(c) ==
    LET op == Op(c)
    IN  /\ At(c, "start", "commit")
        /\ TransactCreate(c, StartConditions(c), [k \in {} |-> NoRow], TRUE)
        /\ IF StartConditions(c) /\ ReceiptFree(op.key)
           THEN PutOpen(NewId(c), Deployment(op.on, op.to, op.at), call[c].saw.end)
           ELSE UNCHANGED deploymentVars

(* DeploymentService.end, its checks. *)
ReadDeployment(c) ==
    LET op == Op(c)  d == deployment[Op(c).on]
    IN  /\ At(c, "end", "begin")
        /\ IF /\ op.at <= clock
              /\ op.on \in DOMAIN deployment
              /\ d.component \notin DefaultComponents
              /\ d.end = Open
              /\ d.version = op.version
              /\ op.at > d.start
           THEN Proceed(c, "fence", 0)
           ELSE Refuse(c)
        /\ UNCHANGED deploymentVars

(* end_deployment reads the row again, then the marker. *)
FenceDeployment(c) ==
    LET d == deployment[Op(c).on]
    IN  /\ At(c, "end", "fence")
        /\ IF d.end = Open /\ d.version = Op(c).version
           THEN Proceed(c, "marker", 0)
           ELSE Refuse(c)
        /\ UNCHANGED deploymentVars

ReadEndMarker(c) ==
    /\ At(c, "end", "marker")
    /\ Proceed(c, "commit",
               [seq |-> marker[deployment[Op(c).on].component].seq, end |-> 0])
    /\ UNCHANGED deploymentVars

EndConditions(c) ==
    LET op == Op(c)  d == deployment[Op(c).on]
    IN  /\ d.end = Open
        /\ d.version = op.version
        /\ current[d.component] = op.on
        /\ MarkerAt(d.component, call[c].saw.seq)

CommitEnd(c) ==
    /\ At(c, "end", "commit")
    /\ TransactUpdate(c, EndConditions(c), [k \in {} |-> NoRow], {})
    /\ IF EndConditions(c) THEN PutEnd(Op(c).on, Op(c).at) ELSE UNCHANGED deploymentVars

DeploymentStep(c) ==
    \/ ReadStartParents(c) \/ ReadMarker(c) \/ ReadPrevious(c) \/ CommitStart(c)
    \/ ReadDeployment(c) \/ FenceDeployment(c) \/ ReadEndMarker(c) \/ CommitEnd(c)
=============================================================================
