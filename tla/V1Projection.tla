---------------------------- MODULE V1Projection ----------------------------
(***************************************************************************)
(* DynamoV1PondDeviceProjection: every /v1 pond or device write is one     *)
(* transaction over the legacy row and its v2 rows.                        *)
(***************************************************************************)
EXTENDS V1Store

-----------------------------------------------------------------------------
(* Ponds *)

ReadSiteForPond(c) ==
    /\ At(c, "create_pond", "begin")
    /\ GoTo(c, "commit", [Saw(c) EXCEPT !.site = site])

CreatePond(c) ==
    LET op == Op(c)
        definitive == ~There(pond[op.on])
        retryable == ~There(asset[op.on]) /\ SiteAsSeen(c, TRUE)
    IN  /\ At(c, "create_pond", "commit")
        /\ \/ /\ definitive /\ retryable
              /\ Won(c)
              /\ PutSite(TRUE)
              /\ pond' = [pond EXCEPT ![op.on] = NewPond(op, TRUE)]
              /\ Provision([p \in {op.on} |-> NewPond(op, TRUE)])
              /\ UNCHANGED <<device, component, deploymentVars>>
           \/ Lost(c, definitive, retryable)

ReadPond(c) ==
    /\ At(c, "update_pond", "begin")
    /\ IF There(PondRow(Op(c).on)) /\ PondRow(Op(c).on).version = Op(c).version
       THEN GoTo(c, "asset", [Saw(c) EXCEPT !.pond = pond[Op(c).on]])
       ELSE Refuse(c)

ReadPondAsset(c) ==
    /\ At(c, "update_pond", "asset")
    /\ GoTo(c, "profile", [Saw(c) EXCEPT !.asset = asset[Op(c).on]])

(* One of the two is missing: a commit fell between the reads. *)
ReadPondProfile(c) ==
    LET p == profile[Op(c).on]
    IN  /\ At(c, "update_pond", "profile")
        /\ IF There(p) # There(Saw(c).asset)
           THEN Race(c)
           ELSE GoTo(c, "commit", [Saw(c) EXCEPT !.profile = p, !.site = site])

(* The asset follows the pond as it is after the update; equal values are    *)
(* not rewritten, and an archived asset is never revived.                    *)
AssetAfter(row, after) ==
    IF row.name = after.name /\ (row.archived \/ ~after.archived) THEN row
    ELSE [name |-> after.name, archived |-> row.archived \/ after.archived,
          version |-> row.version + 1]
ProfileAfter(row, after) ==
    IF after.desc \in {"", row.desc} THEN row
    ELSE [desc |-> after.desc, version |-> row.version + 1]

UpdatePond(c) ==
    LET p     == Op(c).on
        saw   == Saw(c)
        after == PondAfter(saw.pond, Op(c))
        new   == ~There(saw.asset)
        definitive == pond[p].version = Op(c).version
        retryable ==
            IF new THEN ~There(asset[p]) /\ SiteAsSeen(c, TRUE)
            ELSE /\ AssetAfter(saw.asset, after) # saw.asset => asset[p] = saw.asset
                 /\ ProfileAfter(saw.profile, after) # saw.profile =>
                        profile[p] = saw.profile
    IN  /\ At(c, "update_pond", "commit")
        /\ \/ /\ definitive /\ retryable
              /\ Won(c)
              /\ PutSite(new)
              /\ pond' = [pond EXCEPT ![p] = [after EXCEPT !.linked = TRUE]]
              /\ IF new THEN Provision([q \in {p} |-> after])
                 ELSE /\ asset' = [asset EXCEPT ![p] = IF AssetAfter(saw.asset, after) = saw.asset
                                                       THEN @ ELSE AssetAfter(saw.asset, after)]
                      /\ profile' = [profile EXCEPT ![p] =
                                        IF ProfileAfter(saw.profile, after) = saw.profile
                                        THEN @ ELSE ProfileAfter(saw.profile, after)]
              /\ UNCHANGED <<device, component, deploymentVars>>
           \/ Lost(c, definitive, retryable)

-----------------------------------------------------------------------------
(* Devices *)

(* create_device: _legacy_pond_item, then _pond_target(active=True). *)
ReadDevicePond(c) ==
    /\ At(c, "create_device", "begin")
    /\ IF There(PondRow(Op(c).to))
       THEN GoTo(c, "target", [Saw(c) EXCEPT !.pond = pond[Op(c).to]])
       ELSE Refuse(c)

(* The asset decides whether the pond is active; without one the pond does.  *)
TargetIsActive(row, a) == IF There(a) THEN ~a.archived ELSE ~row.archived

ReadTarget(c) ==
    LET a == asset[Op(c).to]
    IN  /\ call[c].pc = "target"
        /\ Op(c).kind \in {"create_device", "update_device"}
        /\ IF TargetIsActive(Saw(c).pond, a)
           THEN GoTo(c, IF Op(c).kind = "create_device" THEN "commit" ELSE "component",
                     [Saw(c) EXCEPT !.asset = a, !.site = site])
           ELSE Refuse(c)

(* The ponds a plan provisions: those it read without an asset. *)
Unprojected(p, row, a) ==
    IF There(row) /\ ~There(a) THEN [q \in {p} |-> row] ELSE NoRows
TargetRows(c) == Unprojected(Op(c).to, Saw(c).pond, Saw(c).asset)

(* asset_check, at commit time. *)
TargetChecked(c) == There(Saw(c).asset) => IsActive(asset[Op(c).to])

CreateDevice(c) ==
    LET op   == Op(c)
        new  == [pond |-> op.to, retired |-> FALSE, version |-> 1, created |-> Floor(now),
                 updated |-> Floor(now), linked |-> TRUE]
        rows == TargetRows(c)
        definitive == ~There(device[op.on]) /\ TargetChecked(c)
        retryable ==
            /\ Provisionable(rows)
            /\ SiteAsSeen(c, rows # NoRows)
            /\ ~There(component[op.on])
            /\ InitialId(op.on) \notin DOMAIN deployment
            /\ current[op.on] = NoId
            /\ MarkerAt(op.on, 0)
    IN  /\ At(c, "create_device", "commit")
        /\ \/ /\ definitive /\ retryable
              /\ Won(c)
              /\ PutSite(rows # NoRows)
              /\ Link(rows)
              /\ Provision(rows)
              /\ device' = [device EXCEPT ![op.on] = new]
              /\ component' = [component EXCEPT ![op.on] = ComponentOf(new)]
              /\ PutOpen(InitialId(op.on), InitialDeployment(op.on, new, op.to), 0)
           \/ Lost(c, definitive, retryable)

ReadDeviceRow(c) ==
    LET row == device[Op(c).on]
    IN  /\ At(c, "update_device", "begin")
        /\ IF There(row) /\ row.version = Op(c).version
           THEN GoTo(c, IF Op(c).to \in {"-", row.pond} THEN "component" ELSE "target_pond",
                     [Saw(c) EXCEPT !.device = row, !.at = now])
           ELSE Refuse(c)

Moving(c) == Op(c).to \notin {"-", Saw(c).device.pond}

ReadTargetPond(c) ==
    /\ At(c, "update_device", "target_pond")
    /\ IF There(PondRow(Op(c).to))
       THEN GoTo(c, "target", [Saw(c) EXCEPT !.pond = pond[Op(c).to]])
       ELSE Refuse(c)

ReadDefaultComponent(c) ==
    /\ At(c, "update_device", "component")
    /\ GoTo(c, "marker", [Saw(c) EXCEPT !.component = component[Op(c).on]])

(* A device without its component is provisioned as the migration would: a   *)
(* retired one gets no deployment and cannot be moved.                       *)
ReadDeviceMarker(c) ==
    LET m   == marker[Op(c).on]
        saw == [Saw(c) EXCEPT !.seq = m.seq, !.last = m.last]
    IN  /\ At(c, "update_device", "marker")
        /\ IF There(saw.component) THEN GoTo(c, "current", saw)
           ELSE IF ~saw.device.retired THEN GoTo(c, "from", saw)
           ELSE IF Moving(c) THEN Refuse(c)
           ELSE GoTo(c, "commit", [saw EXCEPT !.plan = "component"])

(* _provision_device: the pond it was in may be gone. *)
ReadPreviousPond(c) ==
    LET row == PondRow(Saw(c).device.pond)
    IN  /\ At(c, "update_device", "from")
        /\ IF There(row) THEN GoTo(c, "from_asset", [Saw(c) EXCEPT !.from = row])
           ELSE GoTo(c, "commit",
                     [Saw(c) EXCEPT !.plan = IF Moving(c) THEN "fresh" ELSE "component"])

ReadPreviousAsset(c) ==
    LET p == Saw(c).device.pond
    IN  /\ At(c, "update_device", "from_asset")
        /\ GoTo(c, "commit",
                [Saw(c) EXCEPT !.fromAsset = asset[p],
                               !.site = site /\ (TargetRows(c) # NoRows => @),
                               !.plan = IF Moving(c) THEN "moved" ELSE "initial"])

(* With a component, what its CURRENT says decides. A device that stays      *)
(* where it is may find that CURRENT has drifted from its pond.              *)
ReadCurrent(c) ==
    LET i   == current[Op(c).on]
        saw == [Saw(c) EXCEPT !.current = i]
        Then(plan) == GoTo(c, "commit", [saw EXCEPT !.plan = plan])
    IN  /\ At(c, "update_device", "current")
        /\ IF Moving(c)
           THEN IF ~saw.component.active THEN Refuse(c)
                ELSE Then(IF i = NoId THEN "start"
                          ELSE IF deployment[i].asset = Op(c).to THEN "stay" ELSE "move")
           ELSE IF ~saw.component.active \/ i = NoId THEN Then("rows")
                ELSE GoTo(c, "drift", saw)

(* _reconcile_target: a pond that is missing or not active leaves CURRENT.   *)
ReadDriftPond(c) ==
    LET p   == Saw(c).device.pond
        row == PondRow(p)
    IN  /\ At(c, "update_device", "drift")
        /\ IF ~There(row) \/ deployment[Saw(c).current].asset = p
           THEN GoTo(c, "commit", [Saw(c) EXCEPT !.plan = "rows"])
           ELSE GoTo(c, "drift_asset", [Saw(c) EXCEPT !.pond = row])

ReadDriftAsset(c) ==
    LET a == asset[Saw(c).device.pond]
    IN  /\ At(c, "update_device", "drift_asset")
        /\ IF TargetIsActive(Saw(c).pond, a)
           THEN GoTo(c, "commit", [Saw(c) EXCEPT !.asset = a, !.site = site, !.plan = "move"])
           ELSE GoTo(c, "commit", [Saw(c) EXCEPT !.pond = NoPond, !.plan = "rows"])

(* Where the plan places the device. *)
Target(c) == IF Moving(c) THEN Op(c).to ELSE Saw(c).device.pond

(* What the plan provisions: the target, and the pond the device was in. *)
PlannedRows(c) ==
    LET saw    == Saw(c)
        target == Unprojected(Target(c), saw.pond, saw.asset)
        from   == IF saw.plan \in {"initial", "moved"}
                  THEN Unprojected(saw.device.pond, saw.from, saw.fromAsset) ELSE NoRows
    IN  [p \in DOMAIN target \cup DOMAIN from |->
            IF p \in DOMAIN target THEN target[p] ELSE from[p]]

DeviceAfter(c) ==
    [Saw(c).device EXCEPT !.pond = Target(c), !.updated = Floor(Saw(c).at),
                          !.version = @ + 1, !.linked = TRUE]

(* device_update, asset_check, component_check. *)
DeviceDefinitive(c) ==
    LET saw == Saw(c)
    IN  /\ device[Op(c).on].version = Op(c).version
        /\ There(saw.pond) /\ There(saw.asset) => IsActive(asset[Target(c)])
        /\ saw.plan \in {"start", "stay", "move"} => component[Op(c).on].active

(* component_put, deployment_put, deployment_end, current_put, marker. *)
DeviceRetryable(c) ==
    LET d     == Op(c).on
        saw   == Saw(c)
        rows  == PlannedRows(c)
        fresh == NewId(c) \notin DOMAIN deployment
        none  == current[d] = NoId /\ MarkerAt(d, 0)
    IN  /\ Provisionable(rows)
        /\ SiteAsSeen(c, rows # NoRows)
        /\ saw.plan \in {"component", "fresh", "initial", "moved"} => ~There(component[d])
        /\ CASE saw.plan \in {"rows", "component", "stay"} -> TRUE
             [] saw.plan = "fresh" -> none /\ fresh
             [] saw.plan = "initial" -> none /\ InitialId(d) \notin DOMAIN deployment
             [] saw.plan = "moved" ->
                    none /\ fresh /\ InitialId(d) \notin DOMAIN deployment
             [] saw.plan = "start" ->
                    /\ current[d] = NoId /\ fresh
                    /\ StartAllowed(d, saw.seq, Later(saw.at, saw.last))
             [] saw.plan = "move" ->
                    /\ current[d] = saw.current /\ fresh
                    /\ IsOpen(saw.current)
                    /\ MarkerAt(d, saw.seq)

PlaceDevice(c) ==
    LET d   == Op(c).on
        saw == Saw(c)
        initial == InitialDeployment(d, saw.device, saw.device.pond)
        StartAt(t) == Deployment(d, Target(c), t)
        moved == StartAt(TransitionInstant(saw.at, initial.start))
    IN  CASE saw.plan \in {"rows", "component", "stay"} -> UNCHANGED deploymentVars
          [] saw.plan = "fresh" -> PutOpen(NewId(c), StartAt(saw.at), 0)
          [] saw.plan = "initial" -> PutOpen(InitialId(d), initial, 0)
          [] saw.plan = "moved" ->
                /\ deployment' = [i \in DOMAIN deployment \cup {InitialId(d), NewId(c)} |->
                                     CASE i = InitialId(d) -> Ended(initial, moved.start)
                                       [] i = NewId(c) -> moved
                                       [] OTHER -> deployment[i]]
                /\ current' = [current EXCEPT ![d] = NewId(c)]
                /\ marker' = [marker EXCEPT ![d] = [seq |-> 2, last |-> moved.start]]
          [] saw.plan = "start" -> PutOpen(NewId(c), StartAt(Later(saw.at, saw.last)), 0)
          [] saw.plan = "move" ->
                PutMove(saw.current, NewId(c),
                        StartAt(TransitionInstant(saw.at, deployment[saw.current].start)))

UpdateDevice(c) ==
    LET d    == Op(c).on
        rows == PlannedRows(c)
    IN  /\ At(c, "update_device", "commit")
        /\ \/ /\ DeviceDefinitive(c) /\ DeviceRetryable(c)
              /\ Won(c)
              /\ PutSite(rows # NoRows)
              /\ Link(rows)
              /\ Provision(rows)
              /\ device' = [device EXCEPT ![d] = DeviceAfter(c)]
              /\ component' = [component EXCEPT ![d] =
                    IF There(Saw(c).component) THEN @ ELSE ComponentOf(Saw(c).device)]
              /\ PlaceDevice(c)
           \/ Lost(c, DeviceDefinitive(c), DeviceRetryable(c))

ProjectionStep(c) ==
    \/ ReadSiteForPond(c) \/ CreatePond(c)
    \/ ReadPond(c) \/ ReadPondAsset(c) \/ ReadPondProfile(c) \/ UpdatePond(c)
    \/ ReadDevicePond(c) \/ ReadTarget(c) \/ CreateDevice(c)
    \/ ReadDeviceRow(c) \/ ReadTargetPond(c) \/ ReadDefaultComponent(c)
    \/ ReadDeviceMarker(c) \/ ReadPreviousPond(c) \/ ReadPreviousAsset(c)
    \/ ReadCurrent(c) \/ ReadDriftPond(c) \/ ReadDriftAsset(c) \/ UpdateDevice(c)
=============================================================================
