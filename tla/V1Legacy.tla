------------------------------ MODULE V1Legacy ------------------------------
(***************************************************************************)
(* The other writers of the rows a projection ties together: the /v1       *)
(* repository with the projection off (DynamoDomainRepository), which      *)
(* knows nothing of the v2 rows, and the /v2 updates of an asset linked to *)
(* a pond, of a default component and of a device that /v1 shares.         *)
(***************************************************************************)
EXTENDS V1Store

(* A row the legacy repository writes carries no links; an update keeps      *)
(* those that are there.                                                     *)
LegacyCreatePond(c) ==
    LET op == Op(c)
    IN  /\ At(c, "legacy_create_pond", "begin")
        /\ \/ /\ ~There(pond[op.on])
              /\ Won(c)
              /\ pond' = [pond EXCEPT ![op.on] = NewPond(op, FALSE)]
              /\ UNCHANGED <<site, asset, profile, device, component, deploymentVars>>
           \/ There(pond[op.on]) /\ Refuse(c)

LegacyReadPond(c) ==
    /\ At(c, "legacy_update_pond", "begin")
    /\ IF There(pond[Op(c).on]) THEN GoTo(c, "commit", Unread) ELSE Refuse(c)

LegacyUpdatePond(c) ==
    LET op == Op(c)
    IN  /\ At(c, "legacy_update_pond", "commit")
        /\ \/ /\ pond[op.on].version = op.version
              /\ Won(c)
              /\ pond' = [pond EXCEPT ![op.on] = PondAfter(@, op)]
              /\ UNCHANGED <<site, asset, profile, device, component, deploymentVars>>
           \/ pond[op.on].version # op.version /\ Refuse(c)

(* The device row and its lookup. The pond is not looked at. *)
LegacyCreateDevice(c) ==
    LET op == Op(c)
    IN  /\ At(c, "legacy_create_device", "begin")
        /\ \/ /\ ~There(device[op.on])
              /\ Won(c)
              /\ device' = [device EXCEPT ![op.on] =
                               [pond |-> op.to, retired |-> FALSE, version |-> 1,
                                created |-> Floor(now), updated |-> Floor(now),
                                linked |-> FALSE]]
              /\ UNCHANGED <<site, pond, asset, profile, component, deploymentVars>>
           \/ There(device[op.on]) /\ Refuse(c)

LegacyReadDevice(c) ==
    /\ At(c, "legacy_update_device", "begin")
    /\ IF There(device[Op(c).on]) THEN GoTo(c, "commit", Unread) ELSE Refuse(c)

LegacyUpdateDevice(c) ==
    LET op == Op(c)
    IN  /\ At(c, "legacy_update_device", "commit")
        /\ \/ /\ device[op.on].version = op.version
              /\ Won(c)
              /\ device' = [device EXCEPT ![op.on].pond = IF op.to = "-" THEN @ ELSE op.to,
                                          ![op.on].version = @ + 1,
                                          ![op.on].updated = Floor(now)]
              /\ UNCHANGED <<site, pond, asset, profile, component, deploymentVars>>
           \/ device[op.on].version # op.version /\ Refuse(c)

(* update_tenant: the row the default site is named after. *)
UpdateTenant(c) ==
    /\ At(c, "update_tenant", "begin")
    /\ \/ /\ tenant = Op(c).version
          /\ tenant' = tenant + 1
          /\ call' = [call EXCEPT ![c] = Done(c, "ok")]
          /\ UNCHANGED <<now, horizon, site, pond, asset, profile, device, component,
                         deploymentVars>>
       \/ tenant # Op(c).version /\ Refuse(c)

-----------------------------------------------------------------------------
(* AssetService.update, its checks; op.profile is the version sent with a    *)
(* description, 0 without one.                                               *)
PatchReadAsset(c) ==
    LET op == Op(c)
    IN  /\ At(c, "patch_asset", "begin")
        /\ IF /\ There(asset[op.on])
              /\ asset[op.on].version = op.version
              /\ op.profile \in {0, profile[op.on].version}
           THEN GoTo(c, "mirror", Unread)
           ELSE Refuse(c)

(* _legacy_pond_mirror: the linked pond row is fenced on the version read.   *)
PatchReadPond(c) ==
    /\ At(c, "patch_asset", "mirror")
    /\ GoTo(c, "commit", [Unread EXCEPT !.pond = pond[Op(c).on]])

PatchedAsset(row, op) ==
    [name |-> IF op.name = "-" THEN row.name ELSE op.name,
     archived |-> row.archived \/ op.archive, version |-> row.version + 1]
MirroredPond(row, op) == [PondAfter(row, op) EXCEPT !.archived = @ \/ op.archive]

PatchAsset(c) ==
    LET op == Op(c)
        fenced == /\ asset[op.on].version = op.version
                  /\ op.profile \in {0, profile[op.on].version}
                  /\ pond[op.on].version = Saw(c).pond.version
    IN  /\ At(c, "patch_asset", "commit")
        /\ \/ /\ fenced
              /\ Won(c)
              /\ asset' = [asset EXCEPT ![op.on] = PatchedAsset(@, op)]
              /\ profile' = IF op.profile = 0 THEN profile
                            ELSE [profile EXCEPT ![op.on].desc = op.desc,
                                                 ![op.on].version = @ + 1]
              /\ pond' = [pond EXCEPT ![op.on] = MirroredPond(@, op)]
              /\ UNCHANGED <<site, device, component, deploymentVars>>
           \/ ~fenced /\ Refuse(c)

(* /v2 retires a default component, or the device itself. *)
PatchReadComponent(c) ==
    LET row == component[Op(c).on]
    IN  /\ At(c, "patch_component", "begin")
        /\ IF There(row) /\ row.version = Op(c).version THEN GoTo(c, "commit", Unread)
           ELSE Refuse(c)

PatchComponent(c) ==
    LET op == Op(c)
    IN  /\ At(c, "patch_component", "commit")
        /\ \/ /\ component[op.on].version = op.version
              /\ Won(c)
              /\ component' = [component EXCEPT ![op.on] =
                                  [active |-> FALSE, version |-> @.version + 1]]
              /\ UNCHANGED <<site, pond, asset, profile, device, deploymentVars>>
           \/ component[op.on].version # op.version /\ Refuse(c)

PatchReadDevice(c) ==
    LET row == device[Op(c).on]
    IN  /\ At(c, "patch_device", "begin")
        /\ IF There(row) /\ row.version = Op(c).version THEN GoTo(c, "commit", Unread)
           ELSE Refuse(c)

PatchDevice(c) ==
    LET op == Op(c)
    IN  /\ At(c, "patch_device", "commit")
        /\ \/ /\ device[op.on].version = op.version
              /\ Won(c)
              /\ device' = [device EXCEPT ![op.on].retired = TRUE, ![op.on].version = @ + 1,
                                          ![op.on].updated = Later(Floor(now), @)]
              /\ UNCHANGED <<site, pond, asset, profile, component, deploymentVars>>
           \/ device[op.on].version # op.version /\ Refuse(c)

LegacyStep(c) ==
    \/ LegacyCreatePond(c) \/ LegacyReadPond(c) \/ LegacyUpdatePond(c)
    \/ LegacyCreateDevice(c) \/ LegacyReadDevice(c) \/ LegacyUpdateDevice(c)
    \/ UpdateTenant(c)
    \/ PatchReadAsset(c) \/ PatchReadPond(c) \/ PatchAsset(c)
    \/ PatchReadComponent(c) \/ PatchComponent(c)
    \/ PatchReadDevice(c) \/ PatchDevice(c)
=============================================================================
