------------------------------ MODULE Registry ------------------------------
(***************************************************************************)
(* Sites, assets with their pond profile, devices, components and their    *)
(* capabilities, as the /v2 services and repositories write them.          *)
(*                                                                         *)
(* A device has a global lookup row and a component a tenant mirror row;   *)
(* they are copies that the same transactions keep.                        *)
(***************************************************************************)
EXTENDS V2Store

CONSTANT DefaultSite  \* default_site_id(tenant_id)

Site(i) == <<"site", i>>
Asset(i) == <<"asset", i>>
Profile(i) == <<"profile", i>>
Device(i) == <<"device", i>>
DeviceLookup(i) == <<"device_lookup", i>>
Component(i) == <<"component", i>>
ComponentMirror(i) == <<"component_mirror", i>>
Capability(i) == <<"capability", i>>

SiteTransitions == [active |-> {"archived"}]
AssetTransitions == [active |-> {"archived"}]
DeviceTransitions ==
    [provisioning |-> {"active", "suspended", "decommissioned"},
     active       |-> {"suspended", "decommissioned"},
     suspended    |-> {"active", "decommissioned"}]
ComponentTransitions == [active |-> {"replaced", "decommissioned"}]
TerminalComponent == {"replaced", "decommissioned"}

Allows(from, to, allowed) == to = "-" \/ MayBecome(from, to, allowed)

-----------------------------------------------------------------------------
(* Sites *)

BuildSite(c) ==
    /\ At(c, "create_site", "read")
    /\ Build(c, "commit", 0)

PutSite(c) ==
    /\ At(c, "create_site", "commit")
    /\ TransactCreate(c, Absent(Site(NewId(c))),
                      [k \in {Site(NewId(c))} |-> Entity("active", <<>>)],
                      ~ReceiptFree(Op(c).key))

(* SiteService.update, its checks: the default site is never archived. *)
ReadSite(c) ==
    LET op == Op(c)  row == Row(Site(Op(c).on))
    IN  /\ At(c, "update_site", "begin")
        /\ IF /\ row # NoRow
              /\ row.version = op.version
              /\ Allows(row.status, op.to, SiteTransitions)
              /\ ~(op.to = "archived" /\ row.status # "archived" /\ op.on = DefaultSite)
           THEN Proceed(c, "commit", 0)
           ELSE Refuse(c)

UpdateSite(c) ==
    LET k == Site(Op(c).on)
    IN  /\ At(c, "update_site", "commit")
        /\ TransactUpdate(c, AtVersion(k, Op(c).version),
                          [x \in {k} |-> Changed(table[k], Op(c).to)], {})

-----------------------------------------------------------------------------
(* Assets *)

ReadAssetSite(c) ==
    /\ At(c, "create_asset", "read")
    /\ IF HasStatus(Site(Op(c).on), {"active"})
       THEN Build(c, "commit", 0)
       ELSE Refuse(c)

AssetRows(c) ==
    [k \in {Asset(NewId(c)), Profile(NewId(c))} |-> Entity("active", <<Op(c).on>>)]

(* The site may have been archived after the service looked. *)
PutAssetUnfenced(c) ==
    /\ At(c, "create_asset", "commit")
    /\ TransactCreate(c, Absent(Asset(NewId(c))), AssetRows(c), ~ReceiptFree(Op(c).key))
PutAsset(c) ==
    /\ At(c, "create_asset", "commit")
    /\ TransactCreate(c, /\ Absent(Asset(NewId(c)))
                         /\ HasStatus(Site(Op(c).on), {"active"}),
                      AssetRows(c), ~ReceiptFree(Op(c).key))

(* AssetService.update, its checks; op.profile is the profile version sent   *)
(* with a new description, 0 without one.                                    *)
ReadAsset(c) ==
    LET op == Op(c)  row == Row(Asset(Op(c).on))
    IN  /\ At(c, "update_asset", "begin")
        /\ IF /\ row # NoRow
              /\ row.version = op.version
              /\ op.profile \in {0, Row(Profile(op.on)).version}
              /\ Allows(row.status, op.to, AssetTransitions)
           THEN Proceed(c, "commit", 0)
           ELSE Refuse(c)

(* One transaction; a pond profile linked to a /v1 pond is V1Projection's.   *)
UpdateAsset(c) ==
    LET op      == Op(c)
        k       == Asset(op.on)
        p       == Profile(op.on)
        touched == {k} \cup (IF op.profile = 0 THEN {} ELSE {p})
    IN  /\ At(c, "update_asset", "commit")
        /\ TransactUpdate(c, /\ AtVersion(k, op.version)
                             /\ op.profile = 0 \/ AtVersion(p, op.profile),
                          [x \in touched |-> Changed(table[x], IF x = k THEN op.to ELSE "-")],
                          {})

-----------------------------------------------------------------------------
(* Devices *)

BuildDevice(c) ==
    /\ At(c, "create_device", "read")
    /\ Build(c, "commit", 0)

PutDevice(c) ==
    LET keys == {Device(NewId(c)), DeviceLookup(NewId(c))}
    IN  /\ At(c, "create_device", "commit")
        /\ TransactCreate(c, \A k \in keys : Absent(k),
                          [k \in keys |-> Entity("active", <<>>)], TRUE)

(* DeviceV2Service.update looks first, with an eventually consistent read... *)
ReadDevice(c) ==
    /\ At(c, "update_device", "begin")
    /\ \E row \in MaySee(Device(Op(c).on)) :
          IF row # NoRow /\ Allows(row.status, Op(c).to, DeviceTransitions)
          THEN Proceed(c, "fence", 0)
          ELSE Refuse(c)

(* ... and the repository again, consistently. *)
FenceDevice(c) ==
    LET row == Row(Device(Op(c).on))
    IN  /\ At(c, "update_device", "fence")
        /\ IF /\ row.version = Op(c).version
              /\ Allows(row.status, Op(c).to, DeviceTransitions)
           THEN Proceed(c, "commit", 0)
           ELSE Refuse(c)

UpdateDeviceRow(c) ==
    LET k == Device(Op(c).on)
    IN  /\ At(c, "update_device", "commit")
        /\ TransactUpdate(c, AtVersion(k, Op(c).version),
                          [x \in {k} |-> Changed(table[x], Op(c).to)], {})
UpdateDevice(c) ==
    LET keys == {Device(Op(c).on), DeviceLookup(Op(c).on)}
    IN  /\ At(c, "update_device", "commit")
        /\ TransactUpdate(c, \A k \in keys : AtVersion(k, Op(c).version),
                          [k \in keys |-> Changed(table[k], Op(c).to)], {})

-----------------------------------------------------------------------------
(* Components *)

ReadComponentDevice(c) ==
    /\ At(c, "create_component", "read")
    /\ \E row \in MaySee(Device(Op(c).on)) :
          IF row # NoRow /\ row.status # "decommissioned"
          THEN Build(c, "fence", 0)
          ELSE Refuse(c)

(* A device that is decommissioned by now is a conflict of persist(), after  *)
(* which the receipt is read again; a missing one is not.                    *)
FenceComponentDevice(c) ==
    LET row == Row(Device(Op(c).on))
    IN  /\ At(c, "create_component", "fence")
        /\ IF row.status = "decommissioned"
           THEN Proceed(c, "reread", 0)
           ELSE Proceed(c, "commit", row.version)

(* The parent is fenced on the version observed. *)
PutComponent(c) ==
    LET keys == {Component(NewId(c)), ComponentMirror(NewId(c))}
    IN  /\ At(c, "create_component", "commit")
        /\ TransactCreate(c, /\ \A k \in keys : Absent(k)
                             /\ AtVersion(Device(Op(c).on), call[c].saw),
                          [k \in keys |-> Entity("active", <<Op(c).on>>)], TRUE)

ReadComponent(c) ==
    /\ At(c, "update_component", "begin")
    /\ \E row \in MaySee(Component(Op(c).on)) :
          IF row # NoRow /\ Allows(row.status, Op(c).to, ComponentTransitions)
          THEN Proceed(c, "fence", 0)
          ELSE Refuse(c)

FenceComponent(c) ==
    LET row == Row(Component(Op(c).on))
    IN  /\ At(c, "update_component", "fence")
        /\ IF /\ row.version = Op(c).version
              /\ Allows(row.status, Op(c).to, ComponentTransitions)
           THEN Proceed(c, "commit", 0)
           ELSE Refuse(c)

UpdateComponent(c) ==
    LET keys == {Component(Op(c).on), ComponentMirror(Op(c).on)}
    IN  /\ At(c, "update_component", "commit")
        /\ TransactUpdate(c, \A k \in keys : AtVersion(k, Op(c).version),
                          [k \in keys |-> Changed(table[k], Op(c).to)], {})

-----------------------------------------------------------------------------
(* Capabilities *)

ReadCapabilityComponent(c) ==
    /\ At(c, "create_capability", "read")
    /\ \E row \in MaySee(Component(Op(c).on)) :
          IF row # NoRow /\ row.status \notin TerminalComponent
          THEN Build(c, "fence", 0)
          ELSE Refuse(c)

FenceCapabilityComponent(c) ==
    LET row == Row(Component(Op(c).on))
    IN  /\ At(c, "create_capability", "fence")
        /\ IF row.status \in TerminalComponent
           THEN Proceed(c, "reread", 0)
           ELSE Proceed(c, "commit", row.version)

PutCapability(c) ==
    LET k == Capability(NewId(c))
    IN  /\ At(c, "create_capability", "commit")
        /\ TransactCreate(c, /\ Absent(k)
                             /\ AtVersion(Component(Op(c).on), call[c].saw),
                          [x \in {k} |-> Entity("active", <<Op(c).on>>)], TRUE)

RegistryStep(c) ==
    \/ BuildSite(c) \/ PutSite(c) \/ ReadSite(c) \/ UpdateSite(c)
    \/ ReadAssetSite(c) \/ PutAsset(c) \/ ReadAsset(c) \/ UpdateAsset(c)
    \/ BuildDevice(c) \/ PutDevice(c)
    \/ ReadDevice(c) \/ FenceDevice(c) \/ UpdateDevice(c)
    \/ ReadComponentDevice(c) \/ FenceComponentDevice(c) \/ PutComponent(c)
    \/ ReadComponent(c) \/ FenceComponent(c) \/ UpdateComponent(c)
    \/ ReadCapabilityComponent(c) \/ FenceCapabilityComponent(c) \/ PutCapability(c)
=============================================================================
