---------------------------- MODULE MCProjection ----------------------------
(***************************************************************************)
(* An instance of ProjectionPipeline for TLC: the state a tenant is in     *)
(* when the migration starts, and the calls that race with it.             *)
(***************************************************************************)
EXTENDS ProjectionPipeline, TLC

MCPonds == {"p1", "p2"}
MCDevices == {"d1", "d2"}
MCPondOrder == <<"p1", "p2">>
MCDeviceOrder == <<"d1", "d2">>

Op0 == [kind |-> "none", on |-> "", to |-> "-", version |-> 1, profile |-> 0,
        name |-> "-", desc |-> "-", archive |-> FALSE]
NewPondOp(kind, p) == [Op0 EXCEPT !.kind = kind, !.on = p, !.name = "new", !.desc = "new"]
Rename(kind, p, v) == [Op0 EXCEPT !.kind = kind, !.on = p, !.version = v, !.name = "b"]
Put(kind, d, p) == [Op0 EXCEPT !.kind = kind, !.on = d, !.to = p]
Move(kind, v, p) == [Op0 EXCEPT !.kind = kind, !.on = "d1", !.version = v, !.to = p]
Archive(p) == [Op0 EXCEPT !.kind = "patch_asset", !.on = p, !.archive = TRUE]
Describe(p) ==
    [Op0 EXCEPT !.kind = "patch_asset", !.on = p, !.name = "c", !.desc = "c", !.profile = 1]
Retire(kind) == [Op0 EXCEPT !.kind = kind, !.on = "d1"]

APond(linked) == [name |-> "a", desc |-> "a", archived |-> FALSE, version |-> 1,
                  linked |-> linked]
ADevice(p, v, linked) == [pond |-> p, retired |-> FALSE, version |-> v, created |-> 2,
                          updated |-> 2, linked |-> linked]
Two(x, y) == "p1" :> x @@ "p2" :> y
Dev(x) == "d1" :> x @@ "d2" :> NoDevice

(* Nothing is projected yet; p2 may not be there. *)
Legacy(second, at) ==
    [now |-> 3, horizon |-> 3, runs |-> 1, site |-> FALSE,
     pond |-> Two(APond(FALSE), second), asset |-> Two(NoAsset, NoAsset),
     profile |-> Two(NoProfile, NoProfile), device |-> Dev(ADevice(at, 1, FALSE)),
     component |-> [d \in MCDevices |-> NoComponent],
     deployment |-> [i \in {} |-> Deployment("d1", "p1", 2)],
     current |-> [d \in MCDevices |-> NoId], marker |-> [d \in MCDevices |-> NoMarker]]

(* Both ponds and the device are projected; the legacy row says where it is. *)
Projection(at, v) ==
    [Legacy(APond(TRUE), at) EXCEPT
        !.site = TRUE, !.pond = Two(APond(TRUE), APond(TRUE)),
        !.asset = Two(AssetOf(APond(TRUE)), AssetOf(APond(TRUE))),
        !.profile = Two(ProfileOf(APond(TRUE)), ProfileOf(APond(TRUE))),
        !.device = Dev(ADevice(at, v, TRUE)),
        !.component = [d \in MCDevices |-> IF d = "d1" THEN [active |-> TRUE, version |-> 1]
                                                     ELSE NoComponent],
        !.deployment = InitialId("d1") :> Deployment("d1", "p1", 2),
        !.current = [d \in MCDevices |-> IF d = "d1" THEN InitialId("d1") ELSE NoId],
        !.marker = [d \in MCDevices |-> IF d = "d1" THEN [seq |-> 1, last |-> 0]
                                                  ELSE NoMarker]]

Calls(cs) == [c \in {<<"x", "y", "z">>[i] : i \in 1..Len(cs)} |->
                 cs[CHOOSE i \in 1..Len(cs) : <<"x", "y", "z">>[i] = c]]
With(w, cs) == [f \in DOMAIN w \cup {"calls"} |-> IF f = "calls" THEN Calls(cs) ELSE w[f]]

(* The migration starts from nothing while devices move, ponds appear behind *)
(* its cursor and rows change under it.                                      *)
Backfills ==
    {With(Legacy(p2, "p1"), cs) : p2 \in {NoPond, APond(FALSE)},
        cs \in {<<Move("update_device", 1, "p2"), Move("update_device", 2, "p1"),
                  Retire("patch_component")>>,
                <<NewPondOp("create_pond", "p2"), Move("legacy_update_device", 1, "p2"),
                  Move("update_device", 2, "p1")>>,
                <<NewPondOp("legacy_create_pond", "p2"), Put("create_device", "d2", "p2"),
                  Move("legacy_update_device", 1, "p2")>>,
                <<Rename("update_pond", "p1", 1), Rename("legacy_update_pond", "p1", 2),
                  Archive("p1")>>,
                <<Rename("legacy_update_pond", "p1", 1), Rename("legacy_update_pond", "p2", 1)>>,
                <<Put("legacy_create_device", "d2", "p1"), [Op0 EXCEPT !.kind = "update_tenant"],
                  Retire("patch_device")>>,
                <<Describe("p1"), Archive("p1"), Move("update_device", 1, "-")>>}}

(* Everything is projected, or has drifted; writers race for the same rows   *)
(* and the migration repairs what it sees.                                   *)
Repairs ==
    {With([Projection(at, 1) EXCEPT !.horizon = 4, !.runs = 2], cs) : at \in {"p1", "p2"},
        cs \in {<<Move("update_device", 1, "p2"), Move("legacy_update_device", 2, "p1")>>,
                <<Move("legacy_update_device", 1, "p2"), Move("update_device", 2, "-")>>,
                <<Move("update_device", 1, "p1"), Archive("p1")>>,
                <<Move("update_device", 1, "p2"), Retire("patch_component")>>,
                <<Rename("update_pond", "p1", 1), Describe("p1")>>}}

(* A device whose pond does not exist, which a /v1 move brings back, and one *)
(* that is retired.                                                          *)
Danglers ==
    {With(Legacy(APond(FALSE), "p9"), cs) :
        cs \in {<<Move("update_device", 1, "-"), Move("update_device", 2, "p1")>>,
                <<Move("legacy_update_device", 1, "p2"), Move("legacy_update_device", 2, "p1")>>,
                <<Move("update_device", 1, "p1"), Put("create_device", "d1", "p1")>>}}
Retired ==
    {With([Legacy(APond(FALSE), "p1") EXCEPT !.device["d1"].retired = TRUE], cs) :
        cs \in {<<Move("update_device", 1, "-"), Move("update_device", 1, "p2")>>}}

MCWorkloads == Backfills \cup Repairs \cup Danglers \cup Retired
=============================================================================
