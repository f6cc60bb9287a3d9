------------------------------ MODULE V1Store ------------------------------
(***************************************************************************)
(* /v1 ponds and devices and their projection onto the v2 rows: an asset   *)
(* and its pond profile for a pond, a default component with its           *)
(* deployments for a device. One tenant, its default site.                 *)
(*                                                                         *)
(* The writers are the /v1 repository with the projection on, the one with *)
(* the projection off, and the /v2 updates that touch the same rows. All   *)
(* of them read rows one by one and commit one transaction fenced on what  *)
(* was read. An asset is named by its pond, a component by its device: the *)
(* ids are derived from one another and links never hold any other value.  *)
(* A device's lookup row and a component's mirror row are full copies that *)
(* every writer changes together with the row; one variable stands for     *)
(* both. The default site is never archived (Registry, ReadSite), so it is *)
(* there or not. A row with version 0 is absent. Time is counted in half   *)
(* seconds, /v1 timestamps in whole ones.                                  *)
(***************************************************************************)
EXTENDS DeploymentStore

CONSTANTS
    Ponds,
    Workloads,   \* bound: the rows before, the calls that race, and for how long
    MaxAttempts  \* MAX_ATTEMPTS of a projection transaction

VARIABLES
    now, horizon,
    tenant,     \* the tenant row's version
    site,       \* is the default site there?
    pond, asset, profile,  \* by pond
    device, component,     \* by device
    call        \* call -> its operation, how far its handler is, what it has read

rowVars == <<tenant, site, pond, asset, profile, device, component>>
projectionVars == <<now, horizon, rowVars, call>>

NoPond == [name |-> "", desc |-> "", archived |-> FALSE, version |-> 0, linked |-> FALSE]
NoAsset == [name |-> "", archived |-> FALSE, version |-> 0]
NoProfile == [desc |-> "", version |-> 0]
NoDevice == [pond |-> "", retired |-> FALSE, version |-> 0, created |-> 0,
             updated |-> 0, linked |-> FALSE]
NoComponent == [active |-> FALSE, version |-> 0]

There(row) == row.version # 0
PondRow(p) == IF p \in Ponds THEN pond[p] ELSE NoPond
IsActive(row) == There(row) /\ ~row.archived

(* legacy_now: whole seconds. *)
Floor(t) == 2 * (t \div 2)
Later(t, u) == IF t < u THEN u ELSE t

(* asset_and_profile_for_legacy_pond, component_for_legacy_device,           *)
(* deployment_for_legacy_device and its deterministic id.                    *)
AssetOf(row) == [name |-> row.name, archived |-> row.archived, version |-> row.version]
ProfileOf(row) == [desc |-> row.desc, version |-> row.version]
ComponentOf(row) == [active |-> ~row.retired, version |-> 1]
InitialDeployment(d, row, p) == Deployment(d, p, row.created)
InitialId(d) == <<d, 0>>

(* A pond as a request creates it, and as one leaves it: "-" stands for a    *)
(* field that is not sent.                                                   *)
NewPond(op, linked) ==
    [name |-> op.name, desc |-> op.desc, archived |-> FALSE, version |-> 1,
     linked |-> linked]

PondAfter(row, op) ==
    [row EXCEPT !.name = IF op.name = "-" THEN @ ELSE op.name,
                !.desc = IF op.desc = "-" THEN @ ELSE op.desc,
                !.version = @ + 1]

(* transition_instant: never at or before the start of the interval it ends. *)
TransitionInstant(t, start) == Later(t, start + 1)

-----------------------------------------------------------------------------
(* The course of a call. *)

Op(c) == call[c].op
Saw(c) == call[c].saw
At(c, kind, pc) == call[c].op.kind = kind /\ call[c].pc = pc
NewId(c) == <<c, call[c].try>>

Unread == [pond |-> NoPond, asset |-> NoAsset, profile |-> NoProfile, device |-> NoDevice,
           from |-> NoPond, fromAsset |-> NoAsset, component |-> NoComponent,
           seq |-> 0, last |-> 0, current |-> NoId, site |-> FALSE, plan |-> "none",
           at |-> 0]

GoTo(c, pc, saw) ==
    /\ call' = [call EXCEPT ![c].pc = pc, ![c].saw = saw]
    /\ UNCHANGED <<now, horizon, rowVars, deploymentVars>>

Done(c, out) == [call[c] EXCEPT !.pc = out, !.saw = Unread]

(* 404, 409: nothing is written. *)
Refuse(c) ==
    /\ call' = [call EXCEPT ![c] = Done(c, "refused")]
    /\ UNCHANGED <<now, horizon, rowVars, deploymentVars>>

(* _transact plans again from the start, MAX_ATTEMPTS times in all. *)
Again(c) ==
    IF call[c].try < MaxAttempts
    THEN [call[c] EXCEPT !.pc = "begin", !.saw = Unread, !.try = @ + 1]
    ELSE Done(c, "refused")

Race(c) ==
    /\ call' = [call EXCEPT ![c] = Again(c)]
    /\ UNCHANGED <<now, horizon, rowVars, deploymentVars>>

(* A transaction whose conditions fail: a definitive label is a conflict,    *)
(* a retryable one (_RETRYABLE_LABELS) is planned again.                     *)
Lost(c, definitive, retryable) ==
    \/ /\ ~definitive
       /\ Refuse(c)
    \/ /\ definitive
       /\ ~retryable
       /\ Race(c)

Won(c) ==
    /\ call' = [call EXCEPT ![c] = Done(c, "ok")]
    /\ UNCHANGED <<now, horizon, tenant>>

(* _put_asset_and_profile and _pond_links of the ponds in rows. *)
Provision(rows) ==
    /\ asset' = [p \in Ponds |-> IF p \in DOMAIN rows THEN AssetOf(rows[p]) ELSE asset[p]]
    /\ profile' = [p \in Ponds |-> IF p \in DOMAIN rows THEN ProfileOf(rows[p]) ELSE profile[p]]

Link(rows) ==
    pond' = [p \in Ponds |-> IF p \in DOMAIN rows THEN [pond[p] EXCEPT !.linked = TRUE]
                                                   ELSE pond[p]]

Provisionable(rows) ==
    \A p \in DOMAIN rows : ~There(asset[p]) /\ pond[p].version = rows[p].version

(* _default_site: put when absent, checked otherwise. *)
SiteAsSeen(c, needed) == needed /\ ~Saw(c).site => ~site
PutSite(needed) == site' = (site \/ needed)

NoRows == [p \in {} |-> NoPond]
=============================================================================
