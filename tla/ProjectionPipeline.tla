------------------------- MODULE ProjectionPipeline -------------------------
(***************************************************************************)
(* The migration running beside the writers it must not disturb: /v1 with  *)
(* the projection on, /v1 with it off (instances not restarted yet), and   *)
(* /v2.                                                                    *)
(***************************************************************************)
EXTENDS V1Projection, V1Legacy, Migration

(* A workload gives the rows before, the calls, how often the migration may  *)
(* be started and how far the clock may go.                                  *)
Arrived(op) == [op |-> op, pc |-> "begin", saw |-> Unread, try |-> 1]

Init ==
    \E w \in Workloads :
        /\ now = w.now
        /\ horizon = w.horizon
        /\ tenant = 1
        /\ site = w.site
        /\ pond = w.pond
        /\ asset = w.asset
        /\ profile = w.profile
        /\ device = w.device
        /\ component = w.component
        /\ deployment = w.deployment
        /\ current = w.current
        /\ marker = w.marker
        /\ call = [c \in DOMAIN w.calls |-> Arrived(w.calls[c])]
        /\ mig = [Idle EXCEPT !.runs = w.runs]

Tick ==
    /\ now < horizon
    /\ now' = now + 1
    /\ UNCHANGED <<horizon, rowVars, call, deploymentVars, mig>>

CallStep ==
    /\ \E c \in DOMAIN call : ProjectionStep(c) \/ LegacyStep(c)
    /\ UNCHANGED mig

Next == CallStep \/ MigrationStep \/ Tick

Spec == Init /\ [][Next]_<<migrationVars, deploymentVars>>

-----------------------------------------------------------------------------
(* Every row is well formed and every pointer names a row that is there. *)
TypeOK ==
    /\ DOMAIN pond = Ponds /\ DOMAIN asset = Ponds /\ DOMAIN device = Components
    /\ \A p \in Ponds : There(asset[p]) <=> There(profile[p])
    /\ \A p \in Ponds : There(asset[p]) => There(pond[p]) /\ site
    /\ \A d \in Components : There(component[d]) => There(device[d])
    /\ \A d \in Components : marker[d].seq # 0 => There(component[d])
    /\ \A d \in Components : current[d] # NoId => current[d] \in DOMAIN deployment

Wrote(kinds) ==
    \E c \in DOMAIN call :
        call[c].op.kind \in kinds /\ call[c].pc # "ok" /\ call'[c].pc = "ok"

Placed(d) == current[d] # NoId => deployment[current[d]].asset = device[d].pond

Leaves(d) == Placed(d) /\ ~Placed(d)'

(* A /v1 move that found CURRENT already on its target and left it alone. *)
Stayed(d) ==
    \E c \in DOMAIN call :
        /\ call[c].op.on = d /\ call[c].saw.plan = "stay"
        /\ call'[c].pc = "ok"

Mirrored(p) ==
    There(asset[p]) =>
        /\ asset[p].name = pond[p].name
        /\ asset[p].archived = pond[p].archived
        /\ profile[p].desc = pond[p].desc

(* What /v1 says and what /v2 says stay together. A device's open deployment *)
(* is on the asset of the pond its legacy row names, and an asset says what  *)
(* its pond says: neither the migration's repair or backfill, however stale  *)
(* the rows it planned from, nor a projected write that races another parts  *)
(* them. A /v1 write with the projection off does, and a move that leaves    *)
(* CURRENT alone (PlacementFenced).                                          *)
CopiesKept ==
    [][/\ \A d \in Components :
             Leaves(d) => Wrote({"legacy_update_device"}) \/ Stayed(d)
       /\ \A p \in Ponds :
             Mirrored(p) /\ ~Mirrored(p)' => Wrote({"legacy_update_pond"})]_migrationVars

(* The projection says of its writes that each "fences each v2 row on its    *)
(* freshly observed version": then no /v1 move with the projection on parts  *)
(* a device from its open deployment.                                        *)
PlacementFenced ==
    [][\A d \in Components : Leaves(d) => ~Wrote({"update_device"})]_migrationVars

(* The migration stops for an operator only over a device whose pond does    *)
(* not exist. States that a concurrent commit explains, rows read on both    *)
(* sides of it, are never reported as schema conflicts.                      *)
NoFalseConflict ==
    [][mig.out # "schema_conflict" /\ ~mig.conflict
         /\ (mig'.conflict \/ mig'.out = "schema_conflict") =>
            mig.frame.kind = "device" /\ ~There(PondRow(mig.frame.row.pond))]_migrationVars

Projected(k) ==
    IF k[1] = "pond" THEN There(asset[k[2]]) /\ pond[k[2]].linked
    ELSE /\ There(component[k[2]]) /\ device[k[2]].linked
         /\ \/ marker[k[2]].seq # 0
            \/ device[k[2]].retired \/ ~component[k[2]].active
            \/ \E p \in Ponds : asset[p].archived

(* A receipt means that nothing was missed: every pond and device that       *)
(* existed when the last verification pass began has its v2 rows and its     *)
(* links, and a device that may be placed has been, whatever was created     *)
(* behind the scan's cursor meanwhile.                                       *)
ReceiptMeansMigrated == mig.out = "completed" => \A k \in mig.base : Projected(k)
=============================================================================
