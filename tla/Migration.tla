----------------------------- MODULE Migration -----------------------------
(***************************************************************************)
(* DefaultSiteAssetMigrator: the backfill that gives the ponds and devices *)
(* of a tenant their v2 rows while /v1 and /v2 keep writing. It scans      *)
(* ponds, then devices, page by page, plans each record from rows it reads *)
(* one by one, applies the plans, each in a transaction fenced on its      *)
(* source row, and scans again until a pass finds nothing left to do.      *)
(*                                                                         *)
(* Rows are always well formed and owned by the tenant, so the identity    *)
(* and codec checks never fail here, and the default site is never         *)
(* archived. A run may stop anywhere: the deadline, an error, a crash.     *)
(***************************************************************************)
EXTENDS V1Store, Sequences, SequencesExt

CONSTANTS
    PondOrder, DeviceOrder,  \* the keys of each prefix in the order of a Query
    PageSize,
    MaxRecordAttempts,       \* MAX_RECORD_ATTEMPTS
    MaxPasses                \* MAX_VERIFICATION_PASSES

VARIABLE mig  \* the migrator: where it is, and its _TenantPlan

migrationVars == <<projectionVars, mig>>

RowOf(kind, k) == IF kind = "pond" THEN pond[k] ELSE device[k]
Order(kind) == IF kind = "pond" THEN PondOrder ELSE DeviceOrder
KeyOf(f) == <<f.kind, f.key>>

(* A record being planned: its source row, what was read for it, the states  *)
(* that made a plan impossible (_Unstable), the transactions that failed.    *)
NothingRead == [profile |-> FALSE, linked |-> FALSE, mirror |-> NoComponent,
                rows |-> FALSE, partial |-> FALSE, current |-> NoId, history |-> {},
                marker |-> NoMarker]
NoPlan == [rows |-> FALSE, partial |-> FALSE, link |-> FALSE, place |-> "none",
           current |-> NoId, seq |-> 0, archived |-> FALSE]
Frame(kind, k, row) ==
    [kind |-> kind, key |-> k, row |-> row, read |-> NothingRead, tries |-> 1, obs |-> {},
     commits |-> 0, plan |-> NoPlan]
NoFrame == Frame("none", "", NoPond)

Idle == [pc |-> "idle", phase |-> "plan", frame |-> NoFrame, outer |-> NoFrame,
         kind |-> "pond", cursor |-> 0, page |-> <<>>, tenant |-> 0, siteTries |-> 0,
         ponds |-> NoRows, queue |-> <<>>, seen |-> {}, conflict |-> FALSE, pass |-> 0,
         id |-> 0, runs |-> 0, base |-> {}, out |-> "none"]

(* A step that only reads or goes on. *)
Think(m) ==
    /\ mig' = m
    /\ UNCHANGED <<now, horizon, rowVars, call, deploymentVars>>

(* The end of a run, and of all its state. *)
Over(m, out) ==
    [Idle EXCEPT !.runs = m.runs, !.id = m.id, !.base = m.base, !.out = out]

HasActions(plan) == plan.rows \/ plan.partial \/ plan.link \/ plan.place # "none"

-----------------------------------------------------------------------------
(* Scanning: _scan_records, _plan_tenant, _verify_tenant *)

StartScan(m) ==
    [m EXCEPT !.pc = "page", !.kind = "pond", !.cursor = 0, !.page = <<>>,
              !.frame = NoFrame, !.outer = NoFrame]

(* What is in the tables when a verification pass starts. *)
Existing ==
    {<<"pond", p>> : p \in {p \in Ponds : There(pond[p])}}
        \cup {<<"device", d>> : d \in {d \in Components : There(device[d])}}

StartPass(m) ==
    IF m.pass = MaxPasses THEN Over(m, "failed")
    ELSE StartScan([m EXCEPT !.phase = "verify", !.pass = @ + 1, !.base = Existing])

(* The next record of the queue is applied; after the last one, verify. *)
NextToApply(m) ==
    IF m.queue = <<>> THEN StartPass(m)
    ELSE [m EXCEPT !.phase = "apply", !.pc = "commit", !.frame = Head(m.queue),
                   !.queue = Tail(@)]

(* The last page has been read: conflicts stop the run with nothing written, *)
(* a pass that found nothing completes it.                                   *)
ScanDone(m) ==
    IF m.conflict THEN Over(m, "schema_conflict")
    ELSE IF m.phase = "plan"
         THEN IF m.siteTries = 0 THEN NextToApply(m) ELSE [m EXCEPT !.pc = "put_site"]
    ELSE IF m.queue = <<>> THEN [m EXCEPT !.pc = "receipt"]
    ELSE NextToApply(m)

(* Planning a record starts from its source row; a pond's row is kept for    *)
(* the devices in it.                                                        *)
PlanFrom(m, f) ==
    IF f.kind = "pond"
    THEN [m EXCEPT !.pc = "profile", !.frame = f,
                   !.ponds = [p \in DOMAIN m.ponds \cup {f.key} |->
                                 IF p = f.key THEN f.row ELSE m.ponds[p]]]
    ELSE [m EXCEPT !.pc = IF f.row.pond \in DOMAIN m.ponds THEN "lookup" ELSE "pond",
                   !.frame = f]

NextRecord(m) ==
    IF m.page = <<>> THEN [m EXCEPT !.pc = "page", !.frame = NoFrame]
    ELSE PlanFrom([m EXCEPT !.page = Tail(@)],
                  Frame(m.kind, Head(m.page).key, Head(m.page).row))

(* query_tenant_prefix_pages: the next rows behind the cursor, as they are   *)
(* now. A short page is the last of its prefix.                              *)
ReadPage ==
    LET order == Order(mig.kind)
        rest  == SelectSeq([i \in 1..Len(order) |-> i],
                     LAMBDA i : i > mig.cursor /\ There(RowOf(mig.kind, order[i])))
        here  == SubSeq(rest, 1, IF PageSize < Len(rest) THEN PageSize ELSE Len(rest))
        page  == [i \in 1..Len(here) |-> [key |-> order[here[i]],
                                          row |-> RowOf(mig.kind, order[here[i]])]]
    IN  /\ mig.pc = "page"
        /\ IF mig.cursor = Len(order)
           THEN Think(IF mig.kind = "pond" THEN [mig EXCEPT !.kind = "device", !.cursor = 0]
                      ELSE ScanDone(mig))
           ELSE Think(NextRecord([mig EXCEPT
                        !.page = page,
                        !.cursor = IF Len(here) < PageSize THEN Len(order)
                                   ELSE here[Len(here)]]))

(* A planned record joins the queue: in a verification pass only when it is  *)
(* new or still needs actions.                                               *)
FoundSeen(m, f) ==
    IF m.phase = "plan" \/ (KeyOf(f) \in m.seen /\ HasActions(f.plan))
    THEN [m EXCEPT !.queue = Append(@, f), !.seen = @ \cup {KeyOf(f)}]
    ELSE m
Found(m, f) ==
    IF m.phase = "plan" \/ KeyOf(f) \notin m.seen \/ HasActions(f.plan)
    THEN [m EXCEPT !.queue = Append(@, f), !.seen = @ \cup {KeyOf(f)}]
    ELSE m

-----------------------------------------------------------------------------
(* The course of a plan *)

(* A pond planned on behalf of a device (_ensure_pond) gives way to it. *)
Resume(m) == [m EXCEPT !.pc = "lookup", !.frame = m.outer, !.outer = NoFrame]

Applied(m) == IF m.outer # NoFrame THEN Resume(m) ELSE NextToApply(m)

Planned(plan) ==
    LET f == [mig.frame EXCEPT !.plan = plan, !.read = NothingRead, !.tries = 1, !.obs = {}]
        m == [mig EXCEPT !.frame = f]
    IN  IF mig.phase = "apply"
        THEN IF ~HasActions(plan) THEN Applied(m)
             ELSE IF f.commits = MaxRecordAttempts THEN Over(m, "failed")
             ELSE [m EXCEPT !.pc = "commit"]
        ELSE IF mig.outer # NoFrame THEN Resume(Found(m, f))
        ELSE NextRecord(Found(m, f))

(* _SchemaConflict: a scan notes it and goes on, an apply stops. *)
Conflict ==
    IF mig.phase = "apply" THEN Over(mig, "schema_conflict")
    ELSE NextRecord([mig EXCEPT !.conflict = TRUE, !.outer = NoFrame])

(* _Unstable: read the source row again, a few times. The same state every   *)
(* time is a conflict, a changing one fails the run.                         *)
UnstableAtOnce(what, seen) == Conflict
Unstable(what, seen) ==
    LET obs == mig.frame.obs \cup {<<what, mig.frame.row, seen>>}
    IN  IF mig.frame.tries < MaxRecordAttempts
        THEN [mig EXCEPT !.pc = "reread", !.frame.obs = obs, !.frame.tries = @ + 1]
        ELSE IF Cardinality(obs) = 1 THEN Conflict
        ELSE Over(mig, "failed")

Reread ==
    LET f == mig.frame
    IN  /\ mig.pc = "reread"
        /\ Think(PlanFrom(mig, [f EXCEPT !.row = RowOf(f.kind, f.key), !.read = NothingRead]))

Reads(pc) == mig.pc = pc
Read(pc, read) == [mig EXCEPT !.pc = pc, !.frame.read = read]

-----------------------------------------------------------------------------
(* _plan_pond: the profile first, since a profile that is there proves its   *)
(* asset.                                                                    *)
ReadProfile ==
    /\ Reads("profile")
    /\ Think(Read("pond_asset", [NothingRead EXCEPT !.profile = There(profile[mig.frame.key])]))

ReadAsset ==
    LET a == There(asset[mig.frame.key])
    IN  /\ Reads("pond_asset")
        /\ Think(IF mig.frame.read.profile /\ ~a THEN Conflict
                 ELSE Planned([NoPlan EXCEPT !.rows = ~a,
                                             !.partial = a /\ ~mig.frame.read.profile,
                                             !.link = ~mig.frame.row.linked]))

-----------------------------------------------------------------------------
(* _plan_device *)

(* A pond created during the run is planned first. *)
EnsurePond ==
    LET p == mig.frame.row.pond
    IN  /\ Reads("pond")
        /\ Think(IF ~There(PondRow(p)) THEN Unstable("device_missing_pond", "")
                 ELSE PlanFrom([mig EXCEPT !.outer = mig.frame], Frame("pond", p, pond[p])))

ReadLookup ==
    LET f == mig.frame
        l == device[f.key]
    IN  /\ Reads("lookup")
        /\ Think(IF l.pond # f.row.pond \/ l.version # f.row.version
                 THEN Unstable("device_lookup", l)
                 ELSE Read("mirror", [f.read EXCEPT !.linked = l.linked]))

ReadMirror ==
    /\ Reads("mirror")
    /\ Think(Read("canonical", [mig.frame.read EXCEPT !.mirror = component[mig.frame.key]]))

(* _plan_component: both rows are absent, or there and equal; otherwise a    *)
(* commit fell between the reads, and a mirror that seems missing is planned *)
(* from its sibling.                                                         *)
ReadCanonical ==
    LET row    == component[mig.frame.key]
        mirror == mig.frame.read.mirror
    IN  /\ Reads("canonical")
        /\ Think(IF There(mirror) /\ row # mirror THEN Unstable("component", <<mirror, row>>)
                 ELSE Read("current", [mig.frame.read EXCEPT
                          !.mirror  = IF There(row) THEN row ELSE ComponentOf(mig.frame.row),
                          !.rows    = ~There(row),
                          !.partial = There(row) /\ ~There(mirror)]))

PlaceAs(place, read, archived) ==
    Planned([rows |-> read.rows, partial |-> read.partial, place |-> place,
             link |-> ~(mig.frame.row.linked /\ read.linked),
             current |-> read.current, seq |-> read.marker.seq, archived |-> archived])
LeaveAs(read) == PlaceAs("none", [read EXCEPT !.current = NoId, !.marker = NoMarker], FALSE)

(* A retired device, or a component that is not active, is never placed. *)
MayPlace == ~mig.frame.row.retired /\ mig.frame.read.mirror.active
CachedPond == mig.ponds[mig.frame.row.pond]

(* _plan_deployment: CURRENT first, since every deployment transaction       *)
(* changes it.                                                               *)
ReadCurrentRow ==
    LET i == current[mig.frame.key]
    IN  /\ Reads("current")
        /\ Think(Read(IF i = NoId THEN "history" ELSE "siblings",
                      [mig.frame.read EXCEPT !.current = i]))

ReadSiblings ==
    LET i == mig.frame.read.current
    IN  /\ Reads("siblings")
        /\ Think(IF IsOpen(i) THEN Read("marker", mig.frame.read)
                 ELSE Unstable("deployment_current", <<i, deployment[i]>>))

(* On the pond's asset nothing changes; elsewhere the drift is repaired. *)
ReadMarker ==
    LET m    == marker[mig.frame.key]
        i    == mig.frame.read.current
        read == [mig.frame.read EXCEPT !.marker = m]
    IN  /\ Reads("marker")
        /\ Think(IF m.last > deployment[i].start THEN Unstable("deployment_marker", m)
                 ELSE IF deployment[i].asset = mig.frame.row.pond \/ ~MayPlace
                 THEN LeaveAs(read)
                 ELSE Read("repair_asset", read))

ReadRepairAsset ==
    LET a == asset[mig.frame.row.pond]
    IN  /\ Reads("repair_asset")
        /\ Think(IF IF There(a) THEN a.archived ELSE CachedPond.archived
                 THEN LeaveAs(mig.frame.read)
                 ELSE PlaceAs("repair", mig.frame.read, FALSE))

(* Without CURRENT: the deterministic deployment's history row, the marker,  *)
(* its mirror row. An interval that ended is not started again.              *)
InitialRow(d) == {deployment[i].end : i \in {InitialId(d)} \cap DOMAIN deployment}

ReadHistory ==
    /\ Reads("history")
    /\ Think(Read("free_marker", [mig.frame.read EXCEPT !.history = InitialRow(mig.frame.key)]))

ReadFreeMarker ==
    /\ Reads("free_marker")
    /\ Think(Read("deployment", [mig.frame.read EXCEPT !.marker = marker[mig.frame.key]]))

ReadDeployment ==
    LET row  == InitialRow(mig.frame.key)
        read == mig.frame.read
    IN  /\ Reads("deployment")
        /\ Think(CASE Open \in row -> Unstable("deployment_current", row)
                   [] row # {} /\ read.history # row ->
                          Unstable("deployment_history", <<row, read.history>>)
                   [] row # {} /\ read.history = row ->
                          IF \E end \in row : read.marker.last < end
                          THEN Unstable("ended_marker", <<row, read.marker>>)
                          ELSE LeaveAs(read)
                   [] row = {} /\ read.history # {} ->
                          Unstable("stray_history", <<read.history, read.marker>>)
                   [] row = {} /\ read.history = {} /\ read.marker.seq # 0 ->
                          Unstable("stray_marker", read.marker)
                   [] OTHER -> IF MayPlace THEN Read("start_asset", read) ELSE LeaveAs(read))

(* An asset archived through /v2 while its pond is active gets nothing; one  *)
(* archived with its pond still gets the deployment.                         *)
ReadStartAsset ==
    LET a == asset[mig.frame.row.pond]
        archived == IF There(a) THEN a.archived ELSE CachedPond.archived
    IN  /\ Reads("start_asset")
        /\ Think(IF archived /\ ~CachedPond.archived THEN LeaveAs(mig.frame.read)
                 ELSE PlaceAs("start", mig.frame.read, CachedPond.archived))

-----------------------------------------------------------------------------
(* Applying: _apply_site, _apply_record, _replan *)

LoadTenant ==
    /\ Reads("tenant")
    /\ Think([mig EXCEPT !.pc = "site", !.tenant = tenant])

(* _plan_site: siteTries = 0 means that the site needs no put. *)
ReadSite ==
    /\ Reads("site")
    /\ Think(IF mig.phase = "plan" /\ mig.siteTries = 0
             THEN StartScan([mig EXCEPT !.siteTries = IF site THEN 0 ELSE 1])
             ELSE IF site THEN NextToApply(mig)
             ELSE IF mig.siteTries > MaxRecordAttempts THEN Over(mig, "failed")
             ELSE [mig EXCEPT !.pc = "put_site"])

ApplySite ==
    /\ Reads("put_site")
    /\ \/ /\ ~site /\ tenant = mig.tenant
          /\ site' = TRUE
          /\ mig' = NextToApply(mig)
          /\ UNCHANGED <<now, horizon, tenant, pond, asset, profile, device, component, call,
                         deploymentVars>>
       \/ /\ site \/ tenant # mig.tenant
          /\ Think([mig EXCEPT !.pc = "tenant", !.siteTries = @ + 1])

Failed ==
    Think([mig EXCEPT !.pc = "reread", !.frame.commits = @ + 1, !.frame.plan = NoPlan])

PondFenceLoose(f) ==
    f.plan.rows => ~There(asset[f.key]) /\ (f.row.archived \/ site)
PondFence(f) ==
    /\ pond[f.key].version = f.row.version
    /\ f.plan.rows => ~There(asset[f.key]) /\ (f.row.archived \/ site)
    /\ ~f.plan.partial

ApplyPond ==
    LET f == mig.frame
    IN  /\ Reads("commit") /\ f.kind = "pond" /\ HasActions(f.plan)
        /\ \/ /\ PondFence(f)
              /\ IF f.plan.rows THEN Provision([p \in {f.key} |-> f.row])
                 ELSE UNCHANGED <<asset, profile>>
              /\ pond' = [pond EXCEPT ![f.key].linked = TRUE]
              /\ mig' = Applied(mig)
              /\ UNCHANGED <<now, horizon, tenant, site, device, component, call,
                             deploymentVars>>
           \/ ~PondFence(f) /\ Failed

(* The source row and its lookup are fenced on version and pond. *)
DeviceFenceLoose(f) == There(device[f.key])
DeviceFence(f) ==
    /\ device[f.key].version = f.row.version
    /\ device[f.key].pond = f.row.pond
RowsFence(f) ==
    /\ f.plan.rows => ~There(component[f.key])
    /\ ~f.plan.partial
    /\ f.plan.place # "none" =>
            /\ site
            /\ f.plan.rows \/ component[f.key].active
            /\ IF f.plan.archived THEN There(asset[f.row.pond]) ELSE IsActive(asset[f.row.pond])
PlaceFence(f) ==
    CASE f.plan.place = "none" -> TRUE
      [] f.plan.place = "start" ->
             /\ InitialId(f.key) \notin DOMAIN deployment
             /\ current[f.key] = NoId
             /\ MarkerAt(f.key, 0)
      [] f.plan.place = "repair" ->
             /\ current[f.key] = f.plan.current
             /\ IsOpen(f.plan.current)
             /\ MarkerAt(f.key, f.plan.seq)

(* _drift_repair_actions dates the move by the legacy row. *)
Place(f) ==
    CASE f.plan.place = "none" -> UNCHANGED deploymentVars
      [] f.plan.place = "start" ->
             PutOpen(InitialId(f.key), InitialDeployment(f.key, f.row, f.row.pond), 0)
      [] f.plan.place = "repair" ->
             PutMove(f.plan.current, <<"mig", mig.id>>,
                     Deployment(f.key, f.row.pond,
                         TransitionInstant(f.row.updated, deployment[f.plan.current].start)))

ApplyDevice ==
    LET f == mig.frame
        fenced == DeviceFence(f) /\ RowsFence(f) /\ PlaceFence(f)
    IN  /\ Reads("commit") /\ f.kind = "device" /\ HasActions(f.plan)
        /\ \/ /\ fenced
              /\ Place(f)
              /\ component' = [component EXCEPT ![f.key] =
                                  IF f.plan.rows THEN ComponentOf(f.row) ELSE @]
              /\ device' = [device EXCEPT ![f.key].linked = TRUE]
              /\ mig' = Applied([mig EXCEPT !.id = IF f.plan.place = "repair" THEN @ + 1 ELSE @])
              /\ UNCHANGED <<now, horizon, tenant, site, pond, asset, profile, call>>
           \/ ~fenced /\ Failed

(* A record that needed nothing is only counted. *)
ApplyNothing ==
    /\ Reads("commit") /\ ~HasActions(mig.frame.plan)
    /\ Think(Applied(mig))

(* _record_receipt: the run is complete. *)
RecordReceipt ==
    /\ Reads("receipt")
    /\ Think(Over(mig, "completed"))

Begin ==
    /\ mig.pc = "idle" /\ mig.runs > 0
    /\ Think([Idle EXCEPT !.pc = "tenant", !.runs = mig.runs - 1, !.id = mig.id])

(* The deadline, an error, a crash. *)
Stop ==
    /\ mig.pc # "idle" /\ mig.runs > 0
    /\ Think(Over(mig, "stopped"))

MigrationStep ==
    \/ Begin \/ LoadTenant \/ ReadSite \/ ReadPage \/ Reread \/ ReadProfile \/ ReadAsset
    \/ EnsurePond \/ ReadLookup \/ ReadMirror \/ ReadCanonical \/ ReadCurrentRow
    \/ ReadSiblings \/ ReadMarker \/ ReadRepairAsset \/ ReadHistory \/ ReadFreeMarker
    \/ ReadDeployment \/ ReadStartAsset \/ ApplySite \/ ApplyPond \/ ApplyDevice
    \/ ApplyNothing \/ RecordReceipt \/ Stop
=============================================================================
