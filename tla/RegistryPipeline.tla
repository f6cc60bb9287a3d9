-------------------------- MODULE RegistryPipeline --------------------------
(***************************************************************************)
(* The /v2 registry: clients that create, change, place and retire things, *)
(* concurrently, over one table.                                           *)
(***************************************************************************)
EXTENDS Deployments, Integrations

CONSTANTS
    InitialRows,        \* rows that are there before the calls
    InitialDeployments  \* deployments that are there before the calls

(* A deployment is started on a component, at an instant, and ended at one;  *)
(* those that are there before the calls are open, one to a component.       *)
ASSUME CallsAssumption ==
    \A w \in Workloads : \A c \in DOMAIN w.calls :
        /\ w.calls[c].kind = "start" =>
              w.calls[c].on \in Components /\ w.calls[c].at \in Nat \ {0}
        /\ w.calls[c].kind = "end" => w.calls[c].at \in Nat

ASSUME InitialAssumption ==
    /\ NoId \notin DOMAIN InitialDeployments
    /\ \A i \in DOMAIN InitialDeployments :
          /\ InitialDeployments[i].component \in Components
          /\ InitialDeployments[i].start \in Nat \ {0}
          /\ InitialDeployments[i].end = Open
          /\ \A j \in DOMAIN InitialDeployments :
                InitialDeployments[j].component = InitialDeployments[i].component => i = j

(* The rows that are there before the calls are as the services write them:  *)
(* versions count from 1, a component has a status of its enumeration, and   *)
(* devices and components have their second copies. Integrations and         *)
(* credentials are made by the calls.                                        *)
ASSUME RowsAssumption ==
    \A k \in DOMAIN InitialRows :
        /\ k[1] \in {"device", "component"} =>
              /\ k = <<k[1], k[2]>>
              /\ DOMAIN InitialRows[k] = {"status", "version", "of"}
              /\ InitialRows[k].version \in Nat \ {0}
        /\ k[1] = "device" =>
              /\ DeviceLookup(k[2]) \in DOMAIN InitialRows
              /\ InitialRows[DeviceLookup(k[2])] = InitialRows[k]
        /\ k[1] = "component" =>
              /\ InitialRows[k].status \in {"active"} \cup TerminalComponent
              /\ ComponentMirror(k[2]) \in DOMAIN InitialRows
              /\ InitialRows[ComponentMirror(k[2])] = InitialRows[k]
        /\ k[1] \notin {"integration", "identity", "credential", "listing", "slot"}

registryVars == <<storeVars, deploymentVars, audit>>

RegistryInit ==
    /\ StoreInit(InitialRows)
    /\ deployment = InitialDeployments
    /\ current = [c \in Components |->
          IF \E i \in DOMAIN InitialDeployments : InitialDeployments[i].component = c
          THEN CHOOSE i \in DOMAIN InitialDeployments : InitialDeployments[i].component = c
          ELSE NoId]
    /\ marker = [c \in Components |->
          IF \E i \in DOMAIN InitialDeployments : InitialDeployments[i].component = c
          THEN [seq |-> 1, last |-> 0] ELSE NoMarker]
    /\ audit = <<>>

RegistryNext ==
    \/ \E c \in DOMAIN call :
          \/ (LookUpReceipt(c) \/ RereadReceipt(c) \/ Resend(c) \/ RegistryStep(c))
             /\ UNCHANGED <<deploymentVars, audit>>
          \/ DeploymentStep(c) /\ UNCHANGED audit
          \/ IntegrationStep(c) /\ UNCHANGED deploymentVars
    \/ ClockTick /\ UNCHANGED <<deploymentVars, audit>>

RegistrySpec == RegistryInit /\ [][RegistryNext]_registryVars

-----------------------------------------------------------------------------
RegistryTypeOK ==
    /\ clock \in 1 .. horizon
    /\ \A k \in DOMAIN table : table[k].version \in Nat \ {0}
    /\ \A c \in DOMAIN call : call[c].sends \in 1 .. Op(c).tries /\ call[c].at \in 0 .. clock
    /\ \A c \in Components : marker[c].seq \in Nat /\ marker[c].last \in 0 .. clock
    /\ \A i \in DOMAIN deployment : deployment[i].component \in Components

(* An idempotency key creates one thing. However often and however           *)
(* concurrently a call is sent, a second entity under the key is written     *)
(* only when the receipt of the first has lived its full lifetime, and       *)
(* whoever is answered under a key is told of an entity made from the very   *)
(* body they sent.                                                           *)
CreatedOnce ==
    /\ \A x, y \in made :
          x.key = y.key /\ x.id # y.id =>
              x.at + ReceiptTTL <= y.written \/ y.at + ReceiptTTL <= x.written
    /\ \A a \in answered : \E x \in made :
          x.key = a.key /\ x.body = a.body /\ x.id = a.id

(* Nothing is born under a parent that is retired by then: an asset needs    *)
(* its site active, a component its device and a capability its component    *)
(* not retired, an integration both its parents, a deployment all three,     *)
(* at the moment their rows appear.                                          *)
BornUnderLiveParent ==
    LET born == DOMAIN table' \ DOMAIN table
    IN  /\ \A k \in born :
              /\ k[1] = "asset" => HasStatus(Site(table'[k].of[1]), {"active"})
              /\ k[1] = "component" =>
                    ~HasStatus(Device(table'[k].of[1]), {"decommissioned"})
              /\ k[1] = "capability" =>
                    HasStatus(Component(table'[k].of[1]), {"active"})
              /\ k[1] = "integration" =>
                    /\ ~HasStatus(Device(table'[k].of[1]), {"decommissioned"})
                    /\ HasStatus(Account(table'[k].of[2]), Provisionable)
              /\ k[1] = "credential" => HasStatus(Account(table'[k].of[1]), Provisionable)
        /\ \A i \in DOMAIN deployment' \ DOMAIN deployment :
              LET d == deployment'[i]
              IN  /\ HasStatus(Component(d.component), {"active"})
                  /\ HasStatus(Asset(d.asset), {"active"})
                  /\ HasStatus(Site(table[Asset(d.asset)].of[1]), {"active"})
ParentsAliveAtBirth == [][BornUnderLiveParent]_registryVars

(* Every second copy follows its original: a device's lookup row, a          *)
(* component's mirror, a credential's listing, the row by which an external  *)
(* identity finds the one integration that claimed it, and the slot of an    *)
(* account that each of its live credentials holds alone, and no other.      *)
CopiesAgree ==
    \A k \in DOMAIN table :
        /\ k[1] = "device" => table[k] = Row(DeviceLookup(k[2]))
        /\ k[1] = "component" => table[k] = Row(ComponentMirror(k[2]))
        /\ k[1] = "credential" =>
              /\ table[k] = Row(Listing(k[2]))
              /\ table[k].status = "active" =>
                    Row(Slot(table[k].of[1], table[k].of[2])).of = <<k[2]>>
        /\ k[1] = "slot" =>
              LET i == Credential(table[k].of[1])
              IN  table[i].status = "active" /\ table[i].of = <<k[2], k[3]>>
        /\ k[1] = "integration" =>
              LET l == table[k].of[3]
              IN  /\ Resolve(l) = k[2]
                  /\ table[l].status = table[k].status
                  /\ table[l].version = table[k].version

(* The audit table tells every lifecycle change and nothing else: the items  *)
(* of an account, integration or credential form a chain of statuses that    *)
(* ends at its status, one item for each version.                            *)
AuditTells ==
    \A k \in DOMAIN table :
        LET mine == SelectSeq(audit, LAMBDA a : a.resource = k)
            n    == Len(mine)
        IN  k[1] \in {"account", "integration", "credential"} /\ n > 0 =>
              /\ mine[n].after = table[k].status
              /\ \A j \in 2 .. n : mine[j].before = mine[j - 1].after
              /\ n = table[k].version - (IF k[1] = "credential" THEN 0 ELSE 1)

(* get_deployment_at answers for every instant up to now as the definition   *)
(* of the interval does.                                                     *)
LocatesExactly == LocatesTheInterval(1 .. horizon)
=============================================================================
