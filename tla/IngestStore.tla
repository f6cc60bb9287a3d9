---------------------------- MODULE IngestStore ----------------------------
(***************************************************************************)
(* What telemetry ingestion shares, for one external device: the rows that *)
(* decide whom its data belongs to, and the SQS ingress queue.             *)
(*                                                                         *)
(* An observation is its <<observed_at, sequence>>, a batch a set of them. *)
(* An envelope is identified by the claim it was made for (n) and, when an *)
(* operator replays quarantined observations of it, by those (via).        *)
(***************************************************************************)
EXTENDS Naturals, Sequences, FiniteSets

CONSTANTS
    Links,            \* 1 .. n: the rows below, in the order they are looked at
    MaxReceives,      \* maxReceiveCount of the queue's redrive policy
    MaxStatusChanges, \* bound: lifecycle transitions
    MaxSends          \* bound: messages sent

VARIABLES
    status,   \* status of the device integration, its account and its device
    changes,  \* history: lifecycle transitions so far
    queue,    \* visible and in-flight messages, with their receive count
    sent      \* history: messages the queue accepted from anybody

storeVars == <<status, changes, queue, sent>>

(* active; not active but able to become so (provisioning, pending, error);  *)
(* decommissioned or revoked.                                                *)
LinkStatuses == {"active", "inactive", "gone"}

StoreInit ==
    /\ status = [l \in Links |-> "active"]
    /\ changes = 0
    /\ queue = [m \in {} |-> 0]
    /\ sent = {}

(* _ACCOUNT_TRANSITIONS, _DEVICE_INTEGRATION_TRANSITIONS: gone is final. *)
Transition(l, target) ==
    /\ changes < MaxStatusChanges
    /\ status[l] \notin {"gone", target}
    /\ status' = [status EXCEPT ![l] = target]
    /\ changes' = changes + 1
    /\ UNCHANGED <<queue, sent>>

Admitted == \A l \in Links : status[l] = "active"

(* classify_fence: the first row that is not active decides. *)
ClassifyFence ==
    IF Admitted THEN "trusted"
    ELSE LET first == CHOOSE l \in Links :
                        /\ status[l] # "active"
                        /\ \A j \in 1 .. l - 1 : status[j] = "active"
         IN  IF status[first] = "gone" THEN "fenced" ELSE "deferred"

Envelope(n, via, received, obs) ==
    [id |-> [n |-> n, via |-> via], received |-> received, obs |-> obs]

Copies(e) == {m \in sent : m.envelope = e}

(* SQS takes a message; an envelope sent again is another message. *)
Transmit(e) ==
    LET m == [envelope |-> e, copy |-> Cardinality(Copies(e)) + 1]
    IN  /\ Cardinality(sent) < MaxSends
        /\ sent' = sent \cup {m}
        /\ queue' = [x \in DOMAIN queue \cup {m} |-> IF x = m THEN 0 ELSE queue[x]]

Without(m) == [x \in DOMAIN queue \ {m} |-> queue[x]]
=============================================================================
