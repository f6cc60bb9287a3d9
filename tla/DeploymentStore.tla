-------------------------- MODULE DeploymentStore --------------------------
(***************************************************************************)
(* The rows that place a component on an asset for a half-open interval    *)
(* [started_at, ended_at), whoever writes them: the /v2 deployment         *)
(* service, the /v1 projection or the migration.                           *)
(*                                                                         *)
(* A deployment's tenant mirror and its history row hold the same data and *)
(* are only ever written by one transaction: `deployment` stands for both. *)
(* Instants are positive; an open interval has ended_at = 0.               *)
(***************************************************************************)
EXTENDS Naturals, FiniteSets

CONSTANT Components

VARIABLES
    deployment,  \* id -> its mirror and history rows
    current,     \* component -> the id its CURRENT pointer names, NoId if absent
    marker       \* component -> its D10 marker; seq = 0 while there is none

deploymentVars == <<deployment, current, marker>>

NoId == <<>>
Open == 0
NoMarker == [seq |-> 0, last |-> 0]

Deployment(c, asset, start) ==
    [component |-> c, asset |-> asset, start |-> start, end |-> Open, version |-> 1]

Ended(d, at) ==
    [component |-> d.component, asset |-> d.asset, start |-> d.start, end |-> at,
     version |-> d.version + 1]

IsOpen(i) == deployment[i].end = Open
History(c) == {i \in DOMAIN deployment : deployment[i].component = c}

(* The history row query_range finds last: the greatest started_at. *)
Latest(S) ==
    CHOOSE i \in S : \A j \in S : deployment[j].start <= deployment[i].start

(* deployment_marker_advance_request: conditioned on the observed seq, or on *)
(* absence when none was observed (seq 0 stands for that).                   *)
MarkerAt(c, seq) == marker[c].seq = seq
MarkerEnded(c, at) == [seq |-> marker[c].seq + 1, last |-> at]

(* _start_marker_request: over an observed marker the start may not precede  *)
(* the last end; a first marker records the end history shows, if any.       *)
StartAllowedAlways(c, seq, start) == start > 0
StartAllowed(c, seq, start) ==
    /\ MarkerAt(c, seq)
    /\ seq = 0 \/ marker[c].last <= start
MarkerStarted(c, previous) ==
    [seq  |-> marker[c].seq + 1,
     last |-> IF marker[c].seq = 0 THEN previous ELSE marker[c].last]

(* Three rows are put and the marker moves. *)
PutOpen(i, d, previous) ==
    /\ deployment' = [j \in DOMAIN deployment \cup {i} |->
                          IF j = i THEN d ELSE deployment[j]]
    /\ current' = [current EXCEPT ![d.component] = i]
    /\ marker' = [marker EXCEPT ![d.component] = MarkerStarted(d.component, previous)]

(* Mirror and history get their end, CURRENT is deleted, the marker moves. *)
PutEnd(i, at) ==
    LET c == deployment[i].component
    IN  /\ deployment' = [deployment EXCEPT ![i] = Ended(@, at)]
        /\ current' = [current EXCEPT ![c] = NoId]
        /\ marker' = [marker EXCEPT ![c] = MarkerEnded(c, at)]

(* A move: the open interval i ends where its successor j starts, CURRENT is *)
(* overwritten and the marker moves once.                                    *)
PutMove(i, j, d) ==
    /\ deployment' = [k \in DOMAIN deployment \cup {j} |->
                          IF k = j THEN d
                          ELSE IF k = i THEN Ended(deployment[i], d.start) ELSE deployment[k]]
    /\ current' = [current EXCEPT ![d.component] = j]
    /\ marker' = [marker EXCEPT ![d.component] = MarkerEnded(d.component, d.start)]

(* get_deployment_at: the newest history row that starts by t, if t is in it *)
CoversClosed(d, t) == d.start <= t /\ (d.end = Open \/ t <= d.end)
Covers(d, t) == d.start <= t /\ (d.end = Open \/ t < d.end)
DeploymentAt(c, t) ==
    LET S == {i \in History(c) : deployment[i].start <= t}
    IN  IF S # {} /\ Covers(deployment[Latest(S)], t) THEN Latest(S) ELSE NoId

Overlap(d, e) ==
    /\ e.end = Open \/ d.start < e.end
    /\ d.end = Open \/ e.start < d.end

(* A component is never in two places at once: the intervals of its          *)
(* deployments are disjoint, and the open one, if any, is the one its        *)
(* CURRENT pointer names.                                                    *)
IntervalsDisjoint ==
    \A c \in Components :
        /\ \A i, j \in History(c) : i # j => ~Overlap(deployment[i], deployment[j])
        /\ \A i \in History(c) : IsOpen(i) <=> current[c] = i

(* get_deployment_at reads one history row; it finds the interval that       *)
(* covers the instant whenever there is one, and none otherwise.             *)
LocatesTheInterval(instants) ==
    \A c \in Components, t \in instants :
        LET covering == {i \in History(c) :
                            /\ deployment[i].start <= t
                            /\ IsOpen(i) \/ t < deployment[i].end}
        IN  IF covering = {} THEN DeploymentAt(c, t) = NoId
                             ELSE DeploymentAt(c, t) \in covering
=============================================================================
