------------------------------ MODULE MCIngest ------------------------------
(***************************************************************************)
(* Instances of IngestPipeline and IngestLoop for TLC.                     *)
(***************************************************************************)
EXTENDS IngestPipeline, IngestLoop, TLC

CONSTANTS q1, q2, q3, w1, w2, k1, d1, d2

(* Two observations of one time, told apart by their sequence. *)
One == {<<1, 1>>}
Two == {<<1, 1>>, <<1, 2>>}
OneOrTwo == {One, Two}

Symmetry == Permutations(Handlers) \cup Permutations(Deliveries)

(* Three parts of one system, each explored on its own: requests, while     *)
(* nobody takes what they sent; one batch of two observations, once it was  *)
(* accepted, through handlers and operators; the process of one worker.     *)
VARIABLE part

MCInit == Init /\ LoopInit /\ part \in {"requests", "batch", "process"}

Arrived(q) == request[q] # NotArrived

(* Requests differ in nothing but the order in which they arrive. *)
InOrder == (Arrived(q2) => Arrived(q1)) /\ (Arrived(q3) => Arrived(q2))

BatchBounds ==
    /\ ~Arrived(q2) /\ ~Arrived(q3) /\ now = 1
    /\ changes <= 1 /\ status[1] = "active"
    /\ Cardinality(sent) <= 2
    /\ Busy(q1) => request[q1].body = Two
    /\ answers = {} => changes = 0 /\ \A w \in Handlers : handler[w] = Waiting

MCNext ==
    \/ /\ part = "requests" /\ (IngressStep \/ LifecycleStep)
       /\ InOrder' /\ status'[2] = "active" /\ UNCHANGED <<loopVars, part>>
    \/ part = "batch" /\ Next /\ BatchBounds' /\ UNCHANGED <<loopVars, part>>
    \/ part = "process" /\ LoopStep /\ UNCHANGED <<vars, part>>

MCSpec == MCInit /\ [][MCNext]_<<vars, loopVars, part>>
=============================================================================
