--------------------------- MODULE MCNotification ---------------------------
(***************************************************************************)
(* Instances of NotificationPipeline for TLC.                              *)
(***************************************************************************)
EXTENDS NotificationPipeline, TLC

CONSTANTS p1, p2, w1, w2, c1, c2

Symmetry == UNION {Permutations(S) : S \in {Relays, Workers, Consumers}}

(* How far each channel is explored when the outboxes are the question.  By *)
(* email: one relay run at a time, no fault, an event resolved once its     *)
(* opening is fanned out, and a second recipient who opted out before.  By  *)
(* Telegram: two racing relay runs and a fault, one claim of the first      *)
(* recipient's deliveries, none of the second's, and no ambiguous answer.   *)
OptedOut(r) == gate[r].member /\ ~gate[r].preference

OutboxBounds ==
    /\ gate[1].version = 1
    /\ IF Channel = "email"
       THEN /\ faults = 0
            /\ Cardinality({p \in Relays : relay[p].pc # "idle"}) <= 1
            /\ status = "resolved" => outbox["opening"].status = "expanded"
            /\ (\E p \in Relays : relay[p].pc # "idle") =>
                 \A r \in Recipients \ {1} : OptedOut(r)
       ELSE /\ \A r \in Recipients : gate[r].version = 1
            /\ \A d \in Deliveries :
                 /\ delivery[d].lease.epoch <= IF d[2] = 1 THEN 1 ELSE 0
                 /\ delivery[d].state # "unknown"

OutboxInit == Init /\ OutboxBounds
OutboxNext == Next /\ OutboxBounds'
OutboxSpec == OutboxInit /\ [][OutboxNext]_vars

(* And when the attempts of one delivery are: by email with the event left  *)
(* open, by Telegram with the event resolved meanwhile, one handler at a    *)
(* time and no fault.                                                       *)
AttemptBounds ==
    IF Channel = "email" THEN status = "open"
    ELSE /\ faults = 0 /\ gate[1].version = 1
         /\ Cardinality({w \in Workers : worker[w].pc # "idle"}) <= 1

AttemptInit == Init /\ AttemptBounds
AttemptNext == Next /\ AttemptBounds'
AttemptSpec == AttemptInit /\ [][AttemptNext]_vars
=============================================================================
