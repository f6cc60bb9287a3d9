------------------------- MODULE DeliveryLifecycle -------------------------
(***************************************************************************)
(* What the notification pipeline promises about one recipient of an alert *)
(* event: the state of the opening notification and of the recovery that   *)
(* follows it.  It knows no leases, queues, attempts or processes.         *)
(***************************************************************************)
EXTENDS NotificationModel

CONSTANT Recipients

VARIABLES
    state,     \* state of each recipient's opening and recovery
    channel    \* channel of the event's notifications

Absent == [opening |-> "absent", recovery |-> "absent"]

Init == state = [r \in Recipients |-> Absent] /\ channel \in {"email", "telegram"}

(* What the provider may say after the fact: an attempt under way or not    *)
(* understood turns out sent or refused, a sent one refused.  A cancelled   *)
(* or failed delivery stays what it is.                                     *)
LateMoves ==
    [processing |-> {"succeeded", "permanent_failed"},
     retryable_failed |-> {"succeeded", "permanent_failed"},
     unknown |-> {"succeeded", "permanent_failed"},
     succeeded |-> {"permanent_failed"}]

Moves(from, to) ==
    CanTransition(from, to) \/ (from \in DOMAIN LateMoves /\ to \in LateMoves[from])

(* The recovery of an opening: released by its success, cancelled by its    *)
(* definitive failure, in the very step in which the opening ends.          *)
Follows(opening, recovery, next) ==
    IF recovery # "waiting_dependency" \/ opening = next THEN recovery
    ELSE CASE next = "succeeded" -> "pending"
           [] next \in {"permanent_failed", "cancelled"} -> "cancelled"
           [] OTHER -> recovery

Create(s, t) ==
    \/ /\ s = Absent
       /\ t \in {[Absent EXCEPT !.opening = first] : first \in {"pending", "cancelled"}}
    \/ /\ s.recovery = "absent" /\ s.opening # "absent" /\ t.opening = s.opening
       /\ t.recovery \in
            CASE s.opening = "succeeded" -> {"pending", "cancelled"}
              [] s.opening \in {"permanent_failed", "cancelled"} -> {"cancelled"}
              [] OTHER -> {IF channel = "telegram" THEN "cancelled" ELSE "waiting_dependency"}

MoveOpening(s, t) ==
    /\ s.opening # "absent"
    /\ Moves(s.opening, t.opening)
    /\ t.recovery = Follows(s.opening, s.recovery, t.opening)

MoveRecovery(s, t) ==
    /\ s.recovery \notin {"absent", "waiting_dependency"}
    /\ Moves(s.recovery, t.recovery)
    /\ t.opening = s.opening

Step(s, t) == Create(s, t) \/ MoveOpening(s, t) \/ MoveRecovery(s, t)

(* One transaction may create the deliveries of several recipients. *)
Next ==
    /\ DOMAIN state' = Recipients /\ channel' = channel
    /\ \A r \in Recipients : state'[r] = state[r] \/ Step(state[r], state'[r])

Spec == Init /\ [][Next]_<<state, channel>>
=============================================================================
