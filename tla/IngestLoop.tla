----------------------------- MODULE IngestLoop -----------------------------
(***************************************************************************)
(* One telemetry ingest worker process: the polling loop with its permits  *)
(* and its drain (workers/telemetry_ingest_loop.py), a heartbeat beside    *)
(* every message, and the stall watchdog with the exit of the process      *)
(* (workers/telemetry_ingest_liveness.py, workers/telemetry_ingest.py).    *)
(*                                                                         *)
(* The steps of the event loop between two awaits are atomic; SQS calls    *)
(* run in threads, which a cancelled task cannot stop, and the watchdog is *)
(* a thread of its own. What process does to a message is IngestWorker's;  *)
(* here it ends in a decision, in time or by its deadline. A delivery is   *)
(* one receive of a message, with its own receipt handle.                  *)
(***************************************************************************)
EXTENDS Naturals, FiniteSets

CONSTANTS
    Deliveries,
    Concurrency, MaxMessages,  \* of IngestWorkerConfig
    StallAfter,                \* stall_after_seconds, in units of the watchdog's checks
    Horizon                    \* bound: how long the process is watched

ASSUME LoopAssumption ==
    /\ IsFiniteSet(Deliveries)
    /\ Concurrency \in Nat \ {0} /\ MaxMessages \in Nat \ {0} /\ StallAfter \in Nat

VARIABLES
    loop,      \* run: where it is, what its poll asked for, was it stopped or cancelled
    job,       \* delivery -> its task, its heartbeat and what SQS was last told about it
    clock,     \* the time, and the time of the last liveness mark
    watchdog,  \* "armed", "checking", "disarmed", "overtaken" or "stalled"
    exit       \* the exit code, or "none"

loopVars == <<loop, job, clock, watchdog, exit>>

(* A job's call is a visibility change of its heartbeat, on its way to SQS;  *)
(* told is what SQS holds: hidden by the receive or by a heartbeat, or the   *)
(* worker's last word: "deleted", "delayed" or "released".                   *)
Unreceived == [pc |-> "queued", started |-> 0, beat |-> "none", call |-> FALSE,
               cancelled |-> FALSE, decision |-> "none", told |-> "hidden"]

LoopInit ==
    /\ loop = [pc |-> "turn", asked |-> 0, stop |-> FALSE, cancel |-> FALSE, cancelled |-> FALSE]
    /\ job = [d \in Deliveries |-> Unreceived]
    /\ clock = [now |-> 0, mark |-> 0]
    /\ watchdog = "armed"
    /\ exit = "none"

Running == exit = "none"
InFlight == {d \in Deliveries : job[d].pc \in {"decide", "quiet", "final"}}
Full == Cardinality(InFlight) >= Concurrency
Smaller(m, n) == IF m < n THEN m ELSE n

NeverOverdue == FALSE
Overdue == \E d \in InFlight : clock.now - job[d].started > StallAfter

SetJob(d, j) == job' = [job EXCEPT ![d] = j]

MarkAlive == clock' = [clock EXCEPT !.mark = clock.now]

-----------------------------------------------------------------------------
(* run. With every permit busy it only waits; that turn's mark is in Pass.   *)

Poll ==
    /\ Running /\ loop.pc = "turn" /\ ~loop.stop /\ ~Full
    /\ loop' = [loop EXCEPT !.pc = "poll",
                            !.asked = Smaller(MaxMessages, Concurrency - Cardinality(InFlight))]
    /\ MarkAlive
    /\ UNCHANGED <<job, watchdog, exit>>

Started == [Unreceived EXCEPT !.pc = "decide", !.beat = "sleep", !.started = clock.now]

(* The poll returns; nothing if it failed or a stop gave up on it. *)
PollReturns(received) ==
    /\ Running /\ loop.pc = "poll"
    /\ Cardinality(received) <= loop.asked
    /\ \A d \in received : job[d].pc = "queued"
    /\ loop' = [loop EXCEPT !.pc = IF loop.stop THEN "release" ELSE "turn", !.asked = 0]
    /\ job' = [d \in Deliveries |->
                  IF d \notin received THEN job[d]
                  ELSE IF loop.stop THEN [Unreceived EXCEPT !.pc = "polled"] ELSE Started]
    /\ MarkAlive
    /\ UNCHANGED <<watchdog, exit>>

Release(d) ==
    /\ Running /\ loop.pc = "release" /\ job[d].pc = "polled"
    /\ \E told \in {"hidden", "released"} :
           SetJob(d, [job[d] EXCEPT !.pc = "gone", !.told = told])
    /\ UNCHANGED <<loop, clock, watchdog, exit>>

StopPolling ==
    /\ Running
    /\ \/ loop.pc = "turn" /\ loop.stop
       \/ loop.pc = "release" /\ \A d \in Deliveries : job[d].pc # "polled"
    /\ loop' = [loop EXCEPT !.pc = "drain"]
    /\ UNCHANGED <<job, clock, watchdog, exit>>

-----------------------------------------------------------------------------
(* Tasks and their heartbeats. *)

(* heartbeat.cancel(): a sleeping heartbeat ends at once; one that has a     *)
(* call under way waits for it (_run_to_completion).                         *)
BeatDropped(beat) == "done"
BeatCancelled(beat) ==
    CASE beat = "sleep" -> "done"
      [] beat = "call"  -> "closing"
      [] OTHER          -> beat

(* Cancelled while it decides, a task still stops its heartbeat; while it    *)
(* waits for that, the cancellation is held back; its last call goes on.     *)
(* A second cancellation adds nothing.                                       *)
TaskCancelled(j) ==
    CASE j.pc = "decide" -> [j EXCEPT !.pc = "quiet", !.cancelled = TRUE,
                                      !.beat = BeatCancelled(@)]
      [] j.pc = "quiet"  -> [j EXCEPT !.cancelled = TRUE]
      [] OTHER           -> j

CancelTasks == job' = [d \in Deliveries |-> TaskCancelled(job[d])]

(* process returns, raises or is cut off by its deadline. *)
Decide(d) ==
    /\ Running /\ job[d].pc = "decide"
    /\ \E decision \in {"deleted", "delayed"} :
           SetJob(d, [job[d] EXCEPT !.pc = "quiet", !.beat = BeatCancelled(@),
                                    !.decision = decision])
    /\ UNCHANGED <<loop, clock, watchdog, exit>>

BeatCalls(d) ==
    /\ Running /\ job[d].beat = "sleep"
    /\ SetJob(d, [job[d] EXCEPT !.beat = "call", !.call = TRUE])
    /\ UNCHANGED <<loop, clock, watchdog, exit>>

(* The call takes effect, or fails. *)
BeatReturns(d) ==
    /\ Running /\ job[d].call
    /\ \E told \in {job[d].told, "hidden"} :
           SetJob(d, [job[d] EXCEPT !.call = FALSE, !.told = told,
                                    !.beat = IF @ = "call" THEN "sleep" ELSE "done"])
    /\ UNCHANGED <<loop, clock, watchdog, exit>>

(* _stop_heartbeat is over: a cancelled task takes no final action. *)
Quiet(d) ==
    /\ Running /\ job[d].pc = "quiet" /\ job[d].beat = "done"
    /\ SetJob(d, [job[d] EXCEPT !.pc = IF job[d].cancelled THEN "gone" ELSE "final"])
    /\ UNCHANGED <<loop, clock, watchdog, exit>>

(* _finish: a failed call is only counted. *)
Conclude(d) ==
    /\ Running /\ job[d].pc = "final"
    /\ \E told \in {"hidden", job[d].decision} :
           SetJob(d, [job[d] EXCEPT !.pc = "gone", !.told = told])
    /\ UNCHANGED <<loop, clock, watchdog, exit>>

-----------------------------------------------------------------------------
(* _drain, the cancellation of run and the exit. *)

DrainExpires ==
    /\ Running /\ loop.pc = "drain" /\ InFlight # {}
    /\ loop' = [loop EXCEPT !.pc = "gather"]
    /\ CancelTasks
    /\ UNCHANGED <<clock, watchdog, exit>>

DrainEnds ==
    /\ Running /\ loop.pc \in {"drain", "gather"} /\ InFlight = {}
    /\ loop' = [loop EXCEPT !.pc = "ended"]
    /\ UNCHANGED <<job, clock, watchdog, exit>>

(* The event loop gets to run.cancel(). A turn, a poll and a release end in  *)
(* the drain; a drain ends there and then, its gather cancels once more. A   *)
(* message that was polled and not released yet is not released any more.    *)
RunCancelled ==
    /\ Running /\ loop.cancel /\ loop.pc # "ended"
    /\ loop' = [loop EXCEPT !.cancel = FALSE, !.cancelled = TRUE,
                            !.pc = IF loop.pc \in {"drain", "gather"} THEN "ended" ELSE "drain"]
    /\ IF loop.pc = "gather" THEN CancelTasks
       ELSE job' = [d \in Deliveries |->
                       IF job[d].pc = "polled" THEN [job[d] EXCEPT !.pc = "gone"] ELSE job[d]]
    /\ UNCHANGED <<clock, watchdog, exit>>

(* asyncio.run cancels every task that is left, the heartbeats and their     *)
(* calls among them, and waits: nobody waits for the thread of a call then.  *)
Abandoned(j) ==
    IF j.pc \in {"decide", "quiet"} THEN [TaskCancelled(j) EXCEPT !.beat = "done"] ELSE j

(* watchdog.close and the exit code. *)
RunEnded ==
    /\ Running /\ loop.pc = "ended" /\ watchdog \notin {"checking", "overtaken"}
    /\ watchdog' = IF watchdog = "stalled" THEN "stalled" ELSE "disarmed"
    /\ \/ /\ InFlight # {}
          /\ job' = [d \in Deliveries |-> Abandoned(job[d])]
          /\ job' # job
          /\ UNCHANGED exit
       \/ /\ InFlight = {}
          /\ exit' = IF (loop.cancelled /\ watchdog = "stalled") \/ ~loop.stop THEN "1" ELSE "0"
          /\ UNCHANGED job
    /\ UNCHANGED <<loop, clock>>

(* request_stop, on SIGTERM or SIGINT. *)
Stop ==
    /\ Running /\ ~loop.stop /\ loop.pc # "ended"
    /\ loop' = [loop EXCEPT !.stop = TRUE]
    /\ watchdog' = CASE watchdog = "armed"    -> "disarmed"
                     [] watchdog = "checking" -> "overtaken"
                     [] OTHER                 -> watchdog
    /\ UNCHANGED <<job, clock, exit>>

-----------------------------------------------------------------------------
(* LivenessWatchdog._watch: it wakes unless it is disarmed, and then looks   *)
(* at the stamp, even if a stop overtakes it in between.                     *)
Wake ==
    /\ Running /\ watchdog = "armed"
    /\ watchdog' = "checking"
    /\ UNCHANGED <<loop, job, clock, exit>>

Silent == clock.now - clock.mark > StallAfter

Look ==
    /\ Running /\ watchdog \in {"checking", "overtaken"}
    /\ \/ /\ Silent
          /\ watchdog' = "stalled"
          /\ loop' = [loop EXCEPT !.cancel = TRUE]
       \/ /\ ~Silent
          /\ watchdog' = IF watchdog = "checking" THEN "armed" ELSE "disarmed"
          /\ UNCHANGED loop
    /\ UNCHANGED <<job, clock, exit>>

(* The grace is over and the process is still there. *)
ForceExit ==
    /\ Running /\ watchdog = "stalled"
    /\ exit' = "1"
    /\ UNCHANGED <<loop, job, clock, watchdog>>

(* Time passes, and a check of the watchdog with it. A loop that waits for a *)
(* permit wakes and marks, unless a message is overdue or something blocks   *)
(* the event loop.                                                           *)
Pass ==
    /\ Running /\ clock.now < Horizon
    /\ watchdog = "armed" => ~Silent
    /\ watchdog \notin {"checking", "overtaken"}
    /\ \E marked \in BOOLEAN :
           /\ marked => loop.pc = "turn" /\ ~loop.stop /\ Full /\ ~Overdue
           /\ clock' = [now |-> clock.now + 1, mark |-> IF marked THEN clock.now ELSE clock.mark]
    /\ UNCHANGED <<loop, job, watchdog, exit>>

LoopStep ==
    \/ Poll \/ StopPolling \/ DrainExpires \/ DrainEnds \/ RunCancelled \/ RunEnded
    \/ Stop \/ Wake \/ Look \/ ForceExit \/ Pass
    \/ loop.pc = "poll" /\ \E received \in SUBSET Deliveries : PollReturns(received)
    \/ \E d \in Deliveries :
          Release(d) \/ Decide(d) \/ BeatCalls(d) \/ BeatReturns(d) \/ Quiet(d) \/ Conclude(d)

LoopSpec == LoopInit /\ [][LoopStep]_loopVars

-----------------------------------------------------------------------------
(* The worker's last word on a message stays the last: a heartbeat that was  *)
(* on its way when the message was decided, when the drain or the watchdog   *)
(* cancelled it, or when both did, never hides a message again that was      *)
(* deleted, delayed by the backoff or released.                              *)
LastWordStands ==
    [][\A d \in Deliveries :
          job[d].told # "hidden" => job'[d].told = job[d].told]_loopVars

(* A wedge is seen: a process whose permits are all held by messages started *)
(* longer ago than twice the threshold has been found stalled, although the  *)
(* loop goes on waking and a busy loop keeps marking.                        *)
WedgeIsSeen ==
    Running /\ Full /\ watchdog \in {"armed", "checking"} =>
        \E d \in InFlight : clock.now - job[d].started <= 2 * StallAfter + 1
=============================================================================
