---------------------------- MODULE IngestWorker ----------------------------
(***************************************************************************)
(* The telemetry ingest worker (workers/telemetry_ingest_loop.py,          *)
(* services/ingest_processor.py) and the operator's DLQ redrive and        *)
(* quarantine commands.                                                    *)
(*                                                                         *)
(* A handler fences the envelope, writes the accepted observations, puts   *)
(* the quarantine rows, advances the marks one by one, and only then       *)
(* deletes the message.  A visibility timeout is not kept: a message in    *)
(* the queue may be received at any time, also while it is being handled.  *)
(***************************************************************************)
EXTENDS Ingress

CONSTANTS
    Handlers,         \* message handlers, of any number of workers
    LegacyEligible,   \* observations also written to water_quality
    MaxOperatorRuns   \* bound: redrive and replay runs

VARIABLES
    handler,   \* what each handler is doing
    points,    \* points in InfluxDB: measurement and observation
    rows,      \* QUARANTINE# items: status, and the replay that took it
    marks,     \* high-water marks: value and tie-breaker
    offered,   \* history: every mark value the table was asked to take
    dlq,       \* the dead-letter queue
    operator,  \* what an operator's run is doing
    runs       \* history: operator runs so far

workerVars == <<handler, points, rows, marks, offered, dlq, operator, runs>>

Waiting == [pc |-> "idle"]

(* A mark of each kind: of a component (paired with the sequence), and of the *)
(* connector, simple and paired with the reason.                              *)
MarkNames == {"observed", "received", "quarantined", "fenced"}

NoMark == <<0, 0>>

WorkerInit ==
    /\ handler = [w \in Handlers |-> Waiting]
    /\ points = {}
    /\ rows = [x \in {} |-> 0]
    /\ marks = [n \in MarkNames |-> NoMark]
    /\ offered = {}
    /\ dlq = {}
    /\ operator = Waiting
    /\ runs = 0

At(w, pc) == handler[w].pc = pc

Proceed(w, pc) == handler' = [handler EXCEPT ![w].pc = pc]

Rest(w) == handler' = [handler EXCEPT ![w] = Waiting]

EnvelopeOf(w) == handler[w].m.envelope

(* Paired marks are ordered by value, then by tie-breaker. *)
Less(a, b) == a[1] < b[1] \/ (a[1] = b[1] /\ a[2] < b[2])

Highest(S) == CHOOSE a \in S : \A b \in S : ~Less(a, b)

Receive(w, m) ==
    /\ At(w, "idle")
    /\ queue[m] < MaxReceives
    /\ queue' = [queue EXCEPT ![m] = @ + 1]
    /\ handler' = [handler EXCEPT ![w] = [pc |-> "fence", m |-> m]]
    /\ UNCHANGED <<status, changes, sent, points, rows, marks, offered, dlq, operator, runs>>

(* build_ingest_marks, in the order apply_ingest_marks takes them. *)
OutcomeMarks(e, accepted) ==
    IF e.id.via # {} THEN <<>>
    ELSE (IF accepted = {} THEN <<>> ELSE << <<"observed", Highest(accepted)>> >>)
         \o << <<"received", <<e.received, 0>>>> >>
         \o (IF accepted = e.obs THEN <<>> ELSE << <<"quarantined", <<e.received, 1>>>> >>)

FenceMarks(e) == IF e.id.via # {} THEN <<>> ELSE << <<"fenced", <<e.received, 1>>>> >>

(* mapping.fence and, if it trusts the envelope, normalisation, which accepts *)
(* some observations and quarantines the rest.                                *)
Trust(w, accepted) ==
    /\ At(w, "fence") /\ ClassifyFence = "trusted"
    /\ handler' = [handler EXCEPT ![w] =
         [pc |-> "write", m |-> @.m, accepted |-> accepted, todo |-> EnvelopeOf(w).obs \ accepted,
          marks |-> OutcomeMarks(EnvelopeOf(w), accepted)]]
    /\ UNCHANGED <<storeVars, points, rows, marks, offered, dlq, operator, runs>>

Fence(w) ==
    /\ At(w, "fence") /\ ClassifyFence = "fenced"
    /\ handler' = [handler EXCEPT ![w] =
         [pc |-> "quarantine", m |-> @.m, accepted |-> {}, todo |-> EnvelopeOf(w).obs,
          marks |-> FenceMarks(EnvelopeOf(w))]]
    /\ UNCHANGED <<storeVars, points, rows, marks, offered, dlq, operator, runs>>

(* ObservationWriteService.write: observation_numeric, then water_quality. *)
Write(w) ==
    /\ At(w, "write")
    /\ points' = points \cup {<<"observation_numeric", o>> : o \in handler[w].accepted}
    /\ Proceed(w, "legacy")
    /\ UNCHANGED <<storeVars, rows, marks, offered, dlq, operator, runs>>

WriteLegacy(w) ==
    /\ At(w, "legacy")
    /\ points' = points \cup {<<"water_quality", o>> : o \in handler[w].accepted \cap LegacyEligible}
    /\ Proceed(w, "quarantine")
    /\ UNCHANGED <<storeVars, rows, marks, offered, dlq, operator, runs>>

RowKey(e, o) == <<e.id, o>>

OpenRow(e) == [status |-> "open", received |-> e.received, by |-> {}]

WithRow(key, row) == [x \in DOMAIN rows \cup {key} |-> IF x = key THEN row ELSE rows[x]]

(* Mutant: the put has no condition. *)
PutRowAlways(w, o) ==
    /\ At(w, "quarantine") /\ o \in handler[w].todo
    /\ rows' = WithRow(RowKey(EnvelopeOf(w), o), OpenRow(EnvelopeOf(w)))
    /\ handler' = [handler EXCEPT ![w].todo = @ \ {o}]
    /\ UNCHANGED <<storeVars, points, marks, offered, dlq, operator, runs>>

(* put_quarantine_entries: one put per row, if it is not there yet.  The row  *)
(* of a fenced message as a whole, which cannot be replayed, is left out.     *)
PutRow(w, o) ==
    /\ At(w, "quarantine") /\ o \in handler[w].todo
    /\ LET key == RowKey(EnvelopeOf(w), o)
       IN  rows' = IF key \in DOMAIN rows THEN rows ELSE WithRow(key, OpenRow(EnvelopeOf(w)))
    /\ handler' = [handler EXCEPT ![w].todo = @ \ {o}]
    /\ UNCHANGED <<storeVars, points, marks, offered, dlq, operator, runs>>

(* Mutant: the tie-breaker is not compared. *)
AdvancedByValue(old, new) == IF old[1] < new[1] THEN new ELSE old

(* _advance: one conditional update. *)
Advanced(old, new) == IF Less(old, new) THEN new ELSE old

Advance(w) ==
    /\ At(w, "quarantine") /\ handler[w].todo = {} /\ handler[w].marks # <<>>
    /\ LET name == Head(handler[w].marks)[1]
           value == Head(handler[w].marks)[2]
       IN  /\ marks' = [marks EXCEPT ![name] = Advanced(@, value)]
           /\ offered' = offered \cup {<<name, value>>}
    /\ handler' = [handler EXCEPT ![w].marks = Tail(@)]
    /\ UNCHANGED <<storeVars, points, rows, dlq, operator, runs>>

(* Mutant: the message is deleted while rows are still to be put. *)
CompleteBeforeRows(w) == At(w, "quarantine")

Complete(w) == At(w, "quarantine") /\ handler[w].todo = {} /\ handler[w].marks = <<>>

(* _finish: the delete may fail, or the receipt handle may have lapsed. *)
Delete(w) ==
    /\ Complete(w)
    /\ queue' \in {queue, Without(handler[w].m)}
    /\ Rest(w)
    /\ UNCHANGED <<status, changes, sent, points, rows, marks, offered, dlq, operator, runs>>

(* Deferred, failed, past its deadline, drained or killed: the message stays. *)
Retry(w) ==
    /\ ~At(w, "idle")
    /\ Rest(w)
    /\ UNCHANGED <<storeVars, points, rows, marks, offered, dlq, operator, runs>>

(* SQS moves a message received too often to the dead-letter queue. *)
DeadLetter(m) ==
    /\ queue[m] >= MaxReceives
    /\ queue' = Without(m) /\ dlq' = dlq \cup {m}
    /\ UNCHANGED <<status, changes, sent, handler, points, rows, marks, offered, operator, runs>>
-----------------------------------------------------------------------------
StartsRun == operator = Waiting /\ runs < MaxOperatorRuns /\ runs' = runs + 1

(* redrive_dlq, _move: the body is sent again, then deleted from the DLQ. *)
Redrive(m) ==
    /\ m \in dlq /\ StartsRun
    /\ Transmit(m.envelope)
    /\ operator' = [pc |-> "redrive", m |-> m]
    /\ UNCHANGED <<status, changes, handler, points, rows, marks, offered, dlq>>

FinishRedrive ==
    /\ operator.pc = "redrive"
    /\ dlq' \in {dlq, dlq \ {operator.m}}
    /\ operator' = Waiting
    /\ UNCHANGED <<storeVars, handler, points, rows, marks, offered, runs>>

IsOpen(key) == key \in DOMAIN rows /\ rows[key].status = "open"

(* _read_open and _replay_envelope: open rows of one envelope make a new one, *)
(* whose id follows from the rows.  Bound: observations that a replay         *)
(* quarantined again are not replayed a second time.                          *)
Replay(id, obs) ==
    /\ id.via = {} /\ obs # {}
    /\ \A o \in obs : IsOpen(<<id, o>>)
    /\ StartsRun
    /\ LET received == rows[<<id, CHOOSE o \in obs : TRUE>>].received
       IN  operator' = [pc |-> "send", e |-> Envelope(id.n, obs, received, obs), todo |-> obs]
    /\ UNCHANGED <<storeVars, handler, points, rows, marks, offered, dlq>>

(* producer.send; then each row is marked. *)
SendReplay ==
    /\ operator.pc = "send"
    /\ Transmit(operator.e)
    /\ operator' = [operator EXCEPT !.pc = "replay"]
    /\ UNCHANGED <<status, changes, handler, points, rows, marks, offered, dlq, runs>>

(* transition_quarantine_entry: the version moves with the status, so the   *)
(* condition on it holds while the row is open.  If the store fails the row *)
(* stays open, and the run goes on with the next one.                       *)
MarkReplayed(o) ==
    /\ operator.pc = "replay" /\ o \in operator.todo
    /\ LET key == <<[operator.e.id EXCEPT !.via = {}], o>>
       IN  \/ /\ IsOpen(key)
              /\ rows' = [rows EXCEPT ![key].status = "replayed", ![key].by = operator.e.id.via]
           \/ UNCHANGED rows
    /\ operator' = [operator EXCEPT !.todo = @ \ {o}]
    /\ UNCHANGED <<storeVars, handler, points, marks, offered, dlq, runs>>

(* The run ends: done, or it failed or was interrupted. *)
StopRun ==
    /\ operator # Waiting
    /\ operator' = Waiting
    /\ UNCHANGED <<storeVars, handler, points, rows, marks, offered, dlq, runs>>

Dismiss(key) ==
    /\ IsOpen(key)
    /\ rows' = [rows EXCEPT ![key].status = "dismissed"]
    /\ UNCHANGED <<storeVars, handler, points, marks, offered, dlq, operator, runs>>
-----------------------------------------------------------------------------
Work(w) ==
    \/ At(w, "fence") /\ \E accepted \in SUBSET EnvelopeOf(w).obs : Trust(w, accepted)
    \/ Fence(w) \/ Write(w) \/ WriteLegacy(w)
    \/ At(w, "quarantine") /\ \E o \in handler[w].todo : PutRow(w, o)
    \/ Advance(w) \/ Delete(w)

HandlerNext ==
    \/ \E w \in Handlers : Work(w) \/ Retry(w) \/ \E m \in DOMAIN queue : Receive(w, m)
    \/ \E m \in DOMAIN queue : DeadLetter(m)

OperatorNext ==
    \/ \E m \in dlq : Redrive(m)
    \/ FinishRedrive \/ SendReplay \/ StopRun
    \/ operator.pc = "replay" /\ \E o \in operator.todo : MarkReplayed(o)
    \/ \E key \in DOMAIN rows : Dismiss(key)
    \/ \E id \in {key[1] : key \in DOMAIN rows} :
         \E obs \in SUBSET {key[2] : key \in DOMAIN rows} : Replay(id, obs)
=============================================================================
