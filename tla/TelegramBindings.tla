-------------------------- MODULE TelegramBindings --------------------------
(***************************************************************************)
(* How a Telegram chat is bound to a recipient of a tenant: the API issues *)
(* and revokes, the webhook applies "/start <token>" and "/stop" to the    *)
(* same rows. Every handler reads rows one by one and commits one          *)
(* transaction conditional on what it read.                                *)
(*                                                                         *)
(* An owner is <<tenant, recipient>>. A request and its token are named by *)
(* the call that issues them, a destination by its chat: its id is the     *)
(* chat's digest. A binding or a destination with version 0 is absent, and *)
(* so is a request without an id; update ids start at 1 and 0 stands for   *)
(* no last_update_id. A sender is its chat (the webhook refuses others).   *)
(* The history row that consume adds when a binding changes chats is never *)
(* read and is left out. The clock is read together with the first row.    *)
(***************************************************************************)
EXTENDS Naturals, Sequences

CONSTANTS
    Owners, Chats,
    Lifetime,       \* TOKEN_TTL
    MaxTries,       \* attempts of a stop or a revoke
    MaxDeliveries,  \* bound: how often Telegram sends one update after a 503
    Workloads       \* bound: the rows before, and the calls that race

VARIABLES
    now, horizon,   \* the clock and its bound
    faults,         \* bound: how many transactions may still fail or lose their answer,
                    \* memberships end and addresses be suppressed
    token,          \* request -> its TELEGRAM_BINDING_TOKEN row
    pointer,        \* owner -> its TELEGRAM_BINDING_REQUEST row
    binding,        \* owner -> its TELEGRAM_BINDING row
    destination,    \* chat -> its META row
    fence,          \* chat -> last_update_id of its STOP_FENCE row
    dedupe,         \* the updates with a TELEGRAM_UPDATE row
    member, cached, \* owner -> is the membership active, and cached as active?
    barred,         \* history: requests issued before a revoke that has returned
    call            \* call -> its operation, how far its handler is, what it has read

telegramRows == <<token, pointer, binding, destination, fence, dedupe>>
telegramVars == <<now, horizon, faults, telegramRows, member, cached, barred>>

None == "none"  \* what an absent row names
NoRequest == [id |-> None, owner |-> <<None, None>>, status |-> "none", expires |-> 0]
NoBinding == [chat |-> None, status |-> "none", version |-> 0]
NoDestination == [recipient |-> None, status |-> "none", last |-> 0, version |-> 0]
NoPreference == [version |-> 0, email |-> FALSE, address |-> None, telegram |-> FALSE,
                 severity |-> None]

Recipient(o) == o[2]
There(row) == row.version # 0
Pending(request) == request.status = "pending"
Live(request, t) == Pending(request) /\ request.expires > t
Verified(row) == row.status = "verified"
Active(row) == row.status = "active"

Bindings ==
    [chat : Chats, status : {"verified", "revoked"}, version : Nat \ {0}] \cup {NoBinding}
Destinations ==
    [recipient : {Recipient(o) : o \in Owners} \cup {None},
     status : {"none", "active", "suppressed"}, last : Nat, version : Nat]

ASSUME TelegramAssumption ==
    /\ \A o \in Owners : Recipient(o) # None
    /\ Lifetime \in Nat

(* Calls have names. Telegram gives every update an id of its own: two calls *)
(* with one id are two deliveries of one update. Nothing but a token that    *)
(* some call may be given can be sent.                                       *)
ASSUME CallsAssumption ==
    \A w \in Workloads :
        /\ None \notin DOMAIN w.calls
        /\ \A c \in DOMAIN w.calls :
              /\ w.calls[c].owner \in Owners
              /\ w.calls[c].chat \in Chats
              /\ w.calls[c].update \in Nat
              /\ w.calls[c].kind = "start" => w.calls[c].token \in DOMAIN w.calls
              /\ \A d \in DOMAIN w.calls :
                    /\ w.calls[c].kind \in {"start", "stop"}
                    /\ w.calls[d].kind \in {"start", "stop"}
                    /\ w.calls[c].update = w.calls[d].update
                    => w.calls[c] = w.calls[d]

(* The rows before are such as the handlers leave: a binding is verified by  *)
(* the start that gave its chat to its recipient, and what made a chat       *)
(* active was an update, which is none of the stops to come.                 *)
ASSUME RowsAssumption ==
    \A w \in Workloads :
        /\ w.binding \in [Owners -> Bindings]
        /\ w.destination \in [Chats -> Destinations]
        /\ \A o \in Owners :
              Verified(w.binding[o]) =>
                  w.destination[w.binding[o].chat].recipient = Recipient(o)
        /\ \A d \in Chats :
              Active(w.destination[d]) =>
                  /\ There(w.destination[d]) /\ w.destination[d].last # 0
                  /\ \A c \in DOMAIN w.calls :
                        w.calls[c].kind = "stop" /\ w.calls[c].chat = d =>
                            w.calls[c].update # w.destination[d].last

-----------------------------------------------------------------------------
(* The course of a call. *)

Op(c) == call[c].op
Saw(c) == call[c].saw
At(c, kind, pc) == call[c].op.kind = kind /\ call[c].pc = pc
IsUpdate(c) == call[c].op.kind \in {"start", "stop"}

Unread == [request |-> NoRequest, binding |-> NoBinding, destination |-> NoDestination,
           issued |-> {}, preference |-> NoPreference, legacy |-> "none"]

(* What a handler does between transactions changes its own state only. *)
GoTo(c, pc, saw) ==
    /\ call' = [call EXCEPT ![c].pc = pc, ![c].saw = saw]
    /\ UNCHANGED telegramVars

Begin(c, pc, saw) ==
    /\ call' = [call EXCEPT ![c].pc = pc, ![c].saw = saw, ![c].at = now]
    /\ UNCHANGED telegramVars

Ended(c, out) == [call[c] EXCEPT !.pc = out, !.saw = Unread]

(* "ok" is a 2xx answer, "refused" a 4xx one. The webhook answers 200        *)
(* whether or not the command was applied.                                   *)
End(c, out) ==
    /\ call' = [call EXCEPT ![c] = Ended(c, out)]
    /\ UNCHANGED telegramVars

(* A transaction that commits: its answer may be lost, which the handler     *)
(* cannot tell from one that failed.                                         *)
Answered(c, pc) ==
    \E lost \in {0, 1} :
        /\ lost <= faults.calls
        /\ faults' = [faults EXCEPT !.calls = @ - lost]
        /\ call' = [call EXCEPT ![c] = Ended(c, IF lost = 1 THEN "raised" ELSE pc)]
        /\ UNCHANGED <<now, horizon, member, cached>>

(* Any other error, a TransactionConflict among them, reaches the caller.    *)
Unavailable(c) ==
    /\ faults.calls > 0
    /\ faults' = [faults EXCEPT !.calls = @ - 1]
    /\ call' = [call EXCEPT ![c] = Ended(c, "raised")]
    /\ UNCHANGED <<now, horizon, telegramRows, member, cached, barred>>

(* The loops of stop and revoke: the last conflict is raised. *)
Retry(c) ==
    /\ call' = [call EXCEPT ![c] =
                   IF call[c].try < MaxTries
                   THEN [call[c] EXCEPT !.pc = "again", !.try = call[c].try + 1]
                   ELSE Ended(c, "raised")]
    /\ UNCHANGED telegramVars

(* A 503 makes Telegram send the update again. *)
Redeliver(c) ==
    /\ IsUpdate(c)
    /\ call[c].pc = "raised"
    /\ call[c].delivery < MaxDeliveries
    /\ call' = [call EXCEPT ![c].pc = "begin", ![c].try = 1, ![c].delivery = @ + 1]
    /\ UNCHANGED telegramVars

-----------------------------------------------------------------------------
(* POST /telegram-binding-token *)

IssueRead(c) ==
    /\ At(c, "issue", "begin")
    /\ Begin(c, "commit", [Unread EXCEPT !.request = pointer[Op(c).owner]])

(* The request before this one loses its token, unless that has expired.     *)
NothingInvalidated(rows, request, t) == rows
Invalidated(rows, request, t) ==
    IF Live(request, t) THEN [rows EXCEPT ![request.id].status = "invalidated"] ELSE rows

TokenFits(request, t) == Live(request, t) => Pending(token[request.id])

IssueCommit(c) ==
    LET o == Op(c).owner
        previous == Saw(c).request
        new == [id |-> c, owner |-> o, status |-> "pending", expires |-> call[c].at + Lifetime]
        fits == pointer[o].id = previous.id /\ TokenFits(previous, call[c].at)
    IN  /\ At(c, "issue", "commit")
        /\ \/ /\ fits
              /\ token' = [Invalidated(token, previous, call[c].at) EXCEPT ![c] = new]
              /\ pointer' = [pointer EXCEPT ![o] = new]
              /\ Answered(c, "ok")
              /\ UNCHANGED <<binding, destination, fence, dedupe, barred>>
           \/ ~fits /\ End(c, "raised")
           \/ Unavailable(c)

-----------------------------------------------------------------------------
(* "/start <token>", sent by someone who was given the token.                *)

StartLookup(c) ==
    LET request == token[Op(c).token]
    IN  /\ At(c, "start", "begin")
        /\ call[Op(c).token].pc = "ok"
        /\ IF Live(request, now)
           THEN Begin(c, "member", [Unread EXCEPT !.request = request])
           ELSE End(c, "ok")

(* MembershipService: a cached membership is believed until its TTL, the     *)
(* cache may fail both ways, and an active row is put back into it.          *)
StartMembership(c) ==
    LET o == Saw(c).request.owner
    IN  /\ At(c, "start", "member")
        /\ \E hit \in {h \in BOOLEAN : h => cached[o]}, kept \in BOOLEAN :
              LET active == hit \/ member[o]
              IN  /\ cached' = [cached EXCEPT ![o] = @ \/ (active /\ ~hit /\ kept)]
                  /\ call' = [call EXCEPT ![c] =
                                 IF active THEN [call[c] EXCEPT !.pc = "lookup"]
                                 ELSE Ended(c, "ok")]
                  /\ UNCHANGED <<now, horizon, faults, telegramRows, member, barred>>

ConsumeLookup(c) ==
    LET request == token[Op(c).token]
    IN  /\ At(c, "start", "lookup")
        /\ IF Live(request, call[c].at)
           THEN GoTo(c, "binding", [Unread EXCEPT !.request = request])
           ELSE End(c, "ok")

ConsumeReadBinding(c) ==
    /\ At(c, "start", "binding")
    /\ GoTo(c, "commit", [Saw(c) EXCEPT !.binding = binding[Saw(c).request.owner]])

(* The conditions of consume's transaction. *)
UpdateIsNew(c) == Op(c).update \notin dedupe
PointerFits(request) == pointer[request.owner].id = request.id /\ Pending(pointer[request.owner])
AnyStopIsOver(c) == TRUE
AfterStop(c) == fence[Op(c).chat] < Op(c).update
AnyChat(c) == TRUE
ChatIsFree(c) == destination[Op(c).chat].recipient \in {None, Recipient(Saw(c).request.owner)}
NewestForChat(c) == destination[Op(c).chat].last < Op(c).update

ConsumeFits(c) ==
    LET request == Saw(c).request
    IN  /\ UpdateIsNew(c)
        /\ member[request.owner]
        /\ Live(token[request.id], call[c].at)
        /\ AfterStop(c)
        /\ PointerFits(request)
        /\ ChatIsFree(c)
        /\ NewestForChat(c)
        /\ binding[request.owner].version = Saw(c).binding.version

ConsumeCommit(c) ==
    LET op == Op(c)
        request == Saw(c).request
        o == request.owner
    IN  /\ At(c, "start", "commit")
        /\ \/ /\ ConsumeFits(c)
              /\ dedupe' = dedupe \cup {op.update}
              /\ token' = [token EXCEPT ![request.id].status = "consumed"]
              /\ pointer' = [pointer EXCEPT ![o].status = "consumed"]
              /\ destination' = [destination EXCEPT ![op.chat] =
                                    [recipient |-> Recipient(o), status |-> "active",
                                     last |-> op.update, version |-> @.version + 1]]
              /\ binding' = [binding EXCEPT ![o] =
                                [chat |-> op.chat, status |-> "verified",
                                 version |-> Saw(c).binding.version + 1]]
              /\ Answered(c, "ok")
              /\ UNCHANGED <<fence, barred>>
           \/ ~ConsumeFits(c) /\ End(c, "ok")
           \/ Unavailable(c)

-----------------------------------------------------------------------------
(* "/stop" *)

StopRead(c) ==
    LET row == destination[Op(c).chat]
    IN  /\ Op(c).kind = "stop" /\ call[c].pc \in {"begin", "again"}
        /\ IF There(row) /\ row.last >= Op(c).update
           THEN End(c, "ok")
           ELSE GoTo(c, "commit", [Unread EXCEPT !.destination = row])

(* The destination row is as it was read, and no newer update got to it. *)
StopRowFits(c) ==
    LET row == destination[Op(c).chat]
        read == Saw(c).destination
    IN  row.version = read.version /\ row.status = read.status /\ row.last < Op(c).update

Suppressed(row, update) ==
    [row EXCEPT !.status = "suppressed", !.last = update,
                !.version = IF Active(row) THEN @ + 1 ELSE @]

(* Without a destination the stop is remembered by the fence. *)
StopCommit(c) ==
    LET op == Op(c)
        read == Saw(c).destination
        settled == ~UpdateIsNew(c) \/ (~There(read) /\ ~AfterStop(c))
    IN  /\ At(c, "stop", "commit")
        /\ \/ /\ ~settled
              /\ StopRowFits(c)
              /\ dedupe' = dedupe \cup {op.update}
              /\ destination' = IF There(read)
                                THEN [destination EXCEPT ![op.chat] = Suppressed(@, op.update)]
                                ELSE destination
              /\ fence' = IF There(read) THEN fence ELSE [fence EXCEPT ![op.chat] = op.update]
              /\ Answered(c, "ok")
              /\ UNCHANGED <<token, pointer, binding, barred>>
           \/ settled /\ End(c, "ok")
           \/ ~settled /\ ~StopRowFits(c) /\ Retry(c)
           \/ Unavailable(c)

-----------------------------------------------------------------------------
(* DELETE /telegram-binding *)

IssuedTo(o) == {q \in DOMAIN token : token[q].owner = o}

(* get_current reads the binding, then the pointer. Its third read, the      *)
(* destination, is not used here.                                            *)
RevokeReadBinding(c) ==
    LET o == Op(c).owner
    IN  /\ Op(c).kind = "revoke"
        /\ \/ /\ call[c].pc = "begin"
              /\ Begin(c, "request", [Unread EXCEPT !.binding = binding[o],
                                                    !.issued = IssuedTo(o)])
           \/ /\ call[c].pc = "again"
              /\ GoTo(c, "request", [Saw(c) EXCEPT !.binding = binding[o]])

(* Without operations there is nothing to commit. *)
OnlyTheBinding(row, request) == Verified(row)
Revocable(row, request) == Verified(row) \/ Pending(request)

RevokeReadRequest(c) ==
    LET request == pointer[Op(c).owner]
        revocable == Revocable(Saw(c).binding, request)
    IN  /\ At(c, "revoke", "request")
        /\ \/ /\ revocable
              /\ GoTo(c, "commit", [Saw(c) EXCEPT !.request = request])
           \/ /\ ~revocable
              /\ call' = [call EXCEPT ![c] = Ended(c, "ok")]
              /\ barred' = barred \cup Saw(c).issued
              /\ UNCHANGED <<now, horizon, faults, telegramRows, member, cached>>

RevokeFits(c) ==
    LET read == Saw(c)
        o == Op(c).owner
    IN  /\ Verified(read.binding) => binding[o].version = read.binding.version
        /\ Pending(read.request) => PointerFits(read.request)
        /\ TokenFits(read.request, call[c].at)

RevokedBinding(row) ==
    IF Verified(row) THEN [row EXCEPT !.status = "revoked", !.version = @ + 1] ELSE row

RevokeCommit(c) ==
    LET read == Saw(c)
        o == Op(c).owner
    IN  /\ At(c, "revoke", "commit")
        /\ \/ /\ RevokeFits(c)
              /\ binding' = IF Verified(read.binding)
                            THEN [binding EXCEPT ![o] = RevokedBinding(read.binding)]
                            ELSE binding
              /\ pointer' = IF Pending(read.request)
                            THEN [pointer EXCEPT ![o].status = "invalidated"]
                            ELSE pointer
              /\ token' = Invalidated(token, read.request, call[c].at)
              /\ Answered(c, "ok")
              /\ barred' = IF call'[c].pc = "ok" THEN barred \cup read.issued ELSE barred
              /\ UNCHANGED <<destination, fence, dedupe>>
           \/ ~RevokeFits(c) /\ Retry(c)
           \/ Unavailable(c)

-----------------------------------------------------------------------------
(* DynamoDB removes a request's rows some time after expires_at, each on its *)
(* own; a membership may end, and its cache entry lapse, at any time.        *)
Expired(request) == request.id # None /\ request.expires <= now

RemoveToken(q) ==
    /\ Expired(token[q])
    /\ token' = [token EXCEPT ![q] = NoRequest]
    /\ UNCHANGED <<now, horizon, faults, pointer, binding, destination, fence, dedupe,
                   member, cached, barred, call>>

RemovePointer(o) ==
    /\ Expired(pointer[o])
    /\ pointer' = [pointer EXCEPT ![o] = NoRequest]
    /\ UNCHANGED <<now, horizon, faults, token, binding, destination, fence, dedupe,
                   member, cached, barred, call>>

EndMembership(o) ==
    /\ member[o]
    /\ faults.members > 0
    /\ faults' = [faults EXCEPT !.members = @ - 1]
    /\ member' = [member EXCEPT ![o] = FALSE]
    /\ UNCHANGED <<now, horizon, telegramRows, cached, barred, call>>

LapseCache(o) ==
    /\ cached[o]
    /\ cached' = [cached EXCEPT ![o] = FALSE]
    /\ UNCHANGED <<now, horizon, faults, telegramRows, member, barred, call>>

Tick ==
    /\ now < horizon
    /\ now' = now + 1
    /\ UNCHANGED <<horizon, faults, telegramRows, member, cached, barred, call>>

TelegramStep(c) ==
    \/ IssueRead(c) \/ IssueCommit(c)
    \/ StartLookup(c) \/ StartMembership(c) \/ ConsumeLookup(c) \/ ConsumeReadBinding(c)
    \/ ConsumeCommit(c)
    \/ StopRead(c) \/ StopCommit(c)
    \/ RevokeReadBinding(c) \/ RevokeReadRequest(c) \/ RevokeCommit(c)
    \/ Redeliver(c)

StoreStep ==
    \/ \E q \in DOMAIN token : RemoveToken(q)
    \/ \E o \in Owners : RemovePointer(o) \/ EndMembership(o) \/ LapseCache(o)
    \/ Tick
=============================================================================
