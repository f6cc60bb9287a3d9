--------------------------- MODULE ChannelProofs ---------------------------
(***************************************************************************)
(* ChannelPipeline is right for any owners, chats, addresses and calls:    *)
(* the invariants and action properties its runs check on small instances  *)
(* hold of every one. The proof follows what a handler knows between its   *)
(* reads and its commit. A request is named by the one call that issues    *)
(* it, so a pointer that has left it never comes back; statuses leave      *)
(* "pending" for good; versions and update ids only grow. What was read    *)
(* therefore either still stands at the commit, or the commit's conditions *)
(* see that it does not.                                                   *)
(***************************************************************************)
EXTENDS ChannelPipeline, TLAPS

vars == <<telegramVars, call, preferenceVars>>

Ops == UNION {{w.calls[c] : c \in DOMAIN w.calls} : w \in Workloads}
Names == UNION {DOMAIN w.calls : w \in Workloads}
Requests ==
    [id : Names \cup {None}, owner : Owners \cup {<<None, None>>},
     status : {"none", "pending", "invalidated", "consumed"}, expires : Nat]
SawRows ==
    [request : Requests, binding : Bindings, destination : Destinations,
     issued : SUBSET Names, preference : PreferenceRows,
     legacy : DeliverabilityStates \cup {"none"}]
Places ==
    {"begin", "request", "member", "lookup", "binding", "destination", "identity",
     "legacy", "commit", "again", "ok", "refused", "raised"}
CallRows ==
    [op : Ops, pc : Places, saw : SawRows, wants : PreferenceRows, at : Nat,
     try : Nat, delivery : Nat]

TypeInv ==
    /\ now \in Nat
    /\ DOMAIN call \subseteq Names
    /\ call \in [DOMAIN call -> CallRows]
    /\ token \in [DOMAIN call -> Requests]
    /\ pointer \in [Owners -> Requests]
    /\ binding \in [Owners -> Bindings]
    /\ destination \in [Chats -> Destinations]
    /\ fence \in [Chats -> Nat]
    /\ preference \in [Owners -> PreferenceRows]
    /\ deliverability \in [Addresses -> DeliverabilityStates]

(* What the calls are never changes. *)
OpsInv ==
    \A c \in DOMAIN call :
        /\ Op(c).kind = "start" => Op(c).token \in DOMAIN call
        /\ \A d \in DOMAIN call :
              IsUpdate(c) /\ IsUpdate(d) /\ Op(c).update = Op(d).update => Op(c) = Op(d)

(* An issue that is over: it commits no more. *)
Spent(q) == q \in DOMAIN call /\ Op(q).kind = "issue" /\ call[q].pc \in {"ok", "raised"}

(* A row of the request some issue that is over wrote. *)
Named(r) ==
    /\ r.id # None
    /\ Spent(r.id)
    /\ r.owner = Op(r.id).owner
    /\ r.expires = call[r.id].at + Lifetime

TokenInv == \A q \in DOMAIN call : token[q] = NoRequest \/ (Named(token[q]) /\ token[q].id = q)
PointerOf(r, o) == r = NoRequest \/ (Named(r) /\ r.owner = o)
PointerInv == \A o \in Owners : PointerOf(pointer[o], o)

(* The owner's request is not q, or is over. *)
Over(q, o) == pointer[o].id = q => ~Pending(pointer[o])

BarredInv == \A q \in barred : Spent(q) /\ \A o \in Owners : Over(q, o)

(* A chat is active through an update that came after its fence and is no    *)
(* stop; a stop whose update is recorded left its mark on the chat.          *)
StoppedBy(c) ==
    fence[Op(c).chat] >= Op(c).update \/ destination[Op(c).chat].last >= Op(c).update
ChatInv ==
    /\ \A d \in Chats :
          Active(destination[d]) =>
              /\ There(destination[d])
              /\ destination[d].last > fence[d]
              /\ \A c \in DOMAIN call :
                    Op(c).kind = "stop" /\ Op(c).chat = d => Op(c).update # destination[d].last
    /\ \A c \in DOMAIN call : Op(c).kind = "stop" /\ Op(c).update \in dedupe => StoppedBy(c)

OwnerInv ==
    \A o \in Owners :
        Verified(binding[o]) =>
            /\ binding[o].chat \in Chats
            /\ destination[binding[o].chat].recipient = Recipient(o)

PreferenceInv == \A o \in Owners : ~There(preference[o]) => preference[o].address = None

(* What a handler knows, by its kind and how far it is. *)
IssueInv(c) ==
    At(c, "issue", "commit") =>
        /\ PointerOf(Saw(c).request, Op(c).owner)
        /\ Named(Saw(c).request) /\ ~Pending(Saw(c).request) =>
              Over(Saw(c).request.id, Op(c).owner)

StartInv(c) ==
    At(c, "start", "binding") \/ At(c, "start", "commit") => Named(Saw(c).request)

StopInv(c) == At(c, "stop", "ok") => StoppedBy(c)

RevokeInv(c) ==
    LET o == Op(c).owner
    IN  /\ Op(c).kind = "revoke" /\ call[c].pc \in {"request", "commit", "again"} =>
              \A q \in Saw(c).issued : Spent(q) /\ Op(q).owner = o
        /\ At(c, "revoke", "commit") =>
              /\ PointerOf(Saw(c).request, o)
              /\ ~Pending(Saw(c).request) => \A q \in Saw(c).issued : Over(q, o)

(* A row that was read is the row that is there, or an earlier one. *)
Earlier(read, row) == read.version <= row.version /\ (read.version = row.version => read = row)

PutInv(c) ==
    Op(c).kind = "put" =>
        /\ call[c].pc \in {"binding", "destination", "identity", "legacy", "commit"} =>
              Saw(c).preference.version = Op(c).version /\ Earlier(Saw(c).preference, preference[Op(c).owner])
        /\ call[c].pc \in {"destination", "identity", "legacy", "commit"} =>
              Earlier(Saw(c).binding, binding[Op(c).owner])
        /\ call[c].pc \in {"legacy", "commit"} => call[c].wants.version = Op(c).version + 1
        /\ call[c].pc = "commit" =>
              /\ GivesUp(Saw(c).preference, call[c].wants) => Saw(c).legacy \in DeliverabilityStates
              /\ Saw(c).legacy = "suppressed" => Saw(c).preference.address \in Addresses

CallInv(c) ==
    /\ call[c].at <= now
    /\ IssueInv(c) /\ StartInv(c) /\ StopInv(c) /\ RevokeInv(c) /\ PutInv(c)

Inv ==
    /\ TypeInv /\ OpsInv
    /\ TokenInv /\ PointerInv /\ LiveTokenIsCurrent
    /\ BarredInv /\ ChatInv /\ OwnerInv /\ PreferenceInv
    /\ \A c \in DOMAIN call : CallInv(c)

-----------------------------------------------------------------------------
(* Rows and operations have their types. *)
LEMMA OpTyped ==
    ASSUME NEW op \in Ops
    PROVE  /\ op.owner \in Owners /\ op.chat \in Chats /\ op.update \in Nat
           /\ op.version \in Nat /\ op.email \in BOOLEAN /\ op.severity \in Severities
  <1>1. PICK w \in Workloads : op \in {w.calls[c] : c \in DOMAIN w.calls}
    BY Zenon DEF Ops
  <1>2. PICK c \in DOMAIN w.calls : op = w.calls[c]
    BY <1>1, Zenon
  <1>3. op.owner \in Owners /\ op.chat \in Chats /\ op.update \in Nat
    BY <1>2, CallsAssumption, Zenon
  <1>4. op.version \in Nat /\ op.email \in BOOLEAN /\ op.severity \in Severities
    BY <1>2, PreferencesAssumption, Zenon
  <1> QED
    BY <1>3, <1>4, Zenon

LEMMA NamesNamed == None \notin Names
  BY CallsAssumption, Zenon DEF Names

LEMMA AbsentTyped ==
    /\ NoRequest \in Requests /\ NoBinding \in Bindings /\ NoDestination \in Destinations
    /\ NoPreference \in PreferenceRows /\ Unread \in SawRows
  <1>1. NoRequest \in Requests
    BY Zenon DEF NoRequest, Requests, None
  <1>2. NoBinding \in Bindings /\ NoDestination \in Destinations
    BY Zenon DEF NoBinding, Bindings, There, NoDestination, Destinations, None
  <1>3. NoPreference \in PreferenceRows
    BY Zenon DEF NoPreference, PreferenceRows, None
  <1> QED
    BY <1>1, <1>2, <1>3, Zenon DEF Unread, SawRows

LEMMA BindingFields ==
    ASSUME NEW row \in Bindings
    PROVE  /\ row.version \in Nat
           /\ There(row) => row.chat \in Chats
           /\ Verified(row) => row.chat \in Chats
  BY DEF Bindings, NoBinding, There, Verified

LEMMA AbsentRows ==
    /\ ~Pending(NoRequest) /\ NoRequest.id = None
    /\ \A t : ~Live(NoRequest, t)
  BY Zenon DEF NoRequest, Pending, Live, None

LEMMA OwnersNamed == <<None, None>> \notin Owners
  BY TelegramAssumption, Zenon DEF Recipient, None

(* The fields of a call. *)
LEMMA CallTyped ==
    ASSUME TypeInv, NEW c \in DOMAIN call
    PROVE  /\ call[c] \in CallRows /\ Op(c) \in Ops /\ Saw(c) \in SawRows
           /\ call[c].wants \in PreferenceRows /\ call[c].at \in Nat
           /\ c \in Names /\ c # None
  <1>1. call[c] \in CallRows
    BY Zenon DEF TypeInv
  <1>2. c \in Names /\ c # None
    BY NamesNamed, Zenon DEF TypeInv
  <1> QED
    BY <1>1, <1>2, Zenon DEF CallRows, Op, Saw

LEMMA SawTyped ==
    ASSUME TypeInv, NEW c \in DOMAIN call
    PROVE  /\ Saw(c).request \in Requests /\ Saw(c).binding \in Bindings
           /\ Saw(c).destination \in Destinations /\ Saw(c).issued \subseteq Names
           /\ Saw(c).preference \in PreferenceRows /\ Saw(c).legacy \in DeliverabilityStates \cup {"none"}
  <1>1. Saw(c) \in SawRows
    BY CallTyped, Zenon
  <1> QED
    BY <1>1, Zenon DEF SawRows

LEMMA OpOfCall ==
    ASSUME TypeInv, NEW c \in DOMAIN call
    PROVE  /\ Op(c).owner \in Owners /\ Op(c).chat \in Chats /\ Op(c).update \in Nat
           /\ Op(c).version \in Nat /\ Op(c).email \in BOOLEAN /\ Op(c).severity \in Severities
  BY CallTyped, OpTyped, Zenon

-----------------------------------------------------------------------------
(* A step moves one call: the others stay as they are, and what a call is    *)
(* for does not change.                                                      *)
Moves(c) ==
    /\ DOMAIN call' = DOMAIN call
    /\ call' \in [DOMAIN call -> CallRows]
    /\ \A x \in DOMAIN call : Op(x)' = Op(x) /\ (x # c => call'[x] = call[x])

LEMMA Becomes ==
    ASSUME TypeInv, NEW c \in DOMAIN call, NEW r \in CallRows, r.op = Op(c),
           call' = [call EXCEPT ![c] = r]
    PROVE  Moves(c) /\ call'[c] = r
  <1>1. DOMAIN call' = DOMAIN call /\ call'[c] = r /\ \A x \in DOMAIN call : x # c => call'[x] = call[x]
    BY Zenon
  <1>2. call' \in [DOMAIN call -> CallRows]
    BY Zenon DEF TypeInv
  <1>3. \A x \in DOMAIN call : Op(x)' = Op(x)
    BY <1>1, Zenon DEF Op
  <1> QED
    BY <1>1, <1>2, <1>3, Zenon DEF Moves

LEMMA EndedTyped ==
    ASSUME TypeInv, NEW c \in DOMAIN call, NEW out \in Places
    PROVE  /\ Ended(c, out) \in CallRows
           /\ Ended(c, out).op = Op(c) /\ Ended(c, out).pc = out
           /\ Ended(c, out).at = call[c].at
  <1>1. call[c] \in CallRows
    BY CallTyped, Zenon
  <1> QED
    BY <1>1, AbsentTyped, Zenon DEF CallRows, Ended, Op

LEMMA EndMoves ==
    ASSUME TypeInv, NEW c \in DOMAIN call, NEW out \in Places,
           call' = [call EXCEPT ![c] = Ended(c, out)]
    PROVE  Moves(c) /\ call'[c].pc = out /\ call'[c].at = call[c].at
  BY EndedTyped, Becomes, Zenon

LEMMA GoToMoves ==
    ASSUME TypeInv, NEW c \in DOMAIN call, NEW pc \in Places, NEW saw \in SawRows,
           call' = [call EXCEPT ![c].pc = pc, ![c].saw = saw]
    PROVE  /\ Moves(c)
           /\ call'[c].pc = pc /\ call'[c].saw = saw /\ call'[c].at = call[c].at
           /\ call'[c].wants = call[c].wants
  <1> DEFINE r == [call[c] EXCEPT !.pc = pc, !.saw = saw]
  <1>1. call[c] \in CallRows
    BY CallTyped, Zenon
  <1>2. /\ r \in CallRows /\ r.op = Op(c) /\ r.pc = pc /\ r.saw = saw /\ r.at = call[c].at
        /\ r.wants = call[c].wants
    BY <1>1, Zenon DEF CallRows, Op
  <1>3. call' = [call EXCEPT ![c] = r]
    BY Zenon
  <1> QED
    BY <1>2, <1>3, Becomes, Zenon

LEMMA BeginMoves ==
    ASSUME TypeInv, NEW c \in DOMAIN call, NEW pc \in Places, NEW saw \in SawRows,
           call' = [call EXCEPT ![c].pc = pc, ![c].saw = saw, ![c].at = now]
    PROVE  Moves(c) /\ call'[c].pc = pc /\ call'[c].saw = saw /\ call'[c].at = now
  <1> DEFINE r == [call[c] EXCEPT !.pc = pc, !.saw = saw, !.at = now]
  <1>1. call[c] \in CallRows /\ now \in Nat
    BY CallTyped, Zenon DEF TypeInv
  <1>2. r \in CallRows /\ r.op = Op(c) /\ r.pc = pc /\ r.saw = saw /\ r.at = now
    BY <1>1, Zenon DEF CallRows, Op
  <1>3. call' = [call EXCEPT ![c] = r]
    BY Zenon
  <1> QED
    BY <1>2, <1>3, Becomes, Zenon

-----------------------------------------------------------------------------
(* How the rows may change in a step, whoever takes it: no issue that is     *)
(* over comes back, a pointer moves on to a new request or out of "pending", *)
(* and a row that is written gets a new version.                             *)
PointerMoves(o) ==
    \/ pointer'[o] = pointer[o]
    \/ pointer'[o] = NoRequest
    \/ pointer'[o].id = pointer[o].id /\ ~Pending(pointer'[o])
    \/ pointer'[o].id \in DOMAIN call /\ ~Spent(pointer'[o].id)

Evolves ==
    /\ DOMAIN call' = DOMAIN call
    /\ \A x \in DOMAIN call : Op(x)' = Op(x) /\ (Spent(x) => call'[x] = call[x])
    /\ now <= now' /\ now' \in Nat
    /\ \A o \in Owners : PointerMoves(o)
    /\ \A o \in Owners : binding'[o] = binding[o] \/ binding'[o].version > binding[o].version
    /\ \A o \in Owners : preference'[o] = preference[o] \/ preference'[o].version > preference[o].version
    /\ \A d \in Chats : fence'[d] >= fence[d] /\ destination'[d].last >= destination[d].last

LEMMA SpentLasts ==
    ASSUME Evolves, NEW q, Spent(q)
    PROVE  Spent(q)' /\ Op(q)' = Op(q) /\ call'[q] = call[q]
  BY Zenon DEF Evolves, Spent, Op

(* A row is named, after the step, by an issue that is over then. *)
NamedAfter(r) ==
    /\ r.id # None /\ r.id \in DOMAIN call'
    /\ call'[r.id].op.kind = "issue" /\ call'[r.id].pc \in {"ok", "raised"}
    /\ r.owner = call'[r.id].op.owner
    /\ r.expires = call'[r.id].at + Lifetime

LEMMA NamedLasts ==
    ASSUME Evolves, NEW r, Named(r)
    PROVE  NamedAfter(r)
  BY SpentLasts, Zenon DEF Named, NamedAfter, Spent, Op

LEMMA TokenInvAfter ==
    ASSUME \A q \in DOMAIN call' : token'[q] = NoRequest \/ (NamedAfter(token'[q]) /\ token'[q].id = q)
    PROVE  TokenInv'
  BY Zenon DEF TokenInv, Named, NamedAfter, Spent, Op

LEMMA PointerInvAfter ==
    ASSUME \A o \in Owners : pointer'[o] = NoRequest \/ (NamedAfter(pointer'[o]) /\ pointer'[o].owner = o)
    PROVE  PointerInv'
  BY Zenon DEF PointerInv, PointerOf, Named, NamedAfter, Spent, Op

(* What a row is named by lasts. *)
LEMMA PointerOfLasts ==
    ASSUME Evolves, NEW r, NEW o, PointerOf(r, o)
    PROVE  r = NoRequest \/ (NamedAfter(r) /\ r.owner = o)
  BY NamedLasts, Zenon DEF PointerOf

LEMMA PointersLast ==
    ASSUME PointerInv, Evolves, pointer' = pointer
    PROVE  PointerInv'
  <1>1. \A o \in Owners : pointer'[o] = NoRequest \/ (NamedAfter(pointer'[o]) /\ pointer'[o].owner = o)
    BY PointerOfLasts, Zenon DEF PointerInv
  <1> QED
    BY <1>1, PointerInvAfter, Zenon

LEMMA OverLasts ==
    ASSUME Evolves, NEW q, Spent(q), NEW o \in Owners, Over(q, o)
    PROVE  Over(q, o)'
  <1>1. PointerMoves(o)
    BY Zenon DEF Evolves
  <1>2. q # None => ~(pointer'[o] = NoRequest /\ pointer'[o].id = q)
    BY AbsentRows, Zenon
  <1>3. CASE pointer'[o] = pointer[o]
    BY <1>3, Zenon DEF Over, Pending
  <1>4. CASE pointer'[o] = NoRequest
    BY <1>4, AbsentRows, Zenon DEF Over, Pending
  <1>5. CASE pointer'[o].id = pointer[o].id /\ ~Pending(pointer'[o])
    BY <1>5, Zenon DEF Over, Pending
  <1>6. CASE pointer'[o].id \in DOMAIN call /\ ~Spent(pointer'[o].id)
    BY <1>6, Zenon DEF Over
  <1> QED
    BY <1>1, <1>3, <1>4, <1>5, <1>6, Zenon DEF PointerMoves

LEMMA BarredLasts ==
    ASSUME Evolves, BarredInv, NEW q \in barred
    PROVE  Spent(q)' /\ \A o \in Owners : Over(q, o)'
  BY SpentLasts, OverLasts, Zenon DEF BarredInv

(* What the calls are is no part of the step. *)
LEMMA OpsLast ==
    ASSUME Evolves, OpsInv
    PROVE  OpsInv'
  BY DEF Evolves, OpsInv, IsUpdate, Op

(* What a handler knows lasts through the steps of others. *)
LEMMA IssueLasts ==
    ASSUME TypeInv, Evolves, NEW x \in DOMAIN call, call'[x] = call[x], IssueInv(x)
    PROVE  IssueInv(x)'
  <1> DEFINE r == Saw(x).request
             o == Op(x).owner
  <1>0. Op(x)' = Op(x) /\ Saw(x)' = Saw(x) /\ o \in Owners
    BY OpOfCall, Zenon DEF Op, Saw
  <1> SUFFICES ASSUME At(x, "issue", "commit")
               PROVE  PointerOf(r, o)' /\ ((Named(r) /\ ~Pending(r))' => Over(r.id, o)')
    BY <1>0, Zenon DEF IssueInv, At, Pending
  <1>1. PointerOf(r, o) /\ (Named(r) /\ ~Pending(r) => Over(r.id, o))
    BY Zenon DEF IssueInv
  <1>2. PointerOf(r, o)'
    BY <1>0, <1>1, PointerOfLasts, ZenonT(30) DEF PointerOf, Named, NamedAfter, Spent, Op
  <1>3. CASE r = NoRequest
    BY <1>0, <1>2, <1>3, AbsentRows, Zenon DEF Named
  <1>4. CASE Named(r)
    BY <1>0, <1>1, <1>2, <1>4, OverLasts, Zenon DEF Named, Pending
  <1> QED
    BY <1>1, <1>3, <1>4, Zenon DEF PointerOf

LEMMA StartLasts ==
    ASSUME TypeInv, Evolves, NEW x \in DOMAIN call, call'[x] = call[x], StartInv(x)
    PROVE  StartInv(x)'
  <1>0. Op(x)' = Op(x) /\ Saw(x)' = Saw(x)
    BY Zenon DEF Op, Saw
  <1>1. Named(Saw(x).request) => Named(Saw(x).request)'
    BY <1>0, NamedLasts, Zenon DEF Named, NamedAfter, Spent, Op
  <1> QED
    BY <1>0, <1>1, Zenon DEF StartInv, At

LEMMA StoppedLasts ==
    ASSUME TypeInv, Evolves, (TypeInv)', NEW x \in DOMAIN call, StoppedBy(x)
    PROVE  StoppedBy(x)'
  <1>1. Op(x)' = Op(x) /\ Op(x).chat \in Chats /\ Op(x).update \in Nat
    BY OpOfCall, Zenon DEF Evolves
  <1> DEFINE d == Op(x).chat
  <1>2. fence'[d] >= fence[d] /\ destination'[d].last >= destination[d].last
    BY <1>1, Zenon DEF Evolves
  <1>3. /\ fence[d] \in Nat /\ fence'[d] \in Nat
        /\ destination[d].last \in Nat /\ destination'[d].last \in Nat
    BY <1>1, Zenon DEF TypeInv, Destinations
  <1> HIDE DEF d
  <1>4. fence[d] >= Op(x).update \/ destination[d].last >= Op(x).update
    BY Zenon DEF StoppedBy, d
  <1>5. fence'[d] >= Op(x).update \/ destination'[d].last >= Op(x).update
    BY <1>1, <1>2, <1>3, <1>4
  <1> QED
    BY <1>1, <1>5, Zenon DEF StoppedBy, d

LEMMA StopLasts ==
    ASSUME TypeInv, Evolves, (TypeInv)', NEW x \in DOMAIN call, call'[x] = call[x], StopInv(x)
    PROVE  StopInv(x)'
  <1>1. StoppedBy(x) => StoppedBy(x)'
    BY StoppedLasts, Zenon
  <1> QED
    BY <1>1, Zenon DEF StopInv, At

LEMMA RevokeLasts ==
    ASSUME TypeInv, Evolves, NEW x \in DOMAIN call, call'[x] = call[x], RevokeInv(x)
    PROVE  RevokeInv(x)'
  <1> DEFINE r == Saw(x).request
             issued == Saw(x).issued
             o == Op(x).owner
  <1>0. Op(x)' = Op(x) /\ Saw(x)' = Saw(x) /\ o \in Owners
    BY OpOfCall, Zenon DEF Op, Saw
  <1>1. ASSUME NEW q \in issued, Spent(q) /\ Op(q).owner = o
        PROVE  Spent(q)' /\ Op(q)'.owner = o
    BY <1>1, SpentLasts, Zenon
  <1>2. ASSUME NEW q \in issued, Spent(q), Over(q, o)
        PROVE  Over(q, o)'
    BY <1>0, <1>2, OverLasts, Zenon
  <1>3. PointerOf(r, o) => PointerOf(r, o)'
    BY <1>0, PointerOfLasts, ZenonT(30) DEF PointerOf, Named, NamedAfter, Spent, Op
  <1>4. ASSUME Op(x).kind = "revoke", call[x].pc \in {"request", "commit", "again"}
        PROVE  /\ \A q \in issued : Spent(q)' /\ Op(q)'.owner = o
               /\ (\A q \in issued : Over(q, o)) => (\A q \in issued : Over(q, o)')
    BY <1>1, <1>2, <1>4, Zenon DEF RevokeInv
  <1>5. ASSUME At(x, "revoke", "commit")
        PROVE  PointerOf(r, o)' /\ (~Pending(r) => \A q \in issued : Over(q, o)')
    BY <1>3, <1>4, <1>5, Zenon DEF RevokeInv, At, Op
  <1> HIDE DEF r, issued, o
  <1>6. /\ Op(x).kind = "revoke" /\ call[x].pc \in {"request", "commit", "again"} =>
              \A q \in issued : Spent(q)' /\ Op(q)'.owner = o
        /\ At(x, "revoke", "commit") =>
              PointerOf(r, o)' /\ (~Pending(r) => \A q \in issued : Over(q, o)')
    BY <1>4, <1>5, Zenon
  <1> QED
    BY <1>0, <1>6, Zenon DEF RevokeInv, At, Pending, r, issued, o

LEMMA EarlierLasts ==
    ASSUME NEW read, NEW row, NEW row1, read.version \in Nat, row.version \in Nat,
           row1.version \in Nat, Earlier(read, row), row1 = row \/ row1.version > row.version
    PROVE  Earlier(read, row1)
  BY DEF Earlier

LEMMA PutLasts ==
    ASSUME TypeInv, Evolves, (TypeInv)', NEW x \in DOMAIN call, call'[x] = call[x], PutInv(x)
    PROVE  PutInv(x)'
  <1> DEFINE o == Op(x).owner
  <1>0. Op(x)' = Op(x) /\ Saw(x)' = Saw(x) /\ o \in Owners
    BY OpOfCall, Zenon DEF Op, Saw
  <1>1. /\ Saw(x).preference.version \in Nat /\ Saw(x).binding.version \in Nat
        /\ preference[o].version \in Nat /\ preference'[o].version \in Nat
        /\ binding[o].version \in Nat /\ binding'[o].version \in Nat
    <2>1. /\ preference[o] \in PreferenceRows /\ preference'[o] \in PreferenceRows
          /\ binding[o] \in Bindings /\ binding'[o] \in Bindings
      BY <1>0, Zenon DEF TypeInv
    <2> QED
      BY <2>1, SawTyped, BindingFields, Zenon DEF PreferenceRows
  <1>2. Earlier(Saw(x).preference, preference[o]) => Earlier(Saw(x).preference, preference'[o])
    BY <1>0, <1>1, EarlierLasts, Zenon DEF Evolves
  <1>3. Earlier(Saw(x).binding, binding[o]) => Earlier(Saw(x).binding, binding'[o])
    BY <1>0, <1>1, EarlierLasts, Zenon DEF Evolves
  <1> QED
    BY <1>0, <1>2, <1>3, Zenon DEF PutInv

(* Together. *)
LEMMA CallLasts ==
    ASSUME TypeInv, Evolves, (TypeInv)', NEW x \in DOMAIN call, call'[x] = call[x], CallInv(x)
    PROVE  CallInv(x)'
  <1>1. IssueInv(x)' /\ StartInv(x)' /\ StopInv(x)' /\ RevokeInv(x)' /\ PutInv(x)'
    BY IssueLasts, StartLasts, StopLasts, RevokeLasts, PutLasts, Zenon DEF CallInv
  <1>2. call'[x].at <= now'
    <2>1. call[x].at \in Nat /\ call[x].at <= now /\ now <= now' /\ now \in Nat /\ now' \in Nat
      BY CallTyped, Zenon DEF CallInv, Evolves, TypeInv
    <2> QED
      BY <2>1
  <1> QED
    BY <1>1, <1>2, Zenon DEF CallInv

-----------------------------------------------------------------------------
(* Of what a handler knows only its own kind's part says something. *)
LEMMA ByKind ==
    ASSUME NEW c, (call[c].at <= now)'
    PROVE  /\ Op(c)'.kind = "issue" /\ IssueInv(c)' => CallInv(c)'
           /\ Op(c)'.kind = "start" /\ StartInv(c)' => CallInv(c)'
           /\ Op(c)'.kind = "stop" /\ StopInv(c)' => CallInv(c)'
           /\ Op(c)'.kind = "revoke" /\ RevokeInv(c)' => CallInv(c)'
           /\ Op(c)'.kind = "put" /\ PutInv(c)' => CallInv(c)'
  <1>1. Op(c)'.kind # "issue" => IssueInv(c)'
    BY Zenon DEF IssueInv, At, Op
  <1>2. Op(c)'.kind # "start" => StartInv(c)'
    BY Zenon DEF StartInv, At, Op
  <1>3. Op(c)'.kind # "stop" => StopInv(c)'
    BY Zenon DEF StopInv, At, Op
  <1>4. Op(c)'.kind # "revoke" => RevokeInv(c)'
    BY Zenon DEF RevokeInv, At, Op
  <1>5. Op(c)'.kind # "put" => PutInv(c)'
    BY Zenon DEF PutInv
  <1> QED
    BY <1>1, <1>2, <1>3, <1>4, <1>5, Zenon DEF CallInv

(* A handler that is over, or begins again, knows nothing. *)
LEMMA OverInv ==
    ASSUME NEW c, (call[c].at <= now)', call'[c].pc \in {"ok", "refused", "raised", "begin"},
           Op(c)'.kind = "stop" /\ call'[c].pc = "ok" => StoppedBy(c)'
    PROVE  CallInv(c)'
  <1>1. IssueInv(c)' /\ StartInv(c)'
    BY Zenon DEF IssueInv, StartInv, At
  <1>2. StopInv(c)'
    BY Zenon DEF StopInv, At, Op
  <1>3. RevokeInv(c)' /\ PutInv(c)'
    BY Zenon DEF RevokeInv, PutInv, At
  <1> QED
    BY <1>1, <1>2, <1>3, Zenon DEF CallInv

(* A row that no step touches stays right. *)
LEMMA TokensKept ==
    ASSUME TypeInv, (TypeInv)', Evolves, TokenInv, PointerInv, LiveTokenIsCurrent,
           token' = token, pointer' = pointer
    PROVE  (TokenInv /\ PointerInv /\ LiveTokenIsCurrent)'
  <1>1. TokenInv'
    BY NamedLasts, Zenon DEF TokenInv, Named, NamedAfter, Spent, Op, Evolves
  <1>2. PointerInv'
    BY NamedLasts, Zenon DEF PointerInv, PointerOf, Named, NamedAfter, Spent, Op
  <1>3. LiveTokenIsCurrent'
    <2> SUFFICES ASSUME NEW q \in DOMAIN token, Pending(token[q]), token[q].expires > now'
                 PROVE  pointer[token[q].owner].id = q /\ Pending(pointer[token[q].owner])
      BY Zenon DEF LiveTokenIsCurrent, Live, Pending
    <2>1. token[q].expires \in Nat /\ now \in Nat /\ now' \in Nat /\ now <= now'
      BY Zenon DEF TypeInv, Requests, Evolves
    <2>2. Live(token[q], now)
      BY <2>1 DEF Live
    <2> QED
      BY <2>2, Zenon DEF LiveTokenIsCurrent
  <1> QED
    BY <1>1, <1>2, <1>3, Zenon

LEMMA ChatsKept ==
    ASSUME Evolves, ChatInv, UNCHANGED <<destination, fence, dedupe>>
    PROVE  ChatInv'
  BY DEF Evolves, ChatInv, StoppedBy, Active, There

LEMMA OwnersKept ==
    ASSUME OwnerInv, UNCHANGED <<binding, destination>>
    PROVE  OwnerInv'
  BY Zenon DEF OwnerInv, Verified

LEMMA PreferencesKept ==
    ASSUME PreferenceInv, UNCHANGED preference
    PROVE  PreferenceInv'
  BY Zenon DEF PreferenceInv, There

(* The call that moves is not one whose commit is behind it. *)
LEMMA MovesEvolve ==
    ASSUME NEW c \in DOMAIN call, Moves(c), ~Spent(c)
    PROVE  \A x \in DOMAIN call : Op(x)' = Op(x) /\ (Spent(x) => call'[x] = call[x])
  BY Zenon DEF Moves

(* A step that changes no row: what the handler learns is all there is to    *)
(* show.                                                                     *)
Quiet == UNCHANGED <<now, token, pointer, binding, destination, fence, dedupe, preference,
                     deliverability>>

LEMMA QuietEvolves ==
    ASSUME TypeInv, NEW c \in DOMAIN call, Moves(c), ~Spent(c), Quiet
    PROVE  Evolves /\ (TypeInv)'
  <1>1. \A x \in DOMAIN call : Op(x)' = Op(x) /\ (Spent(x) => call'[x] = call[x])
    BY MovesEvolve, Zenon
  <1>2. DOMAIN call' = DOMAIN call
    BY Zenon DEF Moves
  <1>3. now <= now' /\ now' \in Nat
    BY DEF TypeInv, Quiet
  <1>4. \A o \in Owners : PointerMoves(o)
    BY Zenon DEF Quiet, PointerMoves
  <1>5. \A d \in Chats : fence'[d] >= fence[d] /\ destination'[d].last >= destination[d].last
    BY DEF TypeInv, Quiet, Destinations
  <1>6. Evolves
    BY <1>1, <1>2, <1>3, <1>4, <1>5, Zenon DEF Evolves, Quiet
  <1>7. (TypeInv)'
    BY Zenon DEF TypeInv, Quiet, Moves
  <1> QED
    BY <1>6, <1>7, Zenon

LEMMA QuietStep ==
    ASSUME Inv, NEW c \in DOMAIN call, Moves(c), ~Spent(c), Quiet, CallInv(c)', BarredInv'
    PROVE  Inv'
  <1>1. Evolves /\ (TypeInv)'
    BY QuietEvolves, Zenon DEF Inv
  <1>2. OpsInv'
    BY <1>1, OpsLast, Zenon DEF Inv
  <1>3. (TokenInv /\ PointerInv /\ LiveTokenIsCurrent)'
    BY <1>1, TokensKept, Zenon DEF Inv, Quiet
  <1>4. ChatInv' /\ OwnerInv' /\ PreferenceInv'
    BY <1>1, ChatsKept, OwnersKept, PreferencesKept, Zenon DEF Inv, Quiet
  <1>5. ASSUME NEW x \in DOMAIN call' PROVE CallInv(x)'
    <2>1. x \in DOMAIN call /\ (x # c => call'[x] = call[x])
      BY Zenon DEF Moves
    <2> QED
      BY <1>1, <2>1, CallLasts, Zenon DEF Inv
  <1> QED
    BY <1>1, <1>2, <1>3, <1>4, <1>5, Zenon DEF Inv

LEMMA QuietStepUnbarred ==
    ASSUME Inv, NEW c \in DOMAIN call, Moves(c), ~Spent(c), Quiet, CallInv(c)', barred' = barred
    PROVE  Inv'
  <1>1. Evolves
    BY QuietEvolves, Zenon DEF Inv
  <1>2. BarredInv'
    BY <1>1, BarredLasts, Zenon DEF Inv, BarredInv
  <1> QED
    BY <1>2, QuietStep, Zenon

(* The ways a handler ends without a row written. *)
LEMMA EndStep ==
    ASSUME Inv, NEW c \in DOMAIN call, NEW out \in {"ok", "refused", "raised"}, ~Spent(c),
           Quiet, barred' = barred, call' = [call EXCEPT ![c] = Ended(c, out)],
           Op(c).kind = "stop" /\ out = "ok" => StoppedBy(c)
    PROVE  Inv'
  <1>1. out \in Places
    BY Zenon DEF Places
  <1>2. Moves(c) /\ call'[c].pc = out /\ call'[c].at = call[c].at
    BY <1>1, EndMoves, Zenon DEF Inv
  <1>3. Op(c)' = Op(c) /\ (call[c].at <= now)'
    BY <1>2, Zenon DEF Moves, Inv, CallInv, Quiet
  <1>4. StoppedBy(c) => StoppedBy(c)'
    BY <1>3, Zenon DEF StoppedBy, Quiet
  <1>5. CallInv(c)'
    BY <1>2, <1>3, <1>4, OverInv, Zenon
  <1> QED
    BY <1>2, <1>5, QuietStepUnbarred, Zenon

LEMMA UnavailableStep ==
    ASSUME Inv, NEW c \in DOMAIN call, ~Spent(c), Unavailable(c), UNCHANGED preferenceVars
    PROVE  Inv'
  BY EndStep, Zenon DEF Unavailable, Quiet, telegramRows, preferenceVars

LEMMA RetryStep ==
    ASSUME Inv, NEW c \in DOMAIN call, Op(c).kind \in {"stop", "revoke"}, ~Spent(c),
           call[c].pc = "commit", Retry(c), UNCHANGED preferenceVars
    PROVE  Inv'
  <1>0. Quiet /\ barred' = barred
    BY Zenon DEF Retry, Quiet, telegramVars, telegramRows, preferenceVars
  <1>1. CASE call[c].try < MaxTries
    <2> DEFINE n == call[c].try + 1
               r == [call[c] EXCEPT !.pc = "again", !.try = n]
    <2>1. call' = [call EXCEPT ![c] = r]
      BY <1>1, Zenon DEF Retry
    <2>2. call[c] \in CallRows /\ n \in Nat
      BY CallTyped DEF Inv, CallRows
    <2> HIDE DEF n
    <2>3. /\ r \in CallRows /\ r.op = Op(c) /\ r.pc = "again" /\ r.saw = Saw(c)
          /\ r.at = call[c].at
      BY <2>2, Zenon DEF CallRows, Places, Op, Saw
    <2> HIDE DEF r
    <2>4. Moves(c) /\ call'[c] = r
      BY <2>1, <2>3, Becomes, ZenonT(30) DEF Inv
    <2>5. /\ Op(c)' = Op(c) /\ Saw(c)' = Saw(c) /\ call'[c].pc = "again"
          /\ (call[c].at <= now)'
      BY <2>3, <2>4, <1>0, Zenon DEF Moves, Saw, Inv, CallInv, Quiet
    <2>6. CASE Op(c).kind = "stop"
      <3>1. StopInv(c)'
        BY <2>5, Zenon DEF StopInv, At
      <3> QED
        BY <2>4, <2>5, <2>6, <3>1, <1>0, ByKind, QuietStepUnbarred, Zenon
    <2>7. CASE Op(c).kind = "revoke"
      <3>1. \A q \in Saw(c).issued : Spent(q) /\ Op(q).owner = Op(c).owner
        BY <2>7, ZenonT(30) DEF Inv, CallInv, RevokeInv
      <3>2. Evolves
        BY <2>4, <1>0, QuietEvolves, Zenon DEF Inv
      <3>3. RevokeInv(c)'
        BY <2>5, <3>1, <3>2, SpentLasts DEF RevokeInv, At
      <3> QED
        BY <2>4, <2>5, <2>7, <3>3, <1>0, ByKind, QuietStepUnbarred, ZenonT(30)
    <2> QED
      BY <2>6, <2>7, Zenon
  <1>2. CASE ~(call[c].try < MaxTries)
    <2>1. call' = [call EXCEPT ![c] = Ended(c, "raised")]
      BY <1>2, Zenon DEF Retry
    <2> QED
      BY <2>1, <1>0, EndStep, Zenon
  <1> QED
    BY <1>1, <1>2, Zenon

(* The handlers that only read. *)
LEMMA IssueReadStep ==
    ASSUME Inv, NEW c \in DOMAIN call, IssueRead(c), UNCHANGED preferenceVars
    PROVE  Inv'
  <1> DEFINE o == Op(c).owner
             saw == [Unread EXCEPT !.request = pointer[o]]
  <1>0. Quiet /\ barred' = barred /\ ~Spent(c) /\ Op(c).kind = "issue" /\ TypeInv
    BY Zenon DEF IssueRead, Begin, At, Op, Spent, Inv, Quiet, telegramVars, telegramRows, preferenceVars
  <1>1. pointer[o] \in Requests /\ o \in Owners
    BY <1>0, OpOfCall, Zenon DEF TypeInv
  <1>2. saw \in SawRows /\ saw.request = pointer[o]
    BY <1>1, AbsentTyped, Zenon DEF Unread, SawRows
  <1>3. call' = [call EXCEPT ![c].pc = "commit", ![c].saw = saw, ![c].at = now]
    BY Zenon DEF IssueRead, Begin
  <1> HIDE DEF saw
  <1>4. Moves(c) /\ call'[c].pc = "commit" /\ call'[c].saw = saw /\ call'[c].at = now
    BY <1>0, <1>2, <1>3, BeginMoves, Zenon DEF Places
  <1>5. /\ Op(c)' = Op(c) /\ Saw(c)' = saw /\ (call[c].at <= now)'
    BY <1>0, <1>4 DEF Moves, Saw, Quiet, TypeInv
  <1>6. Evolves
    BY <1>0, <1>4, QuietEvolves, Zenon
  <1>7. PointerOf(pointer[o], o)'
    <2>1. PointerInv'
      BY <1>0, <1>6, PointersLast, Zenon DEF Inv, Quiet
    <2>2. Op(c)'.owner \in Owners
      BY <1>1, <1>5, Zenon
    <2> QED
      BY <2>1, <2>2, Zenon DEF PointerInv
  <1>8. ~Pending(pointer[o]) => Over(pointer[o].id, o)'
    BY <1>0, <1>5, Zenon DEF Over, Quiet
  <1>9. IssueInv(c)'
    BY <1>0, <1>2, <1>5, <1>7, <1>8 DEF IssueInv, Quiet, Pending
  <1> QED
    BY <1>0, <1>4, <1>5, <1>9, ByKind, QuietStepUnbarred, Zenon

(* "/start": what the token row says of its request. *)
LEMMA TokenNamed ==
    ASSUME Inv, NEW q \in DOMAIN call, Pending(token[q])
    PROVE  Named(token[q]) /\ token[q].id = q
  BY AbsentRows, Zenon DEF Inv, TokenInv

LEMMA StartLookupStep ==
    ASSUME Inv, NEW c \in DOMAIN call, StartLookup(c), UNCHANGED preferenceVars
    PROVE  Inv'
  <1> DEFINE q == Op(c).token
             saw == [Unread EXCEPT !.request = token[q]]
  <1>0. Quiet /\ barred' = barred /\ ~Spent(c) /\ Op(c).kind = "start" /\ TypeInv
    BY Zenon DEF StartLookup, Begin, End, At, Op, Spent, Inv, Quiet, telegramVars, telegramRows,
           preferenceVars
  <1>1. CASE Live(token[q], now)
    <2>1. q \in DOMAIN call
      BY <1>0, Zenon DEF Inv, OpsInv
    <2>2. token[q] \in Requests
      BY <1>0, <2>1, Zenon DEF TypeInv
    <2>3. saw \in SawRows
      BY <2>2, AbsentTyped, Zenon DEF Unread, SawRows
    <2>4. call' = [call EXCEPT ![c].pc = "member", ![c].saw = saw, ![c].at = now]
      BY <1>1, Zenon DEF StartLookup, Begin
    <2> HIDE DEF saw
    <2>5. Moves(c) /\ call'[c].pc = "member" /\ call'[c].at = now
      BY <1>0, <2>3, <2>4, BeginMoves, Zenon DEF Places
    <2>6. Op(c)' = Op(c) /\ (call[c].at <= now)' /\ StartInv(c)'
      BY <1>0, <2>5 DEF Moves, Quiet, TypeInv, StartInv, At
    <2> QED
      BY <1>0, <2>5, <2>6, ByKind, QuietStepUnbarred, Zenon
  <1>2. CASE ~Live(token[q], now)
    <2>1. call' = [call EXCEPT ![c] = Ended(c, "ok")]
      BY <1>2, Zenon DEF StartLookup, End
    <2> QED
      BY <1>0, <2>1, EndStep, Zenon
  <1> QED
    BY <1>1, <1>2, Zenon

LEMMA StartMembershipStep ==
    ASSUME Inv, NEW c \in DOMAIN call, StartMembership(c), UNCHANGED preferenceVars
    PROVE  Inv'
  <1>0. Quiet /\ barred' = barred /\ ~Spent(c) /\ Op(c).kind = "start" /\ TypeInv
    BY Zenon DEF StartMembership, At, Op, Spent, Inv, Quiet, telegramRows, preferenceVars
  <1> DEFINE r == [call[c] EXCEPT !.pc = "lookup"]
  <1>1. call' = [call EXCEPT ![c] = r] \/ call' = [call EXCEPT ![c] = Ended(c, "ok")]
    BY Zenon DEF StartMembership
  <1>2. CASE call' = [call EXCEPT ![c] = r]
    <2>1. call[c] \in CallRows
      BY <1>0, CallTyped, Zenon
    <2>2. r \in CallRows /\ r.op = Op(c) /\ r.pc = "lookup" /\ r.at = call[c].at
      BY <2>1, Zenon DEF CallRows, Places, Op
    <2> HIDE DEF r
    <2>3. Moves(c) /\ call'[c] = r
      BY <1>0, <1>2, <2>2, Becomes, Zenon
    <2>4. Op(c)' = Op(c) /\ (call[c].at <= now)' /\ StartInv(c)'
      BY <1>0, <2>2, <2>3, Zenon DEF Moves, Quiet, StartInv, At, Inv, CallInv
    <2> QED
      BY <1>0, <2>3, <2>4, ByKind, QuietStepUnbarred, Zenon
  <1>3. CASE call' = [call EXCEPT ![c] = Ended(c, "ok")]
    BY <1>0, <1>3, EndStep, ZenonT(30)
  <1> QED
    BY <1>1, <1>2, <1>3, Zenon

LEMMA ConsumeLookupStep ==
    ASSUME Inv, NEW c \in DOMAIN call, ConsumeLookup(c), UNCHANGED preferenceVars
    PROVE  Inv'
  <1> DEFINE q == Op(c).token
             saw == [Unread EXCEPT !.request = token[q]]
  <1>0. Quiet /\ barred' = barred /\ ~Spent(c) /\ Op(c).kind = "start" /\ TypeInv
    BY Zenon DEF ConsumeLookup, GoTo, End, At, Op, Spent, Inv, Quiet, telegramVars, telegramRows,
           preferenceVars
  <1>1. CASE Live(token[q], call[c].at)
    <2>1. q \in DOMAIN call
      BY <1>0, Zenon DEF Inv, OpsInv
    <2>2. token[q] \in Requests /\ Named(token[q])
      BY <1>0, <1>1, <2>1, TokenNamed, Zenon DEF TypeInv, Live
    <2>3. saw \in SawRows /\ saw.request = token[q]
      BY <2>2, AbsentTyped, Zenon DEF Unread, SawRows
    <2>4. call' = [call EXCEPT ![c].pc = "binding", ![c].saw = saw]
      BY <1>1, Zenon DEF ConsumeLookup, GoTo
    <2> HIDE DEF saw
    <2>5. /\ Moves(c) /\ call'[c].pc = "binding" /\ call'[c].saw = saw
          /\ call'[c].at = call[c].at
      BY <1>0, <2>3, <2>4, GoToMoves, ZenonT(30) DEF Places
    <2>6. Op(c)' = Op(c) /\ (call[c].at <= now)' /\ Saw(c)' = saw
      BY <1>0, <2>5, Zenon DEF Moves, Quiet, Inv, CallInv, Saw
    <2>7. Evolves
      BY <1>0, <2>5, QuietEvolves, Zenon
    <2>8. StartInv(c)'
      BY <2>2, <2>3, <2>6, <2>7, NamedLasts, ZenonT(30) DEF StartInv, Named, NamedAfter, Spent, Op
    <2> QED
      BY <1>0, <2>5, <2>6, <2>8, ByKind, QuietStepUnbarred, ZenonT(30)
  <1>2. CASE ~Live(token[q], call[c].at)
    <2>1. call' = [call EXCEPT ![c] = Ended(c, "ok")]
      BY <1>2, Zenon DEF ConsumeLookup, End
    <2> QED
      BY <1>0, <2>1, EndStep, Zenon
  <1> QED
    BY <1>1, <1>2, Zenon

LEMMA ConsumeReadBindingStep ==
    ASSUME Inv, NEW c \in DOMAIN call, ConsumeReadBinding(c), UNCHANGED preferenceVars
    PROVE  Inv'
  <1> DEFINE r == Saw(c).request
             saw == [Saw(c) EXCEPT !.binding = binding[r.owner]]
  <1>0. Quiet /\ barred' = barred /\ ~Spent(c) /\ Op(c).kind = "start" /\ TypeInv
    BY Zenon DEF ConsumeReadBinding, GoTo, At, Op, Spent, Inv, Quiet, telegramVars, telegramRows,
           preferenceVars
  <1>1. Named(r)
    BY Zenon DEF ConsumeReadBinding, Inv, CallInv, StartInv
  <1>2. binding[r.owner] \in Bindings /\ Saw(c) \in SawRows
    BY <1>0, <1>1, OpOfCall, CallTyped, Zenon DEF Named, Spent, TypeInv
  <1>3. saw \in SawRows /\ saw.request = r
    BY <1>2, Zenon DEF SawRows
  <1>4. call' = [call EXCEPT ![c].pc = "commit", ![c].saw = saw]
    BY Zenon DEF ConsumeReadBinding, GoTo
  <1> HIDE DEF saw
  <1>5. Moves(c) /\ call'[c].pc = "commit" /\ call'[c].saw = saw /\ call'[c].at = call[c].at
    BY <1>0, <1>3, <1>4, GoToMoves, ZenonT(30) DEF Places
  <1>6. Op(c)' = Op(c) /\ (call[c].at <= now)' /\ Saw(c)' = saw
    BY <1>0, <1>5, Zenon DEF Moves, Quiet, Inv, CallInv, Saw
  <1>7. Evolves
    BY <1>0, <1>5, QuietEvolves, Zenon
  <1>8. StartInv(c)'
    BY <1>1, <1>3, <1>6, <1>7, NamedLasts, ZenonT(30) DEF StartInv, Named, NamedAfter, Spent, Op
  <1> QED
    BY <1>0, <1>5, <1>6, <1>8, ByKind, QuietStepUnbarred, Zenon

LEMMA StopReadStep ==
    ASSUME Inv, NEW c \in DOMAIN call, StopRead(c), UNCHANGED preferenceVars
    PROVE  Inv'
  <1> DEFINE row == destination[Op(c).chat]
             saw == [Unread EXCEPT !.destination = row]
             seen == There(row) /\ row.last >= Op(c).update
  <1>0. Quiet /\ barred' = barred /\ ~Spent(c) /\ Op(c).kind = "stop" /\ TypeInv
    BY Zenon DEF StopRead, GoTo, End, Op, Spent, Inv, Quiet, telegramVars, telegramRows,
           preferenceVars
  <1>1. CASE seen
    <2>1. call' = [call EXCEPT ![c] = Ended(c, "ok")]
      BY <1>1, Zenon DEF StopRead, End
    <2>2. StoppedBy(c)
      BY <1>1, Zenon DEF StoppedBy
    <2> QED
      BY <1>0, <2>1, <2>2, EndStep, Zenon
  <1>2. CASE ~seen
    <2>1. row \in Destinations
      BY <1>0, OpOfCall, Zenon DEF TypeInv
    <2>2. saw \in SawRows
      BY <2>1, AbsentTyped, Zenon DEF Unread, SawRows
    <2>3. call' = [call EXCEPT ![c].pc = "commit", ![c].saw = saw]
      BY <1>2, Zenon DEF StopRead, GoTo
    <2> HIDE DEF saw
    <2>4. Moves(c) /\ call'[c].pc = "commit" /\ call'[c].at = call[c].at
      BY <1>0, <2>2, <2>3, GoToMoves, ZenonT(30) DEF Places
    <2>5. Op(c)' = Op(c) /\ (call[c].at <= now)' /\ StopInv(c)'
      BY <1>0, <2>4, Zenon DEF Moves, Quiet, Inv, CallInv, StopInv, At
    <2> QED
      BY <1>0, <2>4, <2>5, ByKind, QuietStepUnbarred, Zenon
  <1> QED
    BY <1>1, <1>2, Zenon

LEMMA RedeliverStep ==
    ASSUME Inv, NEW c \in DOMAIN call, Redeliver(c), UNCHANGED preferenceVars
    PROVE  Inv'
  <1>0. Quiet /\ barred' = barred /\ ~Spent(c) /\ TypeInv
    BY Zenon DEF Redeliver, IsUpdate, Op, Spent, Inv, Quiet, telegramVars, telegramRows,
           preferenceVars
  <1> DEFINE n == call[c].delivery + 1
             r == [call[c] EXCEPT !.pc = "begin", !.try = 1, !.delivery = n]
  <1>1. call[c] \in CallRows /\ n \in Nat
    BY <1>0, CallTyped DEF CallRows
  <1>2. call' = [call EXCEPT ![c] = r]
    BY Zenon DEF Redeliver
  <1> HIDE DEF n
  <1>3. r \in CallRows /\ r.op = Op(c) /\ r.pc = "begin" /\ r.at = call[c].at
    BY <1>1, Zenon DEF CallRows, Places, Op
  <1> HIDE DEF r
  <1>4. Moves(c) /\ call'[c] = r
    BY <1>0, <1>2, <1>3, Becomes, ZenonT(30)
  <1>5. (call[c].at <= now)'
    BY <1>0, <1>3, <1>4, Zenon DEF Quiet, Inv, CallInv
  <1>6. CallInv(c)'
    BY <1>3, <1>4, <1>5, OverInv, Zenon
  <1> QED
    BY <1>0, <1>4, <1>6, QuietStepUnbarred, Zenon

(* What was issued to an owner was issued by calls that are over. *)
LEMMA IssuedSpent ==
    ASSUME Inv, NEW o \in Owners, NEW q \in IssuedTo(o)
    PROVE  Spent(q) /\ Op(q).owner = o /\ q \in Names
  <1>1. q \in DOMAIN call /\ token[q].owner = o /\ q \in Names
    BY Zenon DEF IssuedTo, Inv, TypeInv
  <1>2. token[q] # NoRequest
    BY <1>1, OwnersNamed DEF NoRequest
  <1> QED
    BY <1>1, <1>2, Zenon DEF Inv, TokenInv, Named

LEMMA RevokeReadBindingStep ==
    ASSUME Inv, NEW c \in DOMAIN call, RevokeReadBinding(c), UNCHANGED preferenceVars
    PROVE  Inv'
  <1> DEFINE o == Op(c).owner
  <1>0. Quiet /\ barred' = barred /\ ~Spent(c) /\ Op(c).kind = "revoke" /\ TypeInv
    BY Zenon DEF RevokeReadBinding, GoTo, Begin, Op, Spent, Inv, Quiet, telegramVars, telegramRows,
           preferenceVars
  <1>1. binding[o] \in Bindings /\ o \in Owners
    BY <1>0, OpOfCall, Zenon DEF TypeInv
  <1>2. ASSUME NEW saw \in SawRows, \A q \in saw.issued : Spent(q) /\ Op(q).owner = o,
               call'[c].pc = "request", call'[c].saw = saw, (call[c].at <= now)', Moves(c)
        PROVE  Inv'
    <2>1. Op(c)' = Op(c) /\ Saw(c)' = saw
      BY <1>2, Zenon DEF Moves, Saw
    <2>2. Evolves
      BY <1>0, <1>2, QuietEvolves, Zenon
    <2>3. RevokeInv(c)'
      BY <1>2, <2>1, <2>2, SpentLasts, Zenon DEF RevokeInv, At
    <2> QED
      BY <1>0, <1>2, <2>1, <2>3, ByKind, QuietStepUnbarred, Zenon
  <1>3. CASE call[c].pc = "begin"
    <2> DEFINE saw == [Unread EXCEPT !.binding = binding[o], !.issued = IssuedTo(o)]
    <2>1. \A q \in IssuedTo(o) : Spent(q) /\ Op(q).owner = o /\ q \in Names
      BY <1>1, IssuedSpent, Zenon
    <2>2. saw \in SawRows /\ saw.issued = IssuedTo(o)
      BY <1>1, <2>1, AbsentTyped, Zenon DEF Unread, SawRows
    <2>3. call' = [call EXCEPT ![c].pc = "request", ![c].saw = saw, ![c].at = now]
      BY <1>3, Zenon DEF RevokeReadBinding, Begin
    <2> HIDE DEF saw
    <2>4. Moves(c) /\ call'[c].pc = "request" /\ call'[c].saw = saw /\ call'[c].at = now
      BY <1>0, <2>2, <2>3, BeginMoves, Zenon DEF Places
    <2>5. (call[c].at <= now)'
      BY <1>0, <2>4 DEF Quiet, TypeInv
    <2> QED
      BY <1>2, <2>1, <2>2, <2>4, <2>5, Zenon
  <1>4. CASE call[c].pc = "again"
    <2> DEFINE saw == [Saw(c) EXCEPT !.binding = binding[o]]
    <2>1. \A q \in Saw(c).issued : Spent(q) /\ Op(q).owner = o
      BY <1>0, <1>4, Zenon DEF Inv, CallInv, RevokeInv
    <2>2. saw \in SawRows /\ saw.issued = Saw(c).issued
      BY <1>0, <1>1, CallTyped, Zenon DEF SawRows
    <2>3. call' = [call EXCEPT ![c].pc = "request", ![c].saw = saw]
      BY <1>4, Zenon DEF RevokeReadBinding, GoTo
    <2> HIDE DEF saw
    <2>4. Moves(c) /\ call'[c].pc = "request" /\ call'[c].saw = saw /\ call'[c].at = call[c].at
      BY <1>0, <2>2, <2>3, GoToMoves, ZenonT(30) DEF Places
    <2>5. (call[c].at <= now)'
      BY <1>0, <2>4, Zenon DEF Quiet, Inv, CallInv
    <2> QED
      BY <1>2, <2>1, <2>2, <2>4, <2>5, Zenon
  <1> QED
    BY <1>3, <1>4, Zenon DEF RevokeReadBinding

(* Another owner's request is none of those a revoke is about. *)
LEMMA OverForAll ==
    ASSUME Inv, NEW o \in Owners, NEW q, Spent(q), Op(q).owner = o, Over(q, o), NEW p \in Owners
    PROVE  Over(q, p)
  <1> SUFFICES ASSUME pointer[p].id = q
               PROVE  ~Pending(pointer[p])
    BY Zenon DEF Over
  <1>1. q # None
    BY CallTyped, Zenon DEF Spent, Inv
  <1>2. pointer[p] # NoRequest
    BY <1>1, AbsentRows, Zenon
  <1>3. p = o
    BY <1>2, Zenon DEF Inv, PointerInv, PointerOf, Named
  <1> QED
    BY <1>3, Zenon DEF Over

LEMMA RevokeReadRequestStep ==
    ASSUME Inv, NEW c \in DOMAIN call, RevokeReadRequest(c), UNCHANGED preferenceVars
    PROVE  Inv'
  <1> DEFINE o == Op(c).owner
             request == pointer[o]
             revocable == Revocable(Saw(c).binding, request)
  <1>0. Quiet /\ ~Spent(c) /\ Op(c).kind = "revoke" /\ call[c].pc = "request" /\ TypeInv
    BY Zenon DEF RevokeReadRequest, GoTo, At, Op, Spent, Inv, Quiet, telegramVars, telegramRows,
           preferenceVars
  <1>1. request \in Requests /\ o \in Owners
    BY <1>0, OpOfCall, Zenon DEF TypeInv
  <1>2. \A q \in Saw(c).issued : Spent(q) /\ Op(q).owner = o
    BY <1>0, Zenon DEF Inv, CallInv, RevokeInv
  <1>3. ~Pending(request) => \A q : Over(q, o)
    BY Zenon DEF Over
  <1>4. CASE revocable
    <2> DEFINE saw == [Saw(c) EXCEPT !.request = request]
    <2>1. saw \in SawRows /\ saw.issued = Saw(c).issued /\ saw.request = request
      BY <1>0, <1>1, CallTyped, Zenon DEF SawRows
    <2>2. call' = [call EXCEPT ![c].pc = "commit", ![c].saw = saw] /\ barred' = barred
      BY <1>4, Zenon DEF RevokeReadRequest, GoTo, telegramVars
    <2> HIDE DEF saw
    <2>3. Moves(c) /\ call'[c].pc = "commit" /\ call'[c].saw = saw /\ call'[c].at = call[c].at
      BY <1>0, <2>1, <2>2, GoToMoves, ZenonT(30) DEF Places
    <2>4. (call[c].at <= now)' /\ Op(c)' = Op(c) /\ Saw(c)' = saw
      BY <1>0, <2>3, Zenon DEF Quiet, Inv, CallInv, Moves, Saw
    <2>5. Evolves
      BY <1>0, <2>3, QuietEvolves, Zenon
    <2>6. \A q \in saw.issued : Spent(q)' /\ Op(q)'.owner = o
      BY <1>2, <2>1, <2>5, SpentLasts, SMTT(30)
    <2>7. PointerOf(request, o)'
      <3>1. PointerInv'
        BY <1>0, <2>5, PointersLast, Zenon DEF Inv, Quiet
      <3>2. Op(c)'.owner \in Owners
        BY <1>1, <2>4, Zenon
      <3> QED
        BY <3>1, <3>2, Zenon DEF PointerInv
    <2>8. ~Pending(request) => \A q : Over(q, o)'
      BY <1>0, <1>3, <2>4, Zenon DEF Over, Quiet
    <2>9. RevokeInv(c)'
      BY <1>0, <2>1, <2>4, <2>6, <2>7, <2>8, Zenon DEF RevokeInv, Quiet, Pending
    <2> QED
      BY <1>0, <2>2, <2>3, <2>4, <2>9, ByKind, QuietStepUnbarred, Zenon
  <1>5. CASE ~revocable
    <2>1. /\ call' = [call EXCEPT ![c] = Ended(c, "ok")]
          /\ barred' = barred \cup Saw(c).issued
      BY <1>5, Zenon DEF RevokeReadRequest
    <2>2. Moves(c) /\ call'[c].pc = "ok" /\ call'[c].at = call[c].at
      BY <1>0, <2>1, EndMoves, Zenon DEF Places
    <2>3. (call[c].at <= now)' /\ Op(c)' = Op(c)
      BY <1>0, <2>2, Zenon DEF Quiet, Inv, CallInv, Moves
    <2>4. CallInv(c)'
      BY <1>0, <2>2, <2>3, OverInv, Zenon
    <2>5. Evolves
      BY <1>0, <2>2, QuietEvolves, Zenon
    <2>6. ~Pending(request)
      BY <1>5, Zenon DEF Revocable
    <2>7. \A q \in Saw(c).issued : Spent(q) /\ \A p \in Owners : Over(q, p)
      BY <1>1, <1>2, <1>3, <2>6, OverForAll, Zenon
    <2>8. \A q \in Saw(c).issued : Spent(q)' /\ \A p \in Owners : Over(q, p)'
      BY <2>5, <2>7, SpentLasts, OverLasts, Zenon
    <2>9. BarredInv'
      BY <2>1, <2>5, <2>8, BarredLasts, Zenon DEF Inv, BarredInv
    <2> QED
      BY <1>0, <2>2, <2>4, <2>9, QuietStep, Zenon
  <1> QED
    BY <1>4, <1>5, Zenon
(* PUT /notification-preferences, up to its commit. *)
LEMMA PutReadStep ==
    ASSUME Inv, NEW c \in DOMAIN call, PutRead(c)
    PROVE  Inv'
  <1> DEFINE existing == preference[Op(c).owner]
             saw == [Unread EXCEPT !.preference = existing]
  <1>0. Quiet /\ barred' = barred /\ ~Spent(c) /\ Op(c).kind = "put" /\ TypeInv
    BY Zenon DEF PutRead, GoTo, End, At, Op, Spent, Inv, Quiet, telegramVars, telegramRows,
           preferenceVars
  <1>1. CASE existing.version = Op(c).version
    <2>1. existing \in PreferenceRows
      BY <1>0, OpOfCall, Zenon DEF TypeInv
    <2>2. saw \in SawRows /\ saw.preference = existing
      BY <2>1, AbsentTyped, Zenon DEF Unread, SawRows
    <2>3. call' = [call EXCEPT ![c].pc = "binding", ![c].saw = saw]
      BY <1>1, Zenon DEF PutRead, GoTo
    <2> HIDE DEF saw
    <2>4. Moves(c) /\ call'[c].pc = "binding" /\ call'[c].saw = saw /\ call'[c].at = call[c].at
      BY <1>0, <2>2, <2>3, GoToMoves, Zenon DEF Places
    <2>5. (call[c].at <= now)' /\ Op(c)' = Op(c) /\ Saw(c)' = saw
      BY <1>0, <2>4, Zenon DEF Quiet, Inv, CallInv, Moves, Saw
    <2>6. Earlier(existing, existing)
      BY <2>1, SMTT(30) DEF Earlier, PreferenceRows
    <2>7. PutInv(c)'
      BY <1>0, <1>1, <2>2, <2>4, <2>5, <2>6, Zenon DEF PutInv, Quiet
    <2> QED
      BY <1>0, <2>4, <2>5, <2>7, ByKind, QuietStepUnbarred, Zenon
  <1>2. CASE existing.version # Op(c).version
    <2>1. call' = [call EXCEPT ![c] = Ended(c, "refused")]
      BY <1>2, Zenon DEF PutRead, End
    <2> QED
      BY <1>0, <2>1, EndStep, ZenonT(30)
  <1> QED
    BY <1>1, <1>2, Zenon

(* What the handler has read by then. *)
LEMMA PutHasRead ==
    ASSUME Inv, NEW c \in DOMAIN call, Op(c).kind = "put",
           call[c].pc \in {"binding", "destination", "identity", "legacy", "commit"}
    PROVE  /\ Saw(c).preference.version = Op(c).version
           /\ Earlier(Saw(c).preference, preference[Op(c).owner])
           /\ call[c].pc # "binding" => Earlier(Saw(c).binding, binding[Op(c).owner])
           /\ call[c].pc \in {"legacy", "commit"} => call[c].wants.version = Op(c).version + 1
  BY Zenon DEF Inv, CallInv, PutInv

LEMMA PutReadBindingStep ==
    ASSUME Inv, NEW c \in DOMAIN call, PutReadBinding(c)
    PROVE  Inv'
  <1> DEFINE bound == binding[Op(c).owner]
             saw == [Saw(c) EXCEPT !.binding = bound]
  <1>0. /\ Quiet /\ barred' = barred /\ ~Spent(c) /\ Op(c).kind = "put" /\ TypeInv
        /\ call[c].pc = "binding"
    BY Zenon DEF PutReadBinding, GoTo, At, Op, Spent, Inv, Quiet, telegramVars, telegramRows,
           preferenceVars
  <1>1. bound \in Bindings
    BY <1>0, OpOfCall, Zenon DEF TypeInv
  <1>2. saw \in SawRows /\ saw.preference = Saw(c).preference /\ saw.binding = bound
    BY <1>0, <1>1, CallTyped, Zenon DEF SawRows
  <1>3. call' = [call EXCEPT ![c].pc = "destination", ![c].saw = saw]
    BY Zenon DEF PutReadBinding, GoTo
  <1> HIDE DEF saw
  <1>4. Moves(c) /\ call'[c].pc = "destination" /\ call'[c].saw = saw /\ call'[c].at = call[c].at
    BY <1>0, <1>2, <1>3, GoToMoves, ZenonT(30) DEF Places
  <1>5. (call[c].at <= now)' /\ Op(c)' = Op(c) /\ Saw(c)' = saw
    BY <1>0, <1>4, Zenon DEF Quiet, Inv, CallInv, Moves, Saw
  <1>6. Earlier(bound, bound)
    BY <1>1, BindingFields, SMTT(30) DEF Earlier
  <1>7. PutInv(c)'
    BY <1>0, <1>2, <1>4, <1>5, <1>6, PutHasRead, ZenonT(30) DEF PutInv, Quiet
  <1> QED
    BY <1>0, <1>4, <1>5, <1>7, ByKind, QuietStepUnbarred, Zenon

LEMMA PutReadDestinationStep ==
    ASSUME Inv, NEW c \in DOMAIN call, PutReadDestination(c)
    PROVE  Inv'
  <1> DEFINE bound == Saw(c).binding
             reached == IF There(bound) THEN destination[bound.chat] ELSE NoDestination
             saw == [Saw(c) EXCEPT !.destination = reached]
             refused == WantsTelegram(c) /\ ~Eligible(bound, reached)
  <1>0. /\ Quiet /\ barred' = barred /\ ~Spent(c) /\ Op(c).kind = "put" /\ TypeInv
        /\ call[c].pc = "destination"
    BY Zenon DEF PutReadDestination, GoTo, End, At, Op, Spent, Inv, Quiet, telegramVars, telegramRows,
           preferenceVars
  <1>1. CASE refused
    <2>1. call' = [call EXCEPT ![c] = Ended(c, "refused")]
      BY <1>1, Zenon DEF PutReadDestination, End
    <2> QED
      BY <1>0, <2>1, EndStep, Zenon
  <1>2. CASE ~refused
    <2>1. reached \in Destinations
      BY <1>0, AbsentTyped, SawTyped, BindingFields, Zenon DEF TypeInv
    <2>2. /\ saw \in SawRows /\ saw.preference = Saw(c).preference
          /\ saw.binding = Saw(c).binding
      BY <1>0, <2>1, CallTyped, Zenon DEF SawRows
    <2>3. call' = [call EXCEPT ![c].pc = "identity", ![c].saw = saw]
      BY <1>2, Zenon DEF PutReadDestination, GoTo
    <2> HIDE DEF saw
    <2>4. Moves(c) /\ call'[c].pc = "identity" /\ call'[c].saw = saw /\ call'[c].at = call[c].at
      BY <1>0, <2>2, <2>3, GoToMoves, ZenonT(30) DEF Places
    <2>5. (call[c].at <= now)' /\ Op(c)' = Op(c) /\ Saw(c)' = saw
      BY <1>0, <2>4, ZenonT(30) DEF Quiet, Inv, CallInv, Moves, Saw
    <2>6. PutInv(c)'
      BY <1>0, <2>2, <2>4, <2>5, PutHasRead, ZenonT(30) DEF PutInv, Quiet
    <2> QED
      BY <1>0, <2>4, <2>5, <2>6, ByKind, QuietStepUnbarred, Zenon
  <1> QED
    BY <1>1, <1>2, Zenon

LEMMA DesiredTyped ==
    ASSUME TypeInv, NEW c \in DOMAIN call, NEW address \in Addresses \cup {None}
    PROVE  Desired(c, address) \in PreferenceRows /\ Desired(c, address).version = Op(c).version + 1
  <1>1. WantsTelegram(c) \in BOOLEAN
    BY SawTyped, Zenon DEF WantsTelegram, PreferenceRows
  <1>2. Op(c).version + 1 \in Nat /\ Op(c).email \in BOOLEAN /\ Op(c).severity \in Severities
    BY OpOfCall
  <1> QED
    BY <1>1, <1>2, Zenon DEF Desired, PreferenceRows

LEMMA PutVerifyStep ==
    ASSUME Inv, NEW c \in DOMAIN call, PutVerify(c)
    PROVE  Inv'
  <1>0. /\ Quiet /\ barred' = barred /\ ~Spent(c) /\ Op(c).kind = "put" /\ TypeInv
        /\ call[c].pc = "identity"
    BY Zenon DEF PutVerify, GoTo, End, At, Op, Spent, Inv, Quiet, telegramVars, telegramRows,
           preferenceVars
  <1>1. CASE \E out \in {"ok", "refused"} : call' = [call EXCEPT ![c] = Ended(c, out)]
    BY <1>0, <1>1, EndStep, Zenon
  <1>2. ASSUME NEW address \in Addresses \cup {None},
               call' = [call EXCEPT ![c].pc = "legacy", ![c].wants = Desired(c, address)]
        PROVE  Inv'
    <2> DEFINE wants == Desired(c, address)
               r == [call[c] EXCEPT !.pc = "legacy", !.wants = wants]
    <2>1. wants \in PreferenceRows /\ wants.version = Op(c).version + 1
      BY <1>0, DesiredTyped, Zenon
    <2> HIDE DEF wants
    <2>2. call[c] \in CallRows
      BY <1>0, CallTyped, Zenon
    <2>3. /\ r \in CallRows /\ r.op = Op(c) /\ r.pc = "legacy" /\ r.saw = Saw(c)
          /\ r.wants = wants /\ r.at = call[c].at
      BY <2>1, <2>2, Zenon DEF CallRows, Places, Op, Saw
    <2>4. call' = [call EXCEPT ![c] = r]
      BY <1>2, Zenon DEF wants
    <2> HIDE DEF r
    <2>5. Moves(c) /\ call'[c] = r
      BY <1>0, <2>3, <2>4, Becomes, ZenonT(30)
    <2>6. (call[c].at <= now)' /\ Op(c)' = Op(c) /\ Saw(c)' = Saw(c)
      BY <1>0, <2>3, <2>5, Zenon DEF Quiet, Inv, CallInv, Moves, Saw
    <2>7. PutInv(c)'
      BY <1>0, <2>1, <2>3, <2>5, <2>6, PutHasRead, ZenonT(30) DEF PutInv, Quiet
    <2> QED
      BY <1>0, <2>5, <2>6, <2>7, ByKind, QuietStepUnbarred, Zenon
  <1>3. Saw(c).preference.address \in Addresses \cup {None}
    BY <1>0, SawTyped, ZenonT(30) DEF PreferenceRows
  <1> QED
    BY <1>1, <1>2, <1>3, ZenonT(30) DEF PutVerify, End

LEMMA PutReadLegacyStep ==
    ASSUME Inv, NEW c \in DOMAIN call, PutReadLegacy(c)
    PROVE  Inv'
  <1> DEFINE before == Saw(c).preference
             legacy == IF GivesUp(before, call[c].wants) THEN deliverability[before.address]
                                                         ELSE "none"
             saw == [Saw(c) EXCEPT !.legacy = legacy]
  <1>0. /\ Quiet /\ barred' = barred /\ ~Spent(c) /\ Op(c).kind = "put" /\ TypeInv
        /\ call[c].pc = "legacy"
    BY Zenon DEF PutReadLegacy, GoTo, At, Op, Spent, Inv, Quiet, telegramVars, telegramRows,
           preferenceVars
  <1>1. before.address # None => before.address \in Addresses
    BY <1>0, SawTyped, ZenonT(30) DEF PreferenceRows
  <1>2. /\ legacy \in DeliverabilityStates \cup {"none"}
        /\ GivesUp(before, call[c].wants) => legacy \in DeliverabilityStates
        /\ legacy = "suppressed" => before.address \in Addresses
    BY <1>0, <1>1, Zenon DEF GivesUp, TypeInv
  <1> HIDE DEF legacy
  <1>3. /\ saw \in SawRows /\ saw.preference = before /\ saw.binding = Saw(c).binding
        /\ saw.legacy = legacy
    BY <1>0, <1>2, CallTyped, Zenon DEF SawRows
  <1>4. call' = [call EXCEPT ![c].pc = "commit", ![c].saw = saw]
    BY Zenon DEF PutReadLegacy, GoTo, legacy
  <1> HIDE DEF saw
  <1>5. /\ Moves(c) /\ call'[c].pc = "commit" /\ call'[c].saw = saw /\ call'[c].at = call[c].at
        /\ call'[c].wants = call[c].wants
    BY <1>0, <1>3, <1>4, GoToMoves, ZenonT(30) DEF Places
  <1>6. (call[c].at <= now)' /\ Op(c)' = Op(c) /\ Saw(c)' = saw
    BY <1>0, <1>5, Zenon DEF Quiet, Inv, CallInv, Moves, Saw
  <1>7. PutInv(c)'
    BY <1>0, <1>2, <1>3, <1>5, <1>6, PutHasRead, Zenon DEF PutInv, Quiet
  <1> QED
    BY <1>0, <1>5, <1>6, <1>7, ByKind, QuietStepUnbarred, Zenon

-----------------------------------------------------------------------------
(* The commits. *)
LEMMA CommitStep ==
    ASSUME Inv, Evolves, (TypeInv)', NEW c, \A x \in DOMAIN call : x # c => call'[x] = call[x],
           c \in DOMAIN call => CallInv(c)',
           (TokenInv /\ PointerInv /\ LiveTokenIsCurrent)', ChatInv', OwnerInv', PreferenceInv',
           BarredInv'
    PROVE  Inv'
  <1>1. OpsInv'
    BY OpsLast, Zenon DEF Inv
  <1>2. ASSUME NEW x \in DOMAIN call' PROVE CallInv(x)'
    <2>1. x \in DOMAIN call
      BY Zenon DEF Evolves
    <2> QED
      BY <2>1, CallLasts, Zenon DEF Inv
  <1> QED
    BY <1>1, <1>2, Zenon DEF Inv

LEMMA BarredKept ==
    ASSUME Inv, Evolves, barred' = barred
    PROVE  BarredInv'
  BY BarredLasts, Zenon DEF Inv, BarredInv

LEMMA AnsweredMoves ==
    ASSUME TypeInv, NEW c \in DOMAIN call, Answered(c, "ok")
    PROVE  /\ Moves(c) /\ call'[c].pc \in {"ok", "raised"} /\ call'[c].at = call[c].at
           /\ now' = now
  <1>1. PICK out \in {"ok", "raised"} : call' = [call EXCEPT ![c] = Ended(c, out)]
    BY Zenon DEF Answered
  <1>2. out \in Places
    BY Zenon DEF Places
  <1>3. now' = now
    BY Zenon DEF Answered
  <1> QED
    BY <1>1, <1>2, <1>3, EndMoves, Zenon

(* What invalidating the token of a request that was read does to the rows. *)
LEMMA InvalidatedRows ==
    ASSUME Inv, NEW o, NEW r, PointerOf(r, o), NEW t, TokenFits(r, t)
    PROVE  LET rows == Invalidated(token, r, t)
           IN  /\ rows \in [DOMAIN call -> Requests]
               /\ \A q \in DOMAIN call :
                     \/ rows[q] = token[q] /\ ~(Live(r, t) /\ q = r.id)
                     \/ /\ q = r.id /\ Live(r, t) /\ Named(token[q]) /\ token[q].id = q
                        /\ rows[q].status = "invalidated" /\ rows[q].id = q
                        /\ rows[q].owner = token[q].owner /\ rows[q].expires = token[q].expires
  <1>0. token \in [DOMAIN call -> Requests]
    BY Zenon DEF Inv, TypeInv
  <1>1. CASE Live(r, t)
    <2> DEFINE p == r.id
               row == [token[p] EXCEPT !.status = "invalidated"]
    <2>1. p \in DOMAIN call
      BY <1>1, AbsentRows, Zenon DEF PointerOf, Named, Spent
    <2>2. Named(token[p]) /\ token[p].id = p
      BY <1>1, <2>1, TokenNamed, Zenon DEF TokenFits
    <2>3. token[p] \in Requests
      BY <1>0, <2>1, Zenon
    <2>4. /\ row \in Requests /\ row.status = "invalidated" /\ row.id = p
          /\ row.owner = token[p].owner /\ row.expires = token[p].expires
      BY <2>2, <2>3, Zenon DEF Requests
    <2>5. Invalidated(token, r, t) = [token EXCEPT ![p] = row]
      BY <1>1, Zenon DEF Invalidated
    <2> HIDE DEF row
    <2> QED
      BY <1>0, <1>1, <2>1, <2>2, <2>4, <2>5, Zenon
  <1>2. CASE ~Live(r, t)
    BY <1>0, <1>2, Zenon DEF Invalidated
  <1> QED
    BY <1>1, <1>2, Zenon

LEMMA InvalidatedOnly ==
    ASSUME Inv, NEW o, NEW r, PointerOf(r, o), NEW t, TokenFits(r, t)
    PROVE  /\ Invalidated(token, r, t) \in [DOMAIN call -> Requests]
           /\ \A q \in DOMAIN call :
                 \/ Invalidated(token, r, t)[q] = token[q]
                 \/ Invalidated(token, r, t)[q].status = "invalidated"
  <1> DEFINE rows == Invalidated(token, r, t)
  <1>1. /\ rows \in [DOMAIN call -> Requests]
        /\ \A q \in DOMAIN call :
              \/ rows[q] = token[q] /\ ~(Live(r, t) /\ q = r.id)
              \/ /\ q = r.id /\ Live(r, t) /\ Named(token[q]) /\ token[q].id = q
                 /\ rows[q].status = "invalidated" /\ rows[q].id = q
                 /\ rows[q].owner = token[q].owner /\ rows[q].expires = token[q].expires
    BY InvalidatedRows, ZenonT(30)
  <1> QED
    BY <1>1, Zenon

IssueFits(c) ==
    /\ pointer[Op(c).owner].id = Saw(c).request.id
    /\ TokenFits(Saw(c).request, call[c].at)
NewRequest(c) ==
    [id |-> c, owner |-> Op(c).owner, status |-> "pending", expires |-> call[c].at + Lifetime]

(* A live token of the owner other than the new one would have been the one  *)
(* that was read, and that one loses its token.                              *)
LEMMA IssueCurrent ==
    ASSUME Inv, NEW c \in DOMAIN call, At(c, "issue", "commit"), IssueFits(c),
           NEW q \in DOMAIN call, Live(token[q], now), token[q].owner = Op(c).owner
    PROVE  Live(Saw(c).request, call[c].at) /\ q = Saw(c).request.id
  <1> DEFINE o == Op(c).owner
             r == Saw(c).request
  <1>1. pointer[o].id = q /\ Pending(pointer[o])
    BY Zenon DEF Inv, LiveTokenIsCurrent, TypeInv
  <1>2. r.id = q
    BY <1>1, Zenon DEF IssueFits
  <1>3. q # None
    BY CallTyped, Zenon DEF Inv
  <1>4. IssueInv(c)
    BY Zenon DEF Inv, CallInv
  <1>5. Named(r)
    BY <1>2, <1>3, <1>4, AbsentRows, Zenon DEF IssueInv, PointerOf
  <1>6. Pending(r)
    BY <1>1, <1>2, <1>4, <1>5, Zenon DEF IssueInv, Over
  <1>7. Named(token[q]) /\ token[q].id = q
    BY TokenNamed, Zenon DEF Live
  <1>8. r.expires = token[q].expires
    BY <1>2, <1>5, <1>7, Zenon DEF Named
  <1>9. call[c].at \in Nat /\ call[c].at <= now /\ now \in Nat /\ token[q].expires \in Nat
    BY CallTyped, Zenon DEF Inv, CallInv, TypeInv, Requests
  <1> QED
    BY <1>2, <1>6, <1>8, <1>9 DEF Live

LEMMA IssueCommits ==
    ASSUME Inv, NEW c \in DOMAIN call, At(c, "issue", "commit"), IssueFits(c), Answered(c, "ok"),
           token' = [Invalidated(token, Saw(c).request, call[c].at) EXCEPT ![c] = NewRequest(c)],
           pointer' = [pointer EXCEPT ![Op(c).owner] = NewRequest(c)],
           UNCHANGED <<binding, destination, fence, dedupe, barred, preferenceVars>>
    PROVE  Inv'
  <1> DEFINE o == Op(c).owner
             r == Saw(c).request
             new == NewRequest(c)
             rows == Invalidated(token, r, call[c].at)
  <1>0. TypeInv /\ Op(c).kind = "issue" /\ call[c].pc = "commit" /\ ~Spent(c)
    BY Zenon DEF Inv, At, Op, Spent
  <1>1. /\ Moves(c) /\ call'[c].pc \in {"ok", "raised"} /\ call'[c].at = call[c].at
        /\ now' = now /\ Op(c)' = Op(c)
    BY <1>0, AnsweredMoves, Zenon DEF Moves
  <1>2. o \in Owners /\ c \in Names /\ c # None /\ call[c].at \in Nat
    BY <1>0, OpOfCall, CallTyped, Zenon
  <1>3. /\ new \in Requests /\ new.id = c /\ new.owner = o /\ Pending(new)
        /\ new.expires = call[c].at + Lifetime
    BY <1>2, TelegramAssumption, SMTT(30) DEF NewRequest, Requests, Pending
  <1>4. PointerOf(r, o)
    BY ZenonT(30) DEF Inv, CallInv, IssueInv
  <1>5. /\ rows \in [DOMAIN call -> Requests]
        /\ \A q \in DOMAIN call :
              \/ rows[q] = token[q] /\ ~(Live(r, call[c].at) /\ q = r.id)
              \/ /\ q = r.id /\ Live(r, call[c].at) /\ Named(token[q]) /\ token[q].id = q
                 /\ rows[q].status = "invalidated" /\ rows[q].id = q
                 /\ rows[q].owner = token[q].owner /\ rows[q].expires = token[q].expires
    <2>1. TokenFits(r, call[c].at)
      BY Zenon DEF IssueFits
    <2> QED
      BY <1>4, <2>1, InvalidatedRows, ZenonT(30)
  <1> HIDE DEF new, rows
  <1>6. /\ token' \in [DOMAIN call -> Requests] /\ token'[c] = new
        /\ \A q \in DOMAIN call : q # c => token'[q] = rows[q]
    BY <1>3, <1>5, Zenon DEF rows, new
  <1>7. /\ pointer' \in [Owners -> Requests] /\ pointer'[o] = new
        /\ \A p \in Owners : p # o => pointer'[p] = pointer[p]
    BY <1>0, <1>2, <1>3, Zenon DEF TypeInv, new
  <1>8. (TypeInv)'
    BY <1>0, <1>1, <1>6, <1>7, Zenon DEF TypeInv, Moves, preferenceVars
  <1>9. Evolves
    <2>1. \A x \in DOMAIN call : Op(x)' = Op(x) /\ (Spent(x) => call'[x] = call[x])
      BY <1>0, <1>1, MovesEvolve, Zenon
    <2>2. DOMAIN call' = DOMAIN call /\ now <= now' /\ now' \in Nat
      BY <1>0, <1>1 DEF Moves, TypeInv
    <2>3. \A p \in Owners : PointerMoves(p)
      BY <1>0, <1>3, <1>7, Zenon DEF PointerMoves
    <2>4. \A d \in Chats : fence'[d] >= fence[d] /\ destination'[d].last >= destination[d].last
      BY <1>0, SMTT(30) DEF TypeInv, Destinations
    <2> QED
      BY <2>1, <2>2, <2>3, <2>4, ZenonT(30) DEF Evolves, preferenceVars
  <1>10. NamedAfter(new)
    <2>1. Spent(c)'
      BY <1>0, <1>1, Zenon DEF Spent, Moves
    <2> QED
      BY <1>1, <1>2, <1>3, <2>1, ZenonT(30) DEF NamedAfter, Spent, Op, Moves
  <1>11. TokenInv'
    <2>1. ASSUME NEW q \in DOMAIN call, q # c
          PROVE  token'[q] = NoRequest \/ (NamedAfter(token'[q]) /\ token'[q].id = q)
      <3>1. token[q] = NoRequest \/ (NamedAfter(token[q]) /\ token[q].id = q)
        BY <1>9, NamedLasts, Zenon DEF Inv, TokenInv
      <3>2. CASE rows[q] = token[q]
        BY <1>6, <2>1, <3>1, <3>2, ZenonT(30)
      <3>3. CASE /\ Named(token[q]) /\ token[q].id = q /\ rows[q].id = q
                 /\ rows[q].owner = token[q].owner /\ rows[q].expires = token[q].expires
        <4>1. NamedAfter(token[q])
          BY <1>9, <3>3, NamedLasts, Zenon
        <4>2. token'[q] = rows[q]
          BY <1>6, <2>1, Zenon
        <4> QED
          BY <3>3, <4>1, <4>2, Zenon DEF NamedAfter
      <3> QED
        BY <1>5, <3>2, <3>3, Zenon
    <2>2. token'[c] = NoRequest \/ (NamedAfter(token'[c]) /\ token'[c].id = c)
      BY <1>3, <1>6, <1>10, Zenon
    <2> QED
      BY <1>1, <2>1, <2>2, TokenInvAfter, ZenonT(30) DEF Moves
  <1>12. PointerInv'
    <2>1. ASSUME NEW p \in Owners, p # o
          PROVE  pointer'[p] = NoRequest \/ (NamedAfter(pointer'[p]) /\ pointer'[p].owner = p)
      BY <1>7, <1>9, <2>1, PointerOfLasts, Zenon DEF Inv, PointerInv
    <2> QED
      BY <1>3, <1>7, <1>10, <2>1, PointerInvAfter, Zenon
  <1>13. LiveTokenIsCurrent'
    <2> SUFFICES ASSUME NEW q \in DOMAIN call, Live(token'[q], now)
                 PROVE  pointer'[token'[q].owner].id = q /\ Pending(pointer'[token'[q].owner])
      BY <1>1, <1>6, ZenonT(30) DEF LiveTokenIsCurrent, Live, Pending
    <2>1. CASE q = c
      BY <1>3, <1>6, <1>7, <2>1, ZenonT(30)
    <2>2. CASE q # c
      <3>1. rows[q].status = "pending" /\ token'[q] = rows[q]
        BY <1>6, <2>2, ZenonT(30) DEF Live, Pending
      <3>2. token'[q] = token[q] /\ ~(Live(r, call[c].at) /\ q = r.id)
        BY <1>5, <3>1, Zenon
      <3>3. token[q].owner # o
        BY <3>2, IssueCurrent, Zenon
      <3>4. /\ pointer[token[q].owner].id = q /\ Pending(pointer[token[q].owner])
            /\ Named(token[q])
        BY <1>0, <3>2, TokenNamed, Zenon DEF Inv, LiveTokenIsCurrent, TypeInv, Live
      <3>5. token[q].owner \in Owners
        BY <1>0, <3>4, OpOfCall, ZenonT(30) DEF Named, Spent
      <3> QED
        BY <1>7, <3>2, <3>3, <3>4, <3>5, ZenonT(30)
    <2> QED
      BY <2>1, <2>2, ZenonT(30)
  <1>14. CallInv(c)'
    <2>1. (call[c].at <= now)'
      BY <1>1, Zenon DEF Inv, CallInv
    <2> QED
      BY <1>0, <1>1, <2>1, OverInv, ZenonT(30)
  <1>15. ChatInv' /\ OwnerInv' /\ PreferenceInv' /\ BarredInv'
    BY <1>9, ChatsKept, OwnersKept, PreferencesKept, BarredKept, Zenon DEF Inv, preferenceVars
  <1> QED
    BY <1>1, <1>8, <1>9, <1>11, <1>12, <1>13, <1>14, <1>15, CommitStep, Zenon DEF Moves

LEMMA IssueCommitStep ==
    ASSUME Inv, NEW c \in DOMAIN call, IssueCommit(c), UNCHANGED preferenceVars
    PROVE  Inv'
  <1>0. At(c, "issue", "commit") /\ ~Spent(c) /\ Op(c).kind = "issue"
    BY Zenon DEF IssueCommit, Spent, At, Op
  <1>1. \/ /\ IssueFits(c) /\ Answered(c, "ok")
           /\ token' = [Invalidated(token, Saw(c).request, call[c].at) EXCEPT ![c] = NewRequest(c)]
           /\ pointer' = [pointer EXCEPT ![Op(c).owner] = NewRequest(c)]
           /\ UNCHANGED <<binding, destination, fence, dedupe, barred>>
        \/ End(c, "raised")
        \/ Unavailable(c)
    BY Zenon DEF IssueCommit, IssueFits, NewRequest
  <1>2. CASE End(c, "raised")
    <2>1. Quiet /\ barred' = barred /\ call' = [call EXCEPT ![c] = Ended(c, "raised")]
      BY <1>2, Zenon DEF End, Quiet, telegramVars, telegramRows, preferenceVars
    <2> QED
      BY <1>0, <2>1, EndStep, Zenon
  <1>3. CASE Unavailable(c)
    BY <1>0, <1>3, UnavailableStep, Zenon
  <1> QED
    BY <1>0, <1>1, <1>2, <1>3, IssueCommits, Zenon

(* A start takes the owner's current request, and no stop has its update id. *)
ConsumedChat(c) ==
    [recipient |-> Recipient(Saw(c).request.owner), status |-> "active",
     last |-> Op(c).update, version |-> destination[Op(c).chat].version + 1]
ConsumedBinding(c) ==
    [chat |-> Op(c).chat, status |-> "verified", version |-> Saw(c).binding.version + 1]

LEMMA ConsumeRows ==
    ASSUME Inv, NEW c \in DOMAIN call, At(c, "start", "commit"), ConsumeFits(c)
    PROVE  LET r == Saw(c).request
           IN  /\ Named(r) /\ r.owner \in Owners /\ r.id \in DOMAIN call
               /\ Named(token[r.id]) /\ token[r.id].id = r.id
               /\ Named(pointer[r.owner]) /\ pointer[r.owner].owner = r.owner
               /\ pointer[r.owner].id = r.id
               /\ ConsumedChat(c) \in Destinations /\ ConsumedBinding(c) \in Bindings
  <1> DEFINE r == Saw(c).request
  <1>0. TypeInv
    BY Zenon DEF Inv
  <1>1. Named(r)
    BY Zenon DEF Inv, CallInv, StartInv
  <1>2. r.owner \in Owners /\ r.id \in DOMAIN call
    BY <1>0, <1>1, OpOfCall, Zenon DEF Named, Spent
  <1>3. Named(token[r.id]) /\ token[r.id].id = r.id
    BY <1>2, TokenNamed, ZenonT(30) DEF ConsumeFits, Live
  <1>4. pointer[r.owner].id = r.id /\ pointer[r.owner] # NoRequest
    BY AbsentRows, Zenon DEF ConsumeFits, PointerFits
  <1>5. Named(pointer[r.owner]) /\ pointer[r.owner].owner = r.owner
    BY <1>2, <1>4, Zenon DEF Inv, PointerInv, PointerOf
  <1>6. Op(c).chat \in Chats /\ Op(c).update \in Nat
    BY <1>0, OpOfCall, Zenon
  <1>7. Saw(c).binding.version + 1 \in Nat \ {0} /\ destination[Op(c).chat].version + 1 \in Nat \ {0}
    BY <1>0, <1>6, SawTyped, BindingFields, SMTT(30) DEF TypeInv, Destinations
  <1>8. ConsumedChat(c) \in Destinations
    BY <1>2, <1>6, <1>7, Zenon DEF ConsumedChat, Destinations
  <1>9. ConsumedBinding(c) \in Bindings
    BY <1>6, <1>7, Zenon DEF ConsumedBinding, Bindings
  <1> QED
    BY <1>1, <1>2, <1>3, <1>4, <1>5, <1>8, <1>9, Zenon

LEMMA ConsumeCommits ==
    ASSUME Inv, NEW c \in DOMAIN call, At(c, "start", "commit"), ConsumeFits(c), Answered(c, "ok"),
           dedupe' = dedupe \cup {Op(c).update},
           token' = [token EXCEPT ![Saw(c).request.id].status = "consumed"],
           pointer' = [pointer EXCEPT ![Saw(c).request.owner].status = "consumed"],
           destination' = [destination EXCEPT ![Op(c).chat] = ConsumedChat(c)],
           binding' = [binding EXCEPT ![Saw(c).request.owner] = ConsumedBinding(c)],
           UNCHANGED <<fence, barred, preferenceVars>>
    PROVE  Inv'
  <1> DEFINE op == Op(c)
             r == Saw(c).request
             o == r.owner
             d == op.chat
             taken == [token[r.id] EXCEPT !.status = "consumed"]
             done == [pointer[o] EXCEPT !.status = "consumed"]
             chat == ConsumedChat(c)
             bound == ConsumedBinding(c)
  <1>0. TypeInv /\ op.kind = "start" /\ call[c].pc = "commit" /\ ~Spent(c)
    BY Zenon DEF Inv, At, Op, Spent
  <1>1. /\ Moves(c) /\ call'[c].pc \in {"ok", "raised"} /\ call'[c].at = call[c].at
        /\ now' = now /\ Op(c)' = op
    BY <1>0, AnsweredMoves, Zenon DEF Moves
  <1>2. /\ Named(r) /\ o \in Owners /\ r.id \in DOMAIN call
        /\ Named(token[r.id]) /\ token[r.id].id = r.id
        /\ Named(pointer[o]) /\ pointer[o].owner = o /\ pointer[o].id = r.id
        /\ chat \in Destinations /\ bound \in Bindings
    BY ConsumeRows, Zenon
  <1>3. d \in Chats /\ op.update \in Nat
    BY <1>0, OpOfCall, Zenon
  <1>4. token[r.id] \in Requests /\ pointer[o] \in Requests
    BY <1>0, <1>2, Zenon DEF TypeInv
  <1>5. /\ taken \in Requests /\ taken.id = r.id /\ taken.owner = token[r.id].owner
        /\ taken.expires = token[r.id].expires /\ ~Pending(taken)
    BY <1>2, <1>4, Zenon DEF Requests, Pending
  <1>6. /\ done \in Requests /\ done.id = r.id /\ done.owner = o
        /\ done.expires = pointer[o].expires /\ ~Pending(done)
    BY <1>2, <1>4, Zenon DEF Requests, Pending
  <1>7. /\ token' \in [DOMAIN call -> Requests] /\ token'[r.id] = taken
        /\ \A q \in DOMAIN call : q # r.id => token'[q] = token[q]
    <2>1. token' = [token EXCEPT ![r.id] = taken]
      BY Zenon
    <2> QED
      BY <1>0, <1>2, <1>5, <2>1, Zenon DEF TypeInv
  <1>8. /\ pointer' \in [Owners -> Requests] /\ pointer'[o] = done
        /\ \A p \in Owners : p # o => pointer'[p] = pointer[p]
    <2>1. pointer' = [pointer EXCEPT ![o] = done]
      BY Zenon
    <2> QED
      BY <1>0, <1>2, <1>6, <2>1, Zenon DEF TypeInv
  <1>9. /\ destination' \in [Chats -> Destinations] /\ destination'[d] = chat
        /\ \A e \in Chats : e # d => destination'[e] = destination[e]
    BY <1>0, <1>2, <1>3, Zenon DEF TypeInv
  <1>10. /\ binding' \in [Owners -> Bindings] /\ binding'[o] = bound
         /\ \A p \in Owners : p # o => binding'[p] = binding[p]
    BY <1>0, <1>2, Zenon DEF TypeInv
  <1> HIDE DEF taken, done
  <1>11. (TypeInv)'
    BY <1>0, <1>1, <1>7, <1>8, <1>9, <1>10, Zenon DEF TypeInv, Moves, preferenceVars
  <1>12. /\ destination[d].last < op.update /\ chat.last = op.update
         /\ chat.recipient = Recipient(o) /\ Active(chat) /\ There(chat)
         /\ fence[d] < op.update /\ fence[d] \in Nat /\ destination[d].last \in Nat
         /\ destination[d].recipient \in {None, Recipient(o)}
    <2>1. destination[d] \in Destinations /\ fence[d] \in Nat
      BY <1>0, <1>3, Zenon DEF TypeInv
    <2>2. chat.last = op.update /\ chat.recipient = Recipient(o) /\ Active(chat) /\ There(chat)
      BY <2>1 DEF ConsumedChat, Active, There, Destinations
    <2> QED
      BY <2>1, <2>2, Zenon DEF ConsumeFits, NewestForChat, AfterStop, ChatIsFree, Destinations
  <1>13. /\ bound.version > binding[o].version /\ bound.chat = d /\ Verified(bound)
    <2>1. binding[o].version \in Nat
      BY <1>0, <1>2, BindingFields, Zenon DEF TypeInv
    <2> QED
      BY <2>1 DEF ConsumeFits, ConsumedBinding, Verified
  <1> HIDE DEF chat, bound, d, o, r, op
  <1>14. Evolves
    <2>1. \A x \in DOMAIN call : Op(x)' = Op(x) /\ (Spent(x) => call'[x] = call[x])
      BY <1>0, <1>1, MovesEvolve, Zenon
    <2>2. DOMAIN call' = DOMAIN call /\ now <= now' /\ now' \in Nat
      BY <1>0, <1>1 DEF Moves, TypeInv
    <2>3. \A p \in Owners : PointerMoves(p)
      BY <1>2, <1>6, <1>8, Zenon DEF PointerMoves
    <2>4. \A e \in Chats : fence'[e] >= fence[e] /\ destination'[e].last >= destination[e].last
      BY <1>0, <1>3, <1>9, <1>12 DEF TypeInv, Destinations
    <2>5. \A p \in Owners : binding'[p] = binding[p] \/ binding'[p].version > binding[p].version
      BY <1>10, <1>13, Zenon
    <2> QED
      BY <2>1, <2>2, <2>3, <2>4, <2>5, Zenon DEF Evolves, preferenceVars
  <1>15. TokenInv'
    <2>1. ASSUME NEW q \in DOMAIN call
          PROVE  token'[q] = NoRequest \/ (NamedAfter(token'[q]) /\ token'[q].id = q)
      <3>1. token[q] = NoRequest \/ (NamedAfter(token[q]) /\ token[q].id = q)
        BY <1>14, NamedLasts, Zenon DEF Inv, TokenInv
      <3>2. NamedAfter(token[r.id])
        BY <1>2, <1>14, NamedLasts, Zenon
      <3> QED
        BY <1>2, <1>5, <1>7, <3>1, <3>2, Zenon DEF NamedAfter
    <2> QED
      BY <1>1, <2>1, TokenInvAfter, Zenon DEF Moves
  <1>16. PointerInv'
    <2>1. ASSUME NEW p \in Owners
          PROVE  pointer'[p] = NoRequest \/ (NamedAfter(pointer'[p]) /\ pointer'[p].owner = p)
      <3>1. pointer[p] = NoRequest \/ (NamedAfter(pointer[p]) /\ pointer[p].owner = p)
        BY <1>14, PointerOfLasts, Zenon DEF Inv, PointerInv
      <3>2. NamedAfter(pointer[o])
        BY <1>2, <1>14, NamedLasts, Zenon
      <3>3. NamedAfter(done)
        BY <1>2, <1>6, <3>2, Zenon DEF NamedAfter
      <3> QED
        BY <1>6, <1>8, <3>1, <3>3, ZenonT(30)
    <2> QED
      BY <2>1, PointerInvAfter, Zenon
  <1>17. LiveTokenIsCurrent'
    <2> SUFFICES ASSUME NEW q \in DOMAIN call, Live(token'[q], now)
                 PROVE  pointer'[token'[q].owner].id = q /\ Pending(pointer'[token'[q].owner])
      BY <1>1, <1>7, Zenon DEF LiveTokenIsCurrent, Live, Pending
    <2>1. q # r.id /\ token'[q] = token[q]
      BY <1>5, <1>7, Zenon DEF Live
    <2>2. pointer[token[q].owner].id = q /\ Pending(pointer[token[q].owner]) /\ Named(token[q])
      BY <1>0, <2>1, TokenNamed, Zenon DEF Inv, LiveTokenIsCurrent, TypeInv, Live
    <2>3. token[q].owner # o /\ token[q].owner \in Owners
      BY <1>0, <1>2, <2>1, <2>2, OpOfCall, Zenon DEF Named, Spent
    <2> QED
      BY <1>8, <2>1, <2>2, <2>3, Zenon
  <1>18. ASSUME NEW x \in DOMAIN call, Op(x).kind = "stop"
         PROVE  Op(x).update # op.update
    BY <1>0, <1>18, Zenon DEF Inv, OpsInv, IsUpdate, Op, op
  <1>19. ChatInv'
    <2>1. ASSUME NEW e \in Chats, Active(destination'[e])
          PROVE  /\ There(destination'[e])
                 /\ destination'[e].last > fence[e]
                 /\ \A x \in DOMAIN call :
                       Op(x).kind = "stop" /\ Op(x).chat = e => Op(x).update # destination'[e].last
      <3>1. CASE e = d
        BY <1>3, <1>9, <1>12, <1>18, <3>1, Zenon
      <3>2. CASE e # d
        BY <1>9, <2>1, <3>2, Zenon DEF Inv, ChatInv
      <3> QED
        BY <3>1, <3>2, Zenon
    <2>2. ASSUME NEW x \in DOMAIN call, Op(x).kind = "stop", Op(x).update \in dedupe'
          PROVE  StoppedBy(x)'
      BY <1>0, <1>11, <1>14, <1>18, <2>2, StoppedLasts, Zenon DEF Inv, ChatInv, op
    <2>3. DOMAIN call' = DOMAIN call /\ \A x \in DOMAIN call : Op(x)' = Op(x)
      BY <1>1, Zenon DEF Moves
    <2> QED
      BY <2>1, <2>2, <2>3, ZenonT(30) DEF ChatInv, Active, There
  <1>20. OwnerInv'
    <2> SUFFICES ASSUME NEW p \in Owners, Verified(binding'[p])
                 PROVE  /\ binding'[p].chat \in Chats
                        /\ destination'[binding'[p].chat].recipient = Recipient(p)
      BY Zenon DEF OwnerInv, Verified
    <2>1. CASE p = o
      BY <1>3, <1>9, <1>10, <1>12, <1>13, <2>1, Zenon
    <2>2. CASE p # o
      <3>1. binding'[p] = binding[p] /\ Verified(binding[p])
        BY <1>10, <2>2, Zenon
      <3>2. binding[p].chat \in Chats /\ destination[binding[p].chat].recipient = Recipient(p)
        BY <3>1, Zenon DEF Inv, OwnerInv
      <3>3. Recipient(p) # None
        BY TelegramAssumption, Zenon
      <3> QED
        BY <1>9, <1>12, <3>1, <3>2, <3>3, Zenon
    <2> QED
      BY <2>1, <2>2, Zenon
  <1>21. CallInv(c)'
    <2>1. (call[c].at <= now)'
      BY <1>1, Zenon DEF Inv, CallInv
    <2> QED
      BY <1>0, <1>1, <2>1, OverInv, Zenon DEF op
  <1>22. PreferenceInv' /\ BarredInv'
    BY <1>14, PreferencesKept, BarredKept, Zenon DEF Inv, preferenceVars
  <1> QED
    BY <1>1, <1>11, <1>14, <1>15, <1>16, <1>17, <1>19, <1>20, <1>21, <1>22, CommitStep, ZenonT(30) DEF Moves

LEMMA ConsumeCommitStep ==
    ASSUME Inv, NEW c \in DOMAIN call, ConsumeCommit(c), UNCHANGED preferenceVars
    PROVE  Inv'
  <1>0. At(c, "start", "commit") /\ ~Spent(c) /\ Op(c).kind = "start" /\ TypeInv
    BY Zenon DEF ConsumeCommit, Spent, At, Op, Inv
  <1>1. CASE /\ ConsumeFits(c) /\ Answered(c, "ok")
             /\ dedupe' = dedupe \cup {Op(c).update}
             /\ token' = [token EXCEPT ![Saw(c).request.id].status = "consumed"]
             /\ pointer' = [pointer EXCEPT ![Saw(c).request.owner].status = "consumed"]
             /\ destination' = [destination EXCEPT ![Op(c).chat] =
                                   [recipient |-> Recipient(Saw(c).request.owner),
                                    status |-> "active", last |-> Op(c).update,
                                    version |-> @.version + 1]]
             /\ binding' = [binding EXCEPT ![Saw(c).request.owner] = ConsumedBinding(c)]
             /\ UNCHANGED <<fence, barred>>
    <2>1. destination' = [destination EXCEPT ![Op(c).chat] = ConsumedChat(c)]
      BY <1>1, Zenon DEF ConsumedChat
    <2> QED
      BY <1>0, <1>1, <2>1, ConsumeCommits, Zenon
  <1>2. CASE End(c, "ok")
    <2>1. Quiet /\ barred' = barred /\ call' = [call EXCEPT ![c] = Ended(c, "ok")]
      BY <1>2, Zenon DEF End, Quiet, telegramVars, telegramRows, preferenceVars
    <2> QED
      BY <1>0, <2>1, EndStep, Zenon
  <1>3. CASE Unavailable(c)
    BY <1>0, <1>3, UnavailableStep, Zenon
  <1> QED
    BY <1>1, <1>2, <1>3, Zenon DEF ConsumeCommit, ConsumedBinding

(* "/stop". *)
LEMMA SuppressedTyped ==
    ASSUME NEW row \in Destinations, NEW u \in Nat
    PROVE  /\ Suppressed(row, u) \in Destinations /\ Suppressed(row, u).last = u
           /\ Suppressed(row, u).recipient = row.recipient /\ ~Active(Suppressed(row, u))
  <1> DEFINE v == IF Active(row) THEN row.version + 1 ELSE row.version
  <1>1. v \in Nat
    BY DEF Destinations
  <1>2. Suppressed(row, u) = [row EXCEPT !.status = "suppressed", !.last = u, !.version = v]
    BY Zenon DEF Suppressed
  <1> HIDE DEF v
  <1> QED
    BY <1>1, <1>2, ZenonT(30) DEF Destinations, Active

(* With a row the row is marked; without one, it is not active and the fence *)
(* is.                                                                       *)
LEMMA StopMarks ==
    ASSUME Inv, NEW c \in DOMAIN call, At(c, "stop", "commit"), StopRowFits(c),
           There(Saw(c).destination) \/ AfterStop(c), Answered(c, "ok"),
           dedupe' = dedupe \cup {Op(c).update},
           destination' = IF There(Saw(c).destination)
                          THEN [destination EXCEPT ![Op(c).chat] =
                                   Suppressed(destination[Op(c).chat], Op(c).update)]
                          ELSE destination,
           fence' = IF There(Saw(c).destination) THEN fence
                    ELSE [fence EXCEPT ![Op(c).chat] = Op(c).update],
           UNCHANGED <<token, pointer, binding, barred, preferenceVars>>
    PROVE  Inv'
  <1> DEFINE op == Op(c)
             d == op.chat
             u == op.update
             read == Saw(c).destination
             row == destination[d]
             new == Suppressed(row, u)
  <1>0. TypeInv /\ op.kind = "stop" /\ call[c].pc = "commit" /\ ~Spent(c)
    BY Zenon DEF Inv, At, Op, Spent
  <1>1. /\ Moves(c) /\ call'[c].pc \in {"ok", "raised"} /\ call'[c].at = call[c].at
        /\ now' = now /\ Op(c)' = op
    BY <1>0, AnsweredMoves, ZenonT(30) DEF Moves
  <1>2. d \in Chats /\ u \in Nat
    BY <1>0, OpOfCall, Zenon
  <1>3. row \in Destinations /\ row.last \in Nat /\ fence[d] \in Nat
    BY <1>0, <1>2, Zenon DEF TypeInv, Destinations
  <1>4. /\ new \in Destinations /\ new.last = u /\ new.recipient = row.recipient /\ ~Active(new)
    BY <1>2, <1>3, SuppressedTyped, ZenonT(30)
  <1>5. row.last < u /\ row.version = read.version
    BY Zenon DEF StopRowFits
  <1> HIDE DEF new
  <1>6. ~There(read) => fence[d] < u /\ ~Active(row)
    <2>1. ~There(read) => ~There(row)
      BY <1>5, Zenon DEF There
    <2> QED
      BY <1>2, <2>1, ZenonT(30) DEF AfterStop, Inv, ChatInv
  <1>7. /\ destination' \in [Chats -> Destinations]
        /\ \A e \in Chats : e # d => destination'[e] = destination[e]
        /\ destination'[d] = IF There(read) THEN new ELSE row
    BY <1>0, <1>2, <1>4, Zenon DEF TypeInv, new
  <1>8. /\ fence' \in [Chats -> Nat]
        /\ \A e \in Chats : e # d => fence'[e] = fence[e]
        /\ fence'[d] = IF There(read) THEN fence[d] ELSE u
    BY <1>0, <1>2, Zenon DEF TypeInv
  <1> HIDE DEF row, read
  <1>9. (TypeInv)'
    BY <1>0, <1>1, <1>7, <1>8, Zenon DEF TypeInv, Moves, preferenceVars
  <1> HIDE DEF u, d, op
  <1>10. Evolves
    <2>1. \A x \in DOMAIN call : Op(x)' = Op(x) /\ (Spent(x) => call'[x] = call[x])
      BY <1>0, <1>1, MovesEvolve, Zenon
    <2>2. DOMAIN call' = DOMAIN call /\ now <= now' /\ now' \in Nat
      BY <1>0, <1>1, SMTT(30) DEF Moves, TypeInv
    <2>3. \A p \in Owners : PointerMoves(p)
      BY Zenon DEF PointerMoves
    <2>4. \A e \in Chats : fence'[e] >= fence[e] /\ destination'[e].last >= destination[e].last
      <3>1. fence'[d] >= fence[d] /\ destination'[d].last >= destination[d].last
        BY <1>2, <1>3, <1>4, <1>5, <1>6, <1>7, <1>8 DEF row
      <3>2. \A e \in Chats : fence[e] \in Nat /\ destination[e].last \in Nat
        BY <1>0, Zenon DEF TypeInv, Destinations
      <3> QED
        BY <1>7, <1>8, <3>1, <3>2, SMTT(30)
    <2> QED
      BY <2>1, <2>2, <2>3, <2>4, Zenon DEF Evolves, preferenceVars
  <1>11. ~Active(destination'[d]) /\ (fence'[d] >= u \/ destination'[d].last >= u)
    BY <1>2, <1>4, <1>6, <1>7, <1>8, SMTT(30)
  <1>12. StoppedBy(c)'
    BY <1>1, <1>11, ZenonT(30) DEF StoppedBy, d, u
  <1>13. ChatInv'
    <2>1. ASSUME NEW e \in Chats, Active(destination'[e])
          PROVE  /\ There(destination'[e])
                 /\ destination'[e].last > fence'[e]
                 /\ \A x \in DOMAIN call :
                       Op(x).kind = "stop" /\ Op(x).chat = e => Op(x).update # destination'[e].last
      BY <1>7, <1>8, <1>11, <2>1, ZenonT(30) DEF Inv, ChatInv
    <2>2. ASSUME NEW x \in DOMAIN call, Op(x).kind = "stop", Op(x).update \in dedupe'
          PROVE  StoppedBy(x)'
      <3>1. CASE Op(x).update \in dedupe
        BY <1>0, <1>9, <1>10, <2>2, <3>1, StoppedLasts, ZenonT(30) DEF Inv, ChatInv
      <3>2. CASE Op(x).update = u
        <4>1. Op(x) = Op(c)
          BY <1>0, <2>2, <3>2, ZenonT(30) DEF Inv, OpsInv, IsUpdate, Op, op, u
        <4>2. Op(x)' = Op(c)'
          BY <1>10, <4>1, ZenonT(30) DEF Evolves
        <4> QED
          BY <1>12, <4>2, ZenonT(30) DEF StoppedBy
      <3> QED
        BY <2>2, <3>1, <3>2, Zenon DEF op, u
    <2>3. DOMAIN call' = DOMAIN call /\ \A x \in DOMAIN call : Op(x)' = Op(x)
      BY <1>1, Zenon DEF Moves
    <2> QED
      BY <2>1, <2>2, <2>3, ZenonT(30) DEF ChatInv, Active, There
  <1>14. OwnerInv'
    <2>1. \A e \in Chats : destination'[e].recipient = destination[e].recipient
      BY <1>4, <1>7, Zenon DEF row
    <2> QED
      BY <2>1, Zenon DEF Inv, OwnerInv, Verified
  <1>15. CallInv(c)'
    <2>1. (call[c].at <= now)'
      BY <1>1, ZenonT(30) DEF Inv, CallInv
    <2> QED
      BY <1>1, <1>12, <2>1, OverInv, ZenonT(30)
  <1>16. (TokenInv /\ PointerInv /\ LiveTokenIsCurrent)'
    BY <1>0, <1>9, <1>10, TokensKept, Zenon DEF Inv
  <1>17. PreferenceInv' /\ BarredInv'
    BY <1>10, PreferencesKept, BarredKept, Zenon DEF Inv, preferenceVars
  <1> QED
    BY <1>1, <1>9, <1>10, <1>13, <1>14, <1>15, <1>16, <1>17, CommitStep, Zenon DEF Moves

LEMMA StopCommitStep ==
    ASSUME Inv, NEW c \in DOMAIN call, StopCommit(c), UNCHANGED preferenceVars
    PROVE  Inv'
  <1> DEFINE read == Saw(c).destination
             settled == ~UpdateIsNew(c) \/ (~There(read) /\ ~AfterStop(c))
  <1>0. /\ At(c, "stop", "commit") /\ ~Spent(c) /\ Op(c).kind = "stop" /\ TypeInv
        /\ call[c].pc = "commit"
    BY ZenonT(30) DEF StopCommit, Spent, At, Op, Inv
  <1>1. CASE /\ ~settled /\ StopRowFits(c) /\ Answered(c, "ok")
             /\ dedupe' = dedupe \cup {Op(c).update}
             /\ destination' = IF There(read)
                               THEN [destination EXCEPT ![Op(c).chat] = Suppressed(@, Op(c).update)]
                               ELSE destination
             /\ fence' = IF There(read) THEN fence ELSE [fence EXCEPT ![Op(c).chat] = Op(c).update]
             /\ UNCHANGED <<token, pointer, binding, barred>>
    BY <1>0, <1>1, StopMarks, Zenon
  <1>2. CASE settled /\ End(c, "ok")
    <2>1. Quiet /\ barred' = barred /\ call' = [call EXCEPT ![c] = Ended(c, "ok")]
      BY <1>2, Zenon DEF End, Quiet, telegramVars, telegramRows, preferenceVars
    <2>2. StoppedBy(c)
      <3>1. CASE ~UpdateIsNew(c)
        BY <1>0, <3>1, Zenon DEF UpdateIsNew, Inv, ChatInv
      <3>2. CASE ~AfterStop(c)
        <4>1. fence[Op(c).chat] \in Nat /\ Op(c).update \in Nat
          BY <1>0, OpOfCall, Zenon DEF TypeInv
        <4> QED
          BY <3>2, <4>1 DEF AfterStop, StoppedBy
      <3> QED
        BY <1>2, <3>1, <3>2, Zenon
    <2> QED
      BY <1>0, <2>1, <2>2, EndStep, Zenon
  <1>3. CASE Retry(c)
    BY <1>0, <1>3, RetryStep, Zenon
  <1>4. CASE Unavailable(c)
    BY <1>0, <1>4, UnavailableStep, Zenon
  <1> QED
    BY <1>1, <1>2, <1>3, <1>4, Zenon DEF StopCommit

(* DELETE /telegram-binding. *)
LEMMA RevokedTyped ==
    ASSUME NEW row \in Bindings, Verified(row)
    PROVE  /\ RevokedBinding(row) \in Bindings /\ ~Verified(RevokedBinding(row))
           /\ RevokedBinding(row).version > row.version
  <1> DEFINE v == row.version + 1
  <1>1. v \in Nat \ {0} /\ v > row.version
    BY DEF Bindings, NoBinding
  <1>2. RevokedBinding(row) = [row EXCEPT !.status = "revoked", !.version = v]
    BY Zenon DEF RevokedBinding
  <1>3. row \in [chat : Chats, status : {"verified", "revoked"}, version : Nat \ {0}]
    BY DEF Bindings, Verified, NoBinding
  <1> HIDE DEF v
  <1> QED
    BY <1>1, <1>2, <1>3, Zenon DEF Bindings, Verified

LEMMA RevokeCommits ==
    ASSUME Inv, NEW c \in DOMAIN call, At(c, "revoke", "commit"), RevokeFits(c), Answered(c, "ok"),
           binding' = IF Verified(Saw(c).binding)
                      THEN [binding EXCEPT ![Op(c).owner] = RevokedBinding(Saw(c).binding)]
                      ELSE binding,
           pointer' = IF Pending(Saw(c).request)
                      THEN [pointer EXCEPT ![Op(c).owner].status = "invalidated"]
                      ELSE pointer,
           token' = Invalidated(token, Saw(c).request, call[c].at),
           barred' = IF call'[c].pc = "ok" THEN barred \cup Saw(c).issued ELSE barred,
           UNCHANGED <<destination, fence, dedupe, preferenceVars>>
    PROVE  Inv'
  <1> DEFINE o == Op(c).owner
             r == Saw(c).request
             read == Saw(c).binding
             done == [pointer[o] EXCEPT !.status = "invalidated"]
  <1>0. TypeInv /\ Op(c).kind = "revoke" /\ call[c].pc = "commit" /\ ~Spent(c)
    BY Zenon DEF Inv, At, Op, Spent
  <1>1. /\ Moves(c) /\ call'[c].pc \in {"ok", "raised"} /\ call'[c].at = call[c].at
        /\ now' = now /\ Op(c)' = Op(c)
    BY <1>0, AnsweredMoves, Zenon DEF Moves
  <1>2. o \in Owners /\ pointer[o] \in Requests
    BY <1>0, OpOfCall, Zenon DEF TypeInv
  <1>3. /\ PointerOf(r, o) /\ \A q \in Saw(c).issued : Spent(q) /\ Op(q).owner = o
        /\ ~Pending(r) => \A q \in Saw(c).issued : Over(q, o)
    BY <1>0, Zenon DEF Inv, CallInv, RevokeInv
  <1>4. Pending(r) => /\ Named(r) /\ r.owner = o /\ pointer[o].id = r.id
                      /\ Named(pointer[o]) /\ pointer[o].owner = o
    <2>1. Pending(r) => Named(r) /\ r.owner = o
      BY <1>3, AbsentRows, Zenon DEF PointerOf
    <2>2. Pending(r) => pointer[o].id = r.id /\ pointer[o] # NoRequest
      BY <2>1, AbsentRows, Zenon DEF RevokeFits, PointerFits
    <2> QED
      BY <1>2, <2>1, <2>2, Zenon DEF Inv, PointerInv, PointerOf
  <1>5. /\ done \in Requests /\ done.id = pointer[o].id /\ done.owner = pointer[o].owner
        /\ done.expires = pointer[o].expires /\ ~Pending(done)
    BY <1>2, Zenon DEF Requests, Pending
  <1>6. /\ pointer' \in [Owners -> Requests] /\ pointer'[o] = IF Pending(r) THEN done ELSE pointer[o]
        /\ \A p \in Owners : p # o => pointer'[p] = pointer[p]
    BY <1>0, <1>2, <1>5, Zenon DEF TypeInv
  <1>7. /\ token' \in [DOMAIN call -> Requests]
        /\ \A q \in DOMAIN call :
              \/ token'[q] = token[q] /\ ~(Live(r, call[c].at) /\ q = r.id)
              \/ /\ q = r.id /\ Live(r, call[c].at) /\ Named(token[q]) /\ token[q].id = q
                 /\ token'[q].status = "invalidated" /\ token'[q].id = q
                 /\ token'[q].owner = token[q].owner /\ token'[q].expires = token[q].expires
    BY <1>3, InvalidatedRows DEF RevokeFits
  <1>8. /\ binding' \in [Owners -> Bindings] /\ \A p \in Owners : p # o => binding'[p] = binding[p]
        /\ \/ binding'[o] = binding[o]
           \/ ~Verified(binding'[o]) /\ binding'[o].version > binding[o].version
    <2>1. read \in Bindings
      BY <1>0, SawTyped, Zenon
    <2>2. CASE Verified(read)
      <3>1. /\ RevokedBinding(read) \in Bindings /\ ~Verified(RevokedBinding(read))
            /\ RevokedBinding(read).version > read.version
        BY <2>1, <2>2, RevokedTyped, Zenon
      <3>2. binding[o].version = read.version
        BY <2>2, Zenon DEF RevokeFits
      <3> QED
        BY <1>0, <1>2, <2>2, <3>1, <3>2, Zenon DEF TypeInv
    <2>3. CASE ~Verified(read)
      BY <1>0, <2>3, Zenon DEF TypeInv
    <2> QED
      BY <2>2, <2>3, Zenon
  <1> HIDE DEF done
  <1>9. (TypeInv)'
    BY <1>0, <1>1, <1>6, <1>7, <1>8, Zenon DEF TypeInv, Moves, preferenceVars
  <1> HIDE DEF o, r, read
  <1>10. Evolves
    <2>1. \A x \in DOMAIN call : Op(x)' = Op(x) /\ (Spent(x) => call'[x] = call[x])
      BY <1>0, <1>1, MovesEvolve, Zenon
    <2>2. DOMAIN call' = DOMAIN call /\ now <= now' /\ now' \in Nat
      BY <1>0, <1>1 DEF Moves, TypeInv
    <2>3. \A p \in Owners : PointerMoves(p)
      BY <1>5, <1>6, Zenon DEF PointerMoves
    <2>4. \A e \in Chats : fence'[e] >= fence[e] /\ destination'[e].last >= destination[e].last
      BY <1>0 DEF TypeInv, Destinations
    <2>5. \A p \in Owners : binding'[p] = binding[p] \/ binding'[p].version > binding[p].version
      BY <1>8, Zenon
    <2> QED
      BY <2>1, <2>2, <2>3, <2>4, <2>5, Zenon DEF Evolves, preferenceVars
  <1>11. TokenInv'
    <2>1. ASSUME NEW q \in DOMAIN call
          PROVE  token'[q] = NoRequest \/ (NamedAfter(token'[q]) /\ token'[q].id = q)
      <3>1. token[q] = NoRequest \/ (NamedAfter(token[q]) /\ token[q].id = q)
        BY <1>10, NamedLasts, Zenon DEF Inv, TokenInv
      <3>2. Named(token[q]) => NamedAfter(token[q])
        BY <1>10, NamedLasts, Zenon
      <3> QED
        BY <1>7, <3>1, <3>2, ZenonT(30) DEF NamedAfter
    <2> QED
      BY <1>1, <2>1, TokenInvAfter, Zenon DEF Moves
  <1>12. PointerInv'
    <2>1. ASSUME NEW p \in Owners
          PROVE  pointer'[p] = NoRequest \/ (NamedAfter(pointer'[p]) /\ pointer'[p].owner = p)
      <3>1. pointer[p] = NoRequest \/ (NamedAfter(pointer[p]) /\ pointer[p].owner = p)
        BY <1>10, PointerOfLasts, Zenon DEF Inv, PointerInv
      <3>2. Pending(r) => NamedAfter(done) /\ done.owner = o
        BY <1>4, <1>5, <1>10, NamedLasts, ZenonT(30) DEF NamedAfter
      <3> QED
        BY <1>6, <3>1, <3>2, ZenonT(30)
    <2> QED
      BY <2>1, PointerInvAfter, Zenon
  <1>13. LiveTokenIsCurrent'
    <2> SUFFICES ASSUME NEW q \in DOMAIN call, Live(token'[q], now)
                 PROVE  pointer'[token'[q].owner].id = q /\ Pending(pointer'[token'[q].owner])
      BY <1>1, <1>7, ZenonT(30) DEF LiveTokenIsCurrent, Live, Pending
    <2>1. token'[q] = token[q] /\ ~(Live(r, call[c].at) /\ q = r.id)
      BY <1>7, Zenon DEF Live, Pending
    <2>2. pointer[token[q].owner].id = q /\ Pending(pointer[token[q].owner]) /\ Named(token[q])
          /\ token[q].id = q
      BY <1>0, <2>1, TokenNamed, Zenon DEF Inv, LiveTokenIsCurrent, TypeInv, Live
    <2>3. token[q].owner \in Owners
      BY <1>0, <2>2, OpOfCall, Zenon DEF Named, Spent
    <2>4. CASE token[q].owner = o /\ Pending(r)
      <3>1. r.id = q /\ r.expires = token[q].expires
        BY <1>4, <2>2, <2>4, Zenon DEF Named
      <3>2. call[c].at \in Nat /\ call[c].at <= now /\ now \in Nat /\ token[q].expires \in Nat
        BY <1>0, CallTyped, Zenon DEF Inv, CallInv, TypeInv, Requests
      <3>3. Live(r, call[c].at)
        BY <2>1, <2>4, <3>1, <3>2 DEF Live
      <3> QED
        BY <2>1, <3>1, <3>3, Zenon
    <2>5. CASE ~(token[q].owner = o /\ Pending(r))
      BY <1>6, <2>1, <2>2, <2>3, <2>5, ZenonT(30)
    <2> QED
      BY <2>4, <2>5, Zenon
  <1>14. BarredInv'
    <2>1. \A q \in barred : Spent(q)' /\ \A p \in Owners : Over(q, p)'
      BY <1>10, BarredLasts, Zenon DEF Inv
    <2>2. ASSUME NEW q \in Saw(c).issued
          PROVE  Spent(q)' /\ \A p \in Owners : Over(q, p)'
      <3>1. Spent(q) /\ Op(q).owner = o /\ Spent(q)'
        BY <1>3, <1>10, SpentLasts, Zenon
      <3>2. ASSUME NEW p \in Owners, pointer'[p].id = q
            PROVE  ~Pending(pointer'[p])
        <4>1. q # None
          BY <1>0, <3>1, CallTyped, Zenon DEF Spent
        <4>2. pointer'[p] # NoRequest
          BY <3>2, <4>1, AbsentRows, Zenon
        <4>3. p = o
          BY <1>10, <3>1, <3>2, <4>2, <1>12, SpentLasts, ZenonT(30) DEF PointerInv, PointerOf, Named
        <4>4. CASE Pending(r)
          BY <1>5, <1>6, <4>3, <4>4, Zenon
        <4>5. CASE ~Pending(r)
          BY <1>3, <1>6, <3>2, <4>3, <4>5, ZenonT(30) DEF Over
        <4> QED
          BY <4>4, <4>5, Zenon
      <3> QED
        BY <3>1, <3>2, Zenon DEF Over, Pending
    <2> QED
      BY <2>1, <2>2, Zenon DEF BarredInv
  <1>15. OwnerInv'
    BY <1>8 DEF Inv, OwnerInv, Verified
  <1>16. CallInv(c)'
    <2>1. (call[c].at <= now)'
      BY <1>1, Zenon DEF Inv, CallInv
    <2> QED
      BY <1>0, <1>1, <2>1, OverInv, Zenon
  <1>17. ChatInv' /\ PreferenceInv'
    BY <1>10, ChatsKept, PreferencesKept, Zenon DEF Inv, preferenceVars
  <1> QED
    BY <1>1, <1>9, <1>10, <1>11, <1>12, <1>13, <1>14, <1>15, <1>16, <1>17, CommitStep, Zenon DEF Moves

LEMMA RevokeCommitStep ==
    ASSUME Inv, NEW c \in DOMAIN call, RevokeCommit(c), UNCHANGED preferenceVars
    PROVE  Inv'
  <1>0. /\ At(c, "revoke", "commit") /\ ~Spent(c) /\ Op(c).kind = "revoke" /\ call[c].pc = "commit"
    BY Zenon DEF RevokeCommit, Spent, At, Op
  <1>1. CASE Retry(c)
    BY <1>0, <1>1, RetryStep, Zenon
  <1>2. CASE Unavailable(c)
    BY <1>0, <1>2, UnavailableStep, Zenon
  <1>3. CASE /\ RevokeFits(c) /\ Answered(c, "ok")
             /\ binding' = IF Verified(Saw(c).binding)
                           THEN [binding EXCEPT ![Op(c).owner] = RevokedBinding(Saw(c).binding)]
                           ELSE binding
             /\ pointer' = IF Pending(Saw(c).request)
                           THEN [pointer EXCEPT ![Op(c).owner].status = "invalidated"]
                           ELSE pointer
             /\ token' = Invalidated(token, Saw(c).request, call[c].at)
             /\ barred' = IF call'[c].pc = "ok" THEN barred \cup Saw(c).issued ELSE barred
             /\ UNCHANGED <<destination, fence, dedupe>>
    BY <1>0, <1>3, RevokeCommits, Zenon
  <1> QED
    BY <1>1, <1>2, <1>3, Zenon DEF RevokeCommit

(* PUT /notification-preferences: the row that is replaced is the one read.  *)
LEMMA PutKnows ==
    ASSUME Inv, NEW c \in DOMAIN call, At(c, "put", "commit"), VersionFits(c)
    PROVE  /\ Op(c).owner \in Owners /\ Saw(c).preference = preference[Op(c).owner]
           /\ call[c].wants \in PreferenceRows
           /\ call[c].wants.version = preference[Op(c).owner].version + 1
           /\ GivesUp(Saw(c).preference, call[c].wants) => Saw(c).legacy \in DeliverabilityStates
           /\ Saw(c).legacy = "suppressed" => Saw(c).preference.address \in Addresses
           /\ Earlier(Saw(c).binding, binding[Op(c).owner])
  <1>0. TypeInv /\ Op(c).kind = "put" /\ call[c].pc = "commit"
    BY Zenon DEF Inv, At, Op
  <1>1. Op(c).owner \in Owners /\ call[c].wants \in PreferenceRows
    BY <1>0, OpOfCall, CallTyped, Zenon
  <1>2. PutInv(c)
    BY Zenon DEF Inv, CallInv
  <1>3. Saw(c).preference.version = preference[Op(c).owner].version
    BY <1>0, PutHasRead, Zenon DEF VersionFits
  <1>4. Saw(c).preference = preference[Op(c).owner]
    BY <1>0, <1>3, PutHasRead, Zenon DEF Earlier
  <1>5. call[c].wants.version = preference[Op(c).owner].version + 1
    BY <1>0, PutHasRead, Zenon DEF VersionFits
  <1> QED
    BY <1>0, <1>1, <1>2, <1>4, <1>5, ZenonT(30) DEF PutInv

LEMMA MigratedTyped ==
    ASSUME Inv, NEW c \in DOMAIN call, At(c, "put", "commit"), VersionFits(c)
    PROVE  /\ Migrated(c) \in [Addresses -> DeliverabilityStates]
           /\ \A key \in Addresses : Migrated(c)[key] \in {deliverability[key], "suppressed"}
           /\ Saw(c).legacy = "suppressed" =>
                 Migrated(c)[Lower[Saw(c).preference.address]] = "suppressed"
  <1>1. deliverability \in [Addresses -> DeliverabilityStates]
    BY Zenon DEF Inv, TypeInv
  <1>2. CASE Saw(c).legacy = "suppressed"
    <2> DEFINE key == Lower[Saw(c).preference.address]
    <2>1. key \in Addresses
      BY <1>2, PutKnows, AddressAssumption, Zenon
    <2>2. Migrated(c) = [deliverability EXCEPT ![key] = "suppressed"]
      BY <1>2, Zenon DEF Migrated
    <2> HIDE DEF key
    <2> QED
      BY <1>1, <2>1, <2>2, Zenon DEF DeliverabilityStates, key
  <1>3. CASE Saw(c).legacy # "suppressed"
    BY <1>1, <1>3, Zenon DEF Migrated
  <1> QED
    BY <1>2, <1>3, Zenon

LEMMA PutCommits ==
    ASSUME Inv, NEW c \in DOMAIN call, At(c, "put", "commit"), VersionFits(c), Answered(c, "ok"),
           preference' = [preference EXCEPT ![Op(c).owner] = call[c].wants],
           deliverability' = Migrated(c), UNCHANGED <<telegramRows, barred>>
    PROVE  Inv'
  <1> DEFINE o == Op(c).owner
             wants == call[c].wants
  <1>0. TypeInv /\ Op(c).kind = "put" /\ call[c].pc = "commit" /\ ~Spent(c)
    BY Zenon DEF Inv, At, Op, Spent
  <1>1. /\ Moves(c) /\ call'[c].pc \in {"ok", "raised"} /\ call'[c].at = call[c].at
        /\ now' = now /\ Op(c)' = Op(c)
    BY <1>0, AnsweredMoves, Zenon DEF Moves
  <1>2. o \in Owners /\ wants \in PreferenceRows /\ wants.version = preference[o].version + 1
    BY PutKnows, Zenon
  <1>3. /\ preference' \in [Owners -> PreferenceRows] /\ preference'[o] = wants
        /\ \A p \in Owners : p # o => preference'[p] = preference[p]
    BY <1>0, <1>2, Zenon DEF TypeInv
  <1>4. preference[o].version \in Nat
    BY <1>0, <1>2, Zenon DEF TypeInv, PreferenceRows
  <1> HIDE DEF o, wants
  <1>5. (TypeInv)'
    BY <1>0, <1>1, <1>3, MigratedTyped, Zenon DEF TypeInv, Moves, telegramRows
  <1>6. Evolves
    <2>1. \A x \in DOMAIN call : Op(x)' = Op(x) /\ (Spent(x) => call'[x] = call[x])
      BY <1>0, <1>1, MovesEvolve, Zenon
    <2>2. DOMAIN call' = DOMAIN call /\ now <= now' /\ now' \in Nat
      BY <1>0, <1>1, SMTT(30) DEF Moves, TypeInv
    <2>3. \A p \in Owners : PointerMoves(p)
      BY Zenon DEF PointerMoves, telegramRows
    <2>4. \A e \in Chats : fence'[e] >= fence[e] /\ destination'[e].last >= destination[e].last
      BY <1>0, SMTT(30) DEF TypeInv, Destinations, telegramRows
    <2>5. \A p \in Owners : preference'[p] = preference[p] \/ preference'[p].version > preference[p].version
      BY <1>2, <1>3, <1>4, SMTT(30)
    <2> QED
      BY <2>1, <2>2, <2>3, <2>4, <2>5, Zenon DEF Evolves, telegramRows
  <1>7. PreferenceInv'
    <2>1. There(wants)
      BY <1>2, <1>4 DEF There
    <2> QED
      BY <1>2, <1>3, <2>1, Zenon DEF Inv, PreferenceInv, There
  <1>8. CallInv(c)'
    <2>1. (call[c].at <= now)'
      BY <1>1, Zenon DEF Inv, CallInv
    <2> QED
      BY <1>0, <1>1, <2>1, OverInv, Zenon
  <1>9. (TokenInv /\ PointerInv /\ LiveTokenIsCurrent)' /\ ChatInv' /\ OwnerInv' /\ BarredInv'
    BY <1>0, <1>5, <1>6, TokensKept, ChatsKept, OwnersKept, BarredKept, Zenon DEF Inv, telegramRows
  <1> QED
    BY <1>1, <1>5, <1>6, <1>7, <1>8, <1>9, CommitStep, Zenon DEF Moves

LEMMA PutCommitStep ==
    ASSUME Inv, NEW c \in DOMAIN call, PutCommit(c)
    PROVE  Inv'
  <1>0. At(c, "put", "commit") /\ ~Spent(c) /\ Op(c).kind = "put"
    BY Zenon DEF PutCommit, Spent, At, Op
  <1>1. CASE End(c, "refused") /\ UNCHANGED preferenceVars
    <2>1. Quiet /\ barred' = barred /\ call' = [call EXCEPT ![c] = Ended(c, "refused")]
      BY <1>1, Zenon DEF End, Quiet, telegramVars, telegramRows, preferenceVars
    <2> QED
      BY <1>0, <2>1, EndStep, Zenon
  <1>2. CASE Unavailable(c) /\ UNCHANGED preferenceVars
    BY <1>0, <1>2, UnavailableStep, Zenon
  <1>3. CASE /\ VersionFits(c) /\ Answered(c, "ok")
             /\ preference' = [preference EXCEPT ![Op(c).owner] = call[c].wants]
             /\ deliverability' = Migrated(c) /\ UNCHANGED <<telegramRows, barred>>
    BY <1>0, <1>3, PutCommits, ZenonT(30)
  <1> QED
    BY <1>1, <1>2, <1>3, Zenon DEF PutCommit

-----------------------------------------------------------------------------
(* The steps no handler takes. *)
LEMMA StoreEvolves ==
    ASSUME Inv, UNCHANGED <<binding, destination, fence, dedupe, barred, call, preference>>,
           now' \in Nat, now <= now',
           token' \in [DOMAIN call -> Requests], pointer' \in [Owners -> Requests],
           deliverability' \in [Addresses -> DeliverabilityStates],
           \A o \in Owners : pointer'[o] \in {pointer[o], NoRequest},
           (TokenInv /\ PointerInv /\ LiveTokenIsCurrent)'
    PROVE  Inv'
  <1>0. TypeInv
    BY Zenon DEF Inv
  <1>1. (TypeInv)'
    BY <1>0, Zenon DEF TypeInv
  <1>2. Evolves
    <2>1. \A x \in DOMAIN call : Op(x)' = Op(x)
      BY Zenon DEF Op
    <2>2. \A p \in Owners : PointerMoves(p)
      BY ZenonT(30) DEF PointerMoves
    <2>3. \A e \in Chats : fence'[e] >= fence[e] /\ destination'[e].last >= destination[e].last
      BY <1>0, SMTT(30) DEF TypeInv, Destinations
    <2> QED
      BY <2>1, <2>2, <2>3, Zenon DEF Evolves
  <1>3. ChatInv' /\ OwnerInv' /\ PreferenceInv' /\ BarredInv'
    BY <1>2, ChatsKept, OwnersKept, PreferencesKept, BarredKept, Zenon DEF Inv
  <1>4. None \notin DOMAIN call
    BY <1>0, CallTyped, Zenon
  <1> QED
    BY <1>1, <1>2, <1>3, <1>4, CommitStep, Zenon

LEMMA TokensStand ==
    ASSUME Inv, UNCHANGED <<token, pointer, call>>, now' \in Nat, now <= now'
    PROVE  (TokenInv /\ PointerInv /\ LiveTokenIsCurrent)'
  <1>1. (TokenInv /\ PointerInv)'
    BY ZenonT(30) DEF Inv, TokenInv, PointerInv, PointerOf, Named, Spent, Op
  <1>2. LiveTokenIsCurrent'
    <2> SUFFICES ASSUME NEW q \in DOMAIN token, Pending(token[q]), token[q].expires > now'
                 PROVE  pointer[token[q].owner].id = q /\ Pending(pointer[token[q].owner])
      BY Zenon DEF LiveTokenIsCurrent, Live, Pending
    <2>1. token[q].expires \in Nat /\ now \in Nat
      BY Zenon DEF Inv, TypeInv, Requests
    <2>2. Live(token[q], now)
      BY <2>1 DEF Live
    <2> QED
      BY <2>2, Zenon DEF LiveTokenIsCurrent, Inv
  <1> QED
    BY <1>1, <1>2, Zenon

LEMMA RemoveTokenStep ==
    ASSUME Inv, NEW q \in DOMAIN token, RemoveToken(q), UNCHANGED preferenceVars
    PROVE  Inv'
  <1>0. TypeInv /\ DOMAIN token = DOMAIN call /\ now <= now' /\ now' \in Nat
    BY DEF Inv, TypeInv, RemoveToken
  <1>1. /\ token' \in [DOMAIN call -> Requests] /\ token'[q] = NoRequest
        /\ \A x \in DOMAIN call : x # q => token'[x] = token[x]
    BY <1>0, AbsentTyped, Zenon DEF RemoveToken, TypeInv
  <1>2. TokenInv' /\ PointerInv'
    BY <1>0, <1>1, ZenonT(30) DEF RemoveToken, Inv, TokenInv, PointerInv, PointerOf, Named, Spent, Op
  <1>3. LiveTokenIsCurrent'
    BY <1>0, <1>1, AbsentRows, Zenon DEF RemoveToken, Inv, LiveTokenIsCurrent, Live, Pending
  <1> QED
    BY <1>0, <1>1, <1>2, <1>3, StoreEvolves, Zenon DEF RemoveToken, TypeInv, preferenceVars

(* A pointer is removed when it has expired, and so has the token it names.  *)
LEMMA RemovePointerStep ==
    ASSUME Inv, NEW o \in Owners, RemovePointer(o), UNCHANGED preferenceVars
    PROVE  Inv'
  <1>0. TypeInv /\ now <= now' /\ now' \in Nat
    BY DEF Inv, TypeInv, RemovePointer
  <1>1. /\ pointer' \in [Owners -> Requests] /\ pointer'[o] = NoRequest
        /\ \A p \in Owners : p # o => pointer'[p] = pointer[p]
    BY <1>0, AbsentTyped, Zenon DEF RemovePointer, TypeInv
  <1>2. TokenInv'
    BY ZenonT(30) DEF RemovePointer, Inv, TokenInv, Named, Spent, Op
  <1>3. PointerInv'
    <2>1. \A p \in Owners : pointer[p] = NoRequest \/ (NamedAfter(pointer[p]) /\ pointer[p].owner = p)
      BY Zenon DEF RemovePointer, Inv, PointerInv, PointerOf, Named, NamedAfter, Spent, Op
    <2> QED
      BY <1>1, <2>1, PointerInvAfter, Zenon
  <1>4. LiveTokenIsCurrent'
    <2> SUFFICES ASSUME NEW q \in DOMAIN call, Live(token[q], now)
                 PROVE  pointer'[token[q].owner].id = q /\ Pending(pointer'[token[q].owner])
      BY <1>0, Zenon DEF LiveTokenIsCurrent, Live, Pending, RemovePointer, TypeInv
    <2>1. /\ pointer[token[q].owner].id = q /\ Pending(pointer[token[q].owner])
          /\ Named(token[q]) /\ token[q].id = q
      BY <1>0, TokenNamed, Zenon DEF Inv, LiveTokenIsCurrent, TypeInv, Live
    <2>2. token[q].owner \in Owners
      BY <1>0, <2>1, OpOfCall, Zenon DEF Named, Spent
    <2>3. token[q].owner # o
      <3> SUFFICES ASSUME token[q].owner = o PROVE FALSE
        BY Zenon
      <3>1. Named(pointer[o])
        BY <2>1, AbsentRows, Zenon DEF Inv, PointerInv, PointerOf
      <3>2. pointer[o].expires = token[q].expires
        BY <2>1, <3>1, Zenon DEF Named
      <3>3. pointer[o].expires <= now /\ token[q].expires > now
        BY Zenon DEF RemovePointer, Expired, Live
      <3>4. token[q].expires \in Nat /\ now \in Nat
        BY <1>0, Zenon DEF TypeInv, Requests
      <3> QED
        BY <3>2, <3>3, <3>4
    <2> QED
      BY <1>1, <2>1, <2>2, <2>3, ZenonT(30)
  <1> QED
    BY <1>0, <1>1, <1>2, <1>3, <1>4, StoreEvolves, Zenon DEF RemovePointer, TypeInv, preferenceVars

LEMMA OtherStoreStep ==
    ASSUME Inv, UNCHANGED <<token, pointer, binding, destination, fence, dedupe, barred, call,
                            preference>>,
           now' \in Nat, now <= now', deliverability' \in [Addresses -> DeliverabilityStates]
    PROVE  Inv'
  BY TokensStand, StoreEvolves, Zenon DEF Inv, TypeInv

-----------------------------------------------------------------------------
(* The invariant is inductive. *)
LEMMA InitInv ==
    ASSUME Init
    PROVE  Inv
  <1>1. PICK w \in Workloads :
          /\ now = 1
          /\ call = [c \in DOMAIN w.calls |-> Arrived(w.calls[c])]
          /\ token = [c \in DOMAIN w.calls |-> NoRequest]
          /\ pointer = [o \in Owners |-> NoRequest]
          /\ binding = w.binding /\ destination = w.destination
          /\ fence = [d \in Chats |-> 0] /\ dedupe = {} /\ barred = {}
          /\ preference = w.preference /\ deliverability = w.deliverability
    BY Zenon DEF Init
  <1>2. /\ DOMAIN call = DOMAIN w.calls /\ DOMAIN call \subseteq Names
        /\ \A c \in DOMAIN call : w.calls[c] \in Ops /\ call[c] = Arrived(w.calls[c])
    BY <1>1 DEF Names, Ops
  <1>3. \A op \in Ops : Arrived(op) \in CallRows
    BY AbsentTyped, Zenon DEF Arrived, CallRows, Places
  <1>4. ASSUME NEW c \in DOMAIN call
        PROVE  Op(c) = w.calls[c] /\ call[c].pc = "begin" /\ call[c].at = 0
    <2>1. call[c] = Arrived(w.calls[c])
      BY <1>2, Zenon
    <2> QED
      BY <2>1 DEF Arrived, Op
  <1>5. TypeInv
    BY <1>1, <1>2, <1>3, AbsentTyped, RowsAssumption, PreferencesAssumption, ZenonT(30) DEF TypeInv
  <1>6. OpsInv
    <2>1. \A c \in DOMAIN call : Op(c) = w.calls[c]
      BY <1>4, Zenon
    <2>2. \A c \in DOMAIN w.calls :
             /\ w.calls[c].kind = "start" => w.calls[c].token \in DOMAIN w.calls
             /\ \A d \in DOMAIN w.calls :
                   /\ w.calls[c].kind \in {"start", "stop"}
                   /\ w.calls[d].kind \in {"start", "stop"}
                   /\ w.calls[c].update = w.calls[d].update
                   => w.calls[c] = w.calls[d]
      BY CallsAssumption, Zenon
    <2>3. DOMAIN call = DOMAIN w.calls
      BY <1>2, Zenon
    <2>4. \A c \in DOMAIN call : IsUpdate(c) <=> w.calls[c].kind \in {"start", "stop"}
      BY <2>1, Zenon DEF IsUpdate, Op
    <2>5. ASSUME NEW c \in DOMAIN call, NEW d \in DOMAIN call, IsUpdate(c), IsUpdate(d),
                 Op(c).update = Op(d).update
          PROVE  Op(c) = Op(d)
      <3>1. Op(c) = w.calls[c] /\ Op(d) = w.calls[d]
        BY <2>1, Zenon
      <3>2. /\ w.calls[c].kind \in {"start", "stop"} /\ w.calls[d].kind \in {"start", "stop"}
            /\ w.calls[c].update = w.calls[d].update
        BY <2>4, <2>5, <3>1, Zenon
      <3> QED
        BY <2>2, <2>3, <3>1, <3>2, Zenon
    <2>6. \A c \in DOMAIN call : Op(c).kind = "start" => Op(c).token \in DOMAIN call
      BY <2>1, <2>2, <2>3, Zenon
    <2> QED
      BY <2>5, <2>6, Zenon DEF OpsInv
  <1>7. TokenInv /\ PointerInv /\ LiveTokenIsCurrent
    BY <1>1, AbsentRows, Zenon DEF TokenInv, PointerInv, PointerOf, LiveTokenIsCurrent
  <1>8. BarredInv
    BY <1>1, Zenon DEF BarredInv
  <1>9. ChatInv
    <2>1. \A d \in Chats : destination[d].last \in Nat
      BY <1>5, Zenon DEF TypeInv, Destinations
    <2>2. ASSUME NEW d \in Chats, Active(destination[d])
          PROVE  /\ There(destination[d]) /\ destination[d].last # 0
                 /\ \A c \in DOMAIN call :
                       Op(c).kind = "stop" /\ Op(c).chat = d => Op(c).update # destination[d].last
      <3>1. /\ There(destination[d]) /\ destination[d].last # 0
            /\ \A c \in DOMAIN w.calls :
                  w.calls[c].kind = "stop" /\ w.calls[c].chat = d =>
                      w.calls[c].update # destination[d].last
        BY <1>1, <2>2, RowsAssumption, ZenonT(30)
      <3>2. \A c \in DOMAIN call : Op(c) = w.calls[c]
        BY <1>4, ZenonT(30)
      <3> QED
        BY <1>2, <3>1, <3>2, Zenon
    <2> QED
      BY <1>1, <2>1, <2>2 DEF ChatInv
  <1>10. OwnerInv /\ PreferenceInv
    <2>1. \A o \in Owners : Verified(binding[o]) => binding[o].chat \in Chats
      BY <1>5, BindingFields, Zenon DEF TypeInv
    <2> QED
      BY <1>1, <2>1, RowsAssumption, PreferencesAssumption, Zenon DEF OwnerInv, PreferenceInv
  <1>11. ASSUME NEW c \in DOMAIN call
         PROVE  CallInv(c)
    <2>1. call[c].pc = "begin" /\ call[c].at <= now
      BY <1>1, <1>4
    <2> QED
      BY <2>1, Zenon DEF CallInv, IssueInv, StartInv, StopInv, RevokeInv, PutInv, At
  <1> QED
    BY <1>5, <1>6, <1>7, <1>8, <1>9, <1>10, <1>11, Zenon DEF Inv

LEMMA NextInv ==
    ASSUME Inv, [Next]_vars
    PROVE  Inv'
  <1>1. ASSUME NEW c \in DOMAIN call, TelegramStep(c), UNCHANGED preferenceVars
        PROVE  Inv'
    BY <1>1, IssueReadStep, IssueCommitStep, StartLookupStep, StartMembershipStep,
       ConsumeLookupStep, ConsumeReadBindingStep, ConsumeCommitStep, StopReadStep, StopCommitStep,
       RevokeReadBindingStep, RevokeReadRequestStep, RevokeCommitStep, RedeliverStep, Zenon
       DEF TelegramStep
  <1>2. ASSUME NEW c \in DOMAIN call, PreferenceStep(c)
        PROVE  Inv'
    BY <1>2, PutReadStep, PutReadBindingStep, PutReadDestinationStep, PutVerifyStep,
       PutReadLegacyStep, PutCommitStep, Zenon DEF PreferenceStep
  <1>3. ASSUME StoreStep, UNCHANGED preferenceVars
        PROVE  Inv'
    <2>1. ASSUME NEW o \in Owners, EndMembership(o) \/ LapseCache(o)
          PROVE  Inv'
      BY <1>3, <2>1, OtherStoreStep, SMTT(30)
         DEF EndMembership, LapseCache, telegramRows, preferenceVars, Inv, TypeInv
    <2>2. CASE Tick
      BY <1>3, <2>2, OtherStoreStep DEF Tick, telegramRows, preferenceVars, Inv, TypeInv
    <2> QED
      BY <1>3, <2>1, <2>2, RemoveTokenStep, RemovePointerStep, ZenonT(30) DEF StoreStep
  <1>4. ASSUME NEW key \in Addresses, Suppress(key)
        PROVE  Inv'
    <2>1. deliverability' \in [Addresses -> DeliverabilityStates]
      BY <1>4, Zenon DEF Suppress, Inv, TypeInv, DeliverabilityStates
    <2> QED
      BY <1>4, <2>1, OtherStoreStep DEF Suppress, telegramRows, Inv, TypeInv
  <1>5. CASE UNCHANGED vars
    BY <1>5, OtherStoreStep DEF vars, telegramVars, telegramRows, preferenceVars, Inv, TypeInv
  <1> QED
    BY <1>1, <1>2, <1>3, <1>4, <1>5, Zenon DEF Next, CallStep

(* What the handlers know and what the rows say fit together, always.        *)
THEOREM ChannelInvariant == Spec => []Inv
  BY InitInv, NextInv, PTL DEF Spec, vars

-----------------------------------------------------------------------------
(* Of the tokens ever given to an owner at most one can still be used.       *)
THEOREM LiveTokenAlwaysCurrent == Spec => []LiveTokenIsCurrent
  <1>1. Inv => LiveTokenIsCurrent
    BY Zenon DEF Inv
  <1> QED
    BY <1>1, ChannelInvariant, PTL

(* A "/stop" that was answered with 200 stands until a newer update.         *)
THEOREM StopAlwaysStands == Spec => []StopStands
  <1>1. Inv => StopStands
    <2> SUFFICES ASSUME Inv, NEW c \in DOMAIN call, At(c, "stop", "ok"),
                        Active(destination[Op(c).chat])
                 PROVE  destination[Op(c).chat].last > Op(c).update
      BY Zenon DEF StopStands
    <2> DEFINE d == Op(c).chat
               u == Op(c).update
    <2>0. TypeInv /\ Op(c).kind = "stop"
      BY Zenon DEF Inv, At, Op
    <2>1. StoppedBy(c)
      BY Zenon DEF Inv, CallInv, StopInv
    <2>2. d \in Chats /\ u \in Nat
      BY <2>0, OpOfCall, Zenon
    <2>3. fence[d] \in Nat /\ destination[d].last \in Nat
      BY <2>0, <2>2, Zenon DEF TypeInv, Destinations
    <2>4. destination[d].last > fence[d] /\ u # destination[d].last
      BY <2>0, <2>2, Zenon DEF Inv, ChatInv
    <2>5. fence[d] >= u \/ destination[d].last >= u
      BY <2>1, Zenon DEF StoppedBy
    <2> HIDE DEF d, u
    <2>6. destination[d].last > u
      BY <2>2, <2>3, <2>4, <2>5
    <2> QED
      BY <2>6, Zenon DEF d, u
  <1> QED
    BY <1>1, ChannelInvariant, PTL

(* A verified binding reaches a chat of its own recipient.                   *)
THEOREM BindingAlwaysOwnsChat == Spec => []BindingOwnsChat
  <1>1. Inv => BindingOwnsChat
    BY Zenon DEF Inv, OwnerInv, BindingOwnsChat
  <1> QED
    BY <1>1, ChannelInvariant, PTL

(* A token row becomes consumed in one step only, a start's commit, and the  *)
(* request it takes is pending there: no revoke has returned for it.         *)
LEMMA RevokedStaysOut ==
    ASSUME Inv, [Next]_vars, NEW q \in barred, token'[q].status = "consumed"
    PROVE  token[q] = token'[q]
  <1>0. TypeInv /\ Spent(q) /\ q \in DOMAIN call
    BY Zenon DEF Inv, BarredInv, Spent
  <1>1. CASE token' = token
    BY <1>1, Zenon
  <1>2. ASSUME NEW c \in DOMAIN call, IssueCommit(c)
        PROVE  token[q] = token'[q]
    <2>1. ~Spent(c) /\ c # q
      BY <1>0, <1>2, Zenon DEF IssueCommit, At, Spent
    <2>2. CASE token' = [Invalidated(token, Saw(c).request, call[c].at) EXCEPT ![c] = NewRequest(c)]
               /\ TokenFits(Saw(c).request, call[c].at)
      <3>1. PointerOf(Saw(c).request, Op(c).owner)
        BY <1>2, ZenonT(30) DEF IssueCommit, Inv, CallInv, IssueInv
      <3> DEFINE rows == Invalidated(token, Saw(c).request, call[c].at)
      <3>2. /\ rows \in [DOMAIN call -> Requests]
            /\ \A x \in DOMAIN call : rows[x] = token[x] \/ rows[x].status = "invalidated"
        BY <2>2, <3>1, InvalidatedOnly, Zenon
      <3> HIDE DEF rows
      <3>3. token' = [rows EXCEPT ![c] = NewRequest(c)]
        BY <2>2, Zenon DEF rows
      <3>4. token'[q] = rows[q]
        BY <1>0, <2>1, <3>2, <3>3, Zenon
      <3> QED
        BY <1>0, <3>2, <3>4, Zenon
    <2>3. CASE token' = token
      BY <2>3, Zenon
    <2> QED
      BY <1>2, <2>2, <2>3, Zenon
         DEF IssueCommit, NewRequest, End, Unavailable, telegramVars, telegramRows
  <1>3. ASSUME NEW c \in DOMAIN call, RevokeCommit(c)
        PROVE  token[q] = token'[q]
    <2>1. CASE token' = Invalidated(token, Saw(c).request, call[c].at) /\ RevokeFits(c)
      <3>1. PointerOf(Saw(c).request, Op(c).owner)
        BY <1>3, Zenon DEF RevokeCommit, Inv, CallInv, RevokeInv
      <3> QED
        BY <1>0, <2>1, <3>1, InvalidatedRows, ZenonT(30) DEF RevokeFits
    <2>2. CASE token' = token
      BY <2>2, Zenon
    <2> QED
      BY <1>3, <2>1, <2>2, Zenon DEF RevokeCommit, Retry, Unavailable, telegramVars, telegramRows
  <1>4. ASSUME NEW c \in DOMAIN call, ConsumeCommit(c)
        PROVE  token[q] = token'[q]
    <2>1. CASE ConsumeFits(c) /\ token' = [token EXCEPT ![Saw(c).request.id].status = "consumed"]
      <3>1. At(c, "start", "commit")
        BY <1>4, Zenon DEF ConsumeCommit
      <3>2. Saw(c).request.owner \in Owners
        BY <2>1, <3>1, ConsumeRows, Zenon
      <3>3. PointerFits(Saw(c).request)
        BY <2>1, Zenon DEF ConsumeFits
      <3>4. q # Saw(c).request.id
        BY <3>2, <3>3, Zenon DEF Inv, BarredInv, Over, PointerFits
      <3> QED
        BY <1>0, <2>1, <3>4, Zenon DEF TypeInv
    <2>2. CASE token' = token
      BY <2>2, Zenon
    <2> QED
      BY <1>4, <2>1, <2>2, Zenon DEF ConsumeCommit, End, Unavailable, telegramVars, telegramRows
  <1>5. ASSUME NEW p \in DOMAIN token, RemoveToken(p)
        PROVE  token[q] = token'[q]
    BY <1>0, <1>5, Zenon DEF RemoveToken, TypeInv, NoRequest
  <1>6. ASSUME NEW c \in DOMAIN call, TelegramStep(c)
        PROVE  token' = token \/ IssueCommit(c) \/ RevokeCommit(c) \/ ConsumeCommit(c)
    BY <1>6, Zenon DEF TelegramStep, IssueRead, StartLookup, StartMembership, ConsumeLookup,
                ConsumeReadBinding, StopRead, StopCommit, RevokeReadBinding, RevokeReadRequest,
                Redeliver, Begin, GoTo, End, Retry, Unavailable, telegramVars, telegramRows
  <1>7. ASSUME NEW c \in DOMAIN call, PreferenceStep(c)
        PROVE  token' = token
    BY <1>7, Zenon DEF PreferenceStep, PutRead, PutReadBinding, PutReadDestination, PutVerify,
                PutReadLegacy, PutCommit, GoTo, End, Unavailable, telegramVars, telegramRows
  <1>8. ASSUME StoreStep
        PROVE  token' = token \/ \E p \in DOMAIN token : RemoveToken(p)
    BY <1>8, Zenon DEF StoreStep, RemovePointer, EndMembership, LapseCache, Tick, telegramRows
  <1>9. ASSUME NEW key \in Addresses, Suppress(key)
        PROVE  token' = token
    BY <1>9, Zenon DEF Suppress, telegramRows
  <1>10. CASE UNCHANGED vars
    BY <1>1, <1>10, Zenon DEF vars, telegramVars, telegramRows
  <1> QED
    BY <1>1, <1>2, <1>3, <1>4, <1>5, <1>6, <1>7, <1>8, <1>9, <1>10, Zenon DEF Next, CallStep

(* After a revoke has returned, no token given out before it is consumed.    *)
THEOREM RevokedRequestAlwaysOut == Spec => RevokedRequestStaysOut
  <1>1. Inv /\ [Next]_vars =>
          [\A q \in barred : token'[q].status = "consumed" => token[q] = token'[q]]_<<telegramRows, barred, call>>
    BY RevokedStaysOut, Zenon
  <1> QED
    BY <1>1, ChannelInvariant, PTL DEF Spec, vars, RevokedRequestStaysOut

-----------------------------------------------------------------------------
(* Only a commit of PUT writes a preference. *)
PutWrites(c) ==
    /\ At(c, "put", "commit") /\ VersionFits(c) /\ LegacyFits(c) /\ TelegramFits(c)
    /\ preference' = [preference EXCEPT ![Op(c).owner] = call[c].wants]
    /\ deliverability' = Migrated(c)
    /\ UNCHANGED telegramRows

LEMMA PreferenceWritten ==
    ASSUME Inv, [Next]_vars
    PROVE  \/ UNCHANGED preferenceVars
           \/ \E key \in Addresses :
                 /\ preference' = preference
                 /\ deliverability' = [deliverability EXCEPT ![key] = "suppressed"]
           \/ \E c \in DOMAIN call : PutWrites(c)
  <1>1. ASSUME NEW c \in DOMAIN call, PreferenceStep(c)
        PROVE  UNCHANGED preferenceVars \/ PutWrites(c)
    BY <1>1, Zenon DEF PreferenceStep, PutRead, PutReadBinding, PutReadDestination, PutVerify,
                       PutReadLegacy, PutCommit, PutWrites
  <1>2. ASSUME NEW key \in Addresses, Suppress(key)
        PROVE  /\ preference' = preference
               /\ deliverability' = [deliverability EXCEPT ![key] = "suppressed"]
    BY <1>2, Zenon DEF Suppress
  <1>3. CASE UNCHANGED vars
    BY <1>3, Zenon DEF vars
  <1> QED
    BY <1>1, <1>2, <1>3, Zenon DEF Next, CallStep

(* What the handler read of the binding is still so when the row is written. *)
LEMMA WrittenWhileEligible ==
    ASSUME Inv, [Next]_vars, NEW o \in Owners, preference'[o] # preference[o],
           preference'[o].telegram
    PROVE  Eligible(binding[o], destination[binding[o].chat])
  <1>1. PICK c \in DOMAIN call : PutWrites(c)
    BY PreferenceWritten, Zenon DEF preferenceVars
  <1>2. At(c, "put", "commit") /\ VersionFits(c) /\ TelegramFits(c)
    BY <1>1, Zenon DEF PutWrites
  <1>3. o = Op(c).owner /\ preference'[o] = call[c].wants
    BY <1>1, Zenon DEF PutWrites, Inv, TypeInv
  <1>4. Earlier(Saw(c).binding, binding[o])
    BY <1>2, <1>3, PutKnows, ZenonT(30)
  <1>5. /\ Verified(binding[o]) /\ binding[o].version = Saw(c).binding.version
        /\ Active(destination[Saw(c).binding.chat])
    BY <1>2, <1>3, Zenon DEF TelegramFits
  <1>6. binding[o] = Saw(c).binding
    BY <1>4, <1>5, Zenon DEF Earlier
  <1> QED
    BY <1>5, <1>6, Zenon DEF Eligible

(* Telegram is never switched on, or kept on, when the binding or the chat    *)
(* stopped allowing it after the handler looked.                             *)
THEOREM AlwaysEnabledWhileEligible == Spec => EnabledWhileEligible
  <1>1. Inv /\ [Next]_vars =>
          [\A o \in Owners :
              preference'[o] # preference[o] /\ preference'[o].telegram =>
                  Eligible(binding[o], destination[binding[o].chat])]_<<telegramRows, preferenceVars>>
    BY WrittenWhileEligible, Zenon
  <1> QED
    BY <1>1, ChannelInvariant, PTL DEF Spec, vars, EnabledWhileEligible

(* Rows that are only ever suppressed keep an address suppressed. *)
LEMMA StaysSuppressed ==
    ASSUME NEW address \in Addresses, Deliverability(deliverability, address) = "suppressed",
           \A key \in Addresses : deliverability'[key] \in {deliverability[key], "suppressed"}
    PROVE  Deliverability(deliverability', address) = "suppressed"
  <1>1. Lower[address] \in Addresses
    BY AddressAssumption, Zenon
  <1> QED
    BY <1>1, Zenon DEF Deliverability

(* A spelling that is given up takes its legacy key's suppression along.     *)
LEMMA SuppressionMoves ==
    ASSUME Inv, [Next]_vars, NEW o \in Owners,
           preference[o].address # None, preference'[o].address # None,
           Lower[preference[o].address] = Lower[preference'[o].address],
           Deliverability(deliverability, preference[o].address) = "suppressed"
    PROVE  Deliverability(deliverability', preference'[o].address) = "suppressed"
  <1> DEFINE before == preference[o].address
             after == preference'[o].address
  <1>0. TypeInv /\ (TypeInv)'
    BY NextInv, Zenon DEF Inv
  <1>1. before \in Addresses /\ after \in Addresses
    BY <1>0, Zenon DEF TypeInv, PreferenceRows
  <1>2. deliverability \in [Addresses -> DeliverabilityStates]
    BY <1>0, Zenon DEF TypeInv
  <1>3. CASE UNCHANGED preferenceVars
    BY <1>3, Zenon DEF preferenceVars
  <1>4. CASE \E key \in Addresses :
                /\ preference' = preference
                /\ deliverability' = [deliverability EXCEPT ![key] = "suppressed"]
    <2>1. \A key \in Addresses : deliverability'[key] \in {deliverability[key], "suppressed"}
      BY <1>2, <1>4, Zenon
    <2> QED
      BY <1>1, <1>4, <2>1, StaysSuppressed, ZenonT(30)
  <1>5. ASSUME NEW c \in DOMAIN call, PutWrites(c)
        PROVE  Deliverability(deliverability', after) = "suppressed"
    <2>0. At(c, "put", "commit") /\ VersionFits(c) /\ LegacyFits(c)
      BY <1>5, Zenon DEF PutWrites
    <2>1. /\ \A key \in Addresses : deliverability'[key] \in {deliverability[key], "suppressed"}
          /\ Saw(c).legacy = "suppressed" =>
                deliverability'[Lower[Saw(c).preference.address]] = "suppressed"
      BY <1>5, <2>0, MigratedTyped, ZenonT(30) DEF PutWrites
    <2>2. CASE before = after
      BY <1>1, <2>1, <2>2, StaysSuppressed, Zenon
    <2>3. CASE before # after
      <3>1. o = Op(c).owner /\ preference'[o] = call[c].wants
        BY <1>0, <1>5, <2>3, Zenon DEF PutWrites, TypeInv
      <3>2. Saw(c).preference = preference[o]
        BY <2>0, <3>1, PutKnows, ZenonT(30)
      <3>3. Lower[before] \in Addresses /\ Lower[before] = Lower[after]
        BY <1>1, AddressAssumption, Zenon
      <3>4. CASE deliverability[Lower[before]] = "suppressed"
        <4>1. deliverability'[Lower[after]] = "suppressed"
          BY <2>1, <3>3, <3>4, Zenon
        <4> QED
          BY <4>1, Zenon DEF Deliverability
      <3>5. CASE deliverability[Lower[before]] # "suppressed"
        <4>1. deliverability[before] = "suppressed" /\ Lower[before] # before
          BY <3>5, Zenon DEF Deliverability
        <4>2. There(preference[o])
          BY Zenon DEF Inv, PreferenceInv
        <4>3. GivesUp(Saw(c).preference, call[c].wants)
          BY <2>3, <3>1, <3>2, <4>1, <4>2, Zenon DEF GivesUp
        <4>4. Saw(c).legacy \in DeliverabilityStates
          BY <2>0, <4>3, PutKnows, ZenonT(30)
        <4>5. Saw(c).legacy = "suppressed"
          BY <2>0, <3>2, <4>1, <4>4, ZenonT(30) DEF LegacyFits, DeliverabilityStates
        <4>6. deliverability'[Lower[after]] = "suppressed"
          BY <2>1, <3>2, <3>3, <4>5, Zenon
        <4> QED
          BY <4>6, Zenon DEF Deliverability
      <3> QED
        BY <3>4, <3>5, Zenon
    <2> QED
      BY <2>2, <2>3, Zenon
  <1> QED
    BY <1>3, <1>4, <1>5, PreferenceWritten, Zenon

(* A suppressed mailbox stays suppressed for a recipient who writes the same *)
(* address in other capitals.                                                *)
THEOREM SuppressionAlwaysFollows == Spec => SuppressionFollows
  <1>1. Inv /\ [Next]_vars =>
          [\A o \in Owners :
              LET before == preference[o].address
                  after == preference'[o].address
              IN  /\ before # None /\ after # None /\ Lower[before] = Lower[after]
                  /\ Deliverability(deliverability, before) = "suppressed"
                  => Deliverability(deliverability', after) = "suppressed"]_<<telegramRows, preferenceVars>>
    BY SuppressionMoves, Zenon
  <1> QED
    BY <1>1, ChannelInvariant, PTL DEF Spec, vars, SuppressionFollows
=============================================================================
