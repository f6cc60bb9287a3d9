-------------------------- MODULE ChannelPipeline --------------------------
(***************************************************************************)
(* The calls that decide how a recipient is reached, racing: Telegram      *)
(* updates, which arrive in any order, again and at the same time, the     *)
(* binding API and the preference API.                                     *)
(***************************************************************************)
EXTENDS Preferences

Arrived(op) ==
    [op |-> op, pc |-> "begin", saw |-> Unread, wants |-> NoPreference, at |-> 0,
     try |-> 1, delivery |-> 1]

Init ==
    \E w \in Workloads :
        /\ now = 1
        /\ horizon = w.horizon
        /\ faults = w.faults
        /\ call = [c \in DOMAIN w.calls |-> Arrived(w.calls[c])]
        /\ token = [c \in DOMAIN w.calls |-> NoRequest]
        /\ pointer = [o \in Owners |-> NoRequest]
        /\ binding = w.binding
        /\ destination = w.destination
        /\ fence = [d \in Chats |-> 0]
        /\ dedupe = {}
        /\ member = [o \in Owners |-> TRUE]
        /\ cached = [o \in Owners |-> w.cached]
        /\ barred = {}
        /\ preference = w.preference
        /\ deliverability = w.deliverability

CallStep ==
    \E c \in DOMAIN call :
        \/ TelegramStep(c) /\ UNCHANGED preferenceVars
        \/ PreferenceStep(c)

Next ==
    \/ CallStep
    \/ StoreStep /\ UNCHANGED preferenceVars
    \/ \E key \in Addresses : Suppress(key)

Spec == Init /\ [][Next]_<<telegramVars, call, preferenceVars>>

-----------------------------------------------------------------------------
(* Of the tokens ever given to an owner at most one can still be used: one   *)
(* that is pending and has not expired is the one the owner's request names, *)
(* however many issues, revocations and "/start"s race for it.               *)
LiveTokenIsCurrent ==
    \A q \in DOMAIN token :
        Live(token[q], now) =>
            pointer[token[q].owner].id = q /\ Pending(pointer[token[q].owner])

(* A "/stop" the webhook answered with 200 stands: its chat is silent until  *)
(* a newer update, whatever older, repeated or concurrent "/start" is        *)
(* applied after it, and whether or not the chat was bound when it came.     *)
StopStands ==
    \A c \in DOMAIN call :
        At(c, "stop", "ok") =>
            LET row == destination[Op(c).chat]
            IN  ~Active(row) \/ row.last > Op(c).update

(* After a revoke has returned, no token given out before it began is ever   *)
(* consumed, by a handler that had already looked at it either.              *)
RevokedRequestStaysOut ==
    [][\A q \in barred :
          token'[q].status = "consumed" => token[q] = token'[q]]_<<telegramRows, barred, call>>

(* A verified binding reaches a chat of its own recipient: a chat never      *)
(* changes hands, even when two recipients start from it at once.            *)
BindingOwnsChat ==
    \A o \in Owners :
        Verified(binding[o]) => destination[binding[o].chat].recipient = Recipient(o)

(* Telegram is never switched on, or kept on by a later change, when the     *)
(* binding or the chat stopped allowing it after the handler looked.         *)
EnabledWhileEligible ==
    [][\A o \in Owners :
          preference'[o] # preference[o] /\ preference'[o].telegram =>
              Eligible(binding[o], destination[binding[o].chat])]_<<telegramRows, preferenceVars>>

(* A suppressed mailbox stays suppressed for a recipient who writes the same *)
(* address in other capitals, while releases that record suppressions under  *)
(* the address as written are still running.                                 *)
SuppressionFollows ==
    [][\A o \in Owners :
          LET before == preference[o].address
              after == preference'[o].address
          IN  /\ before # None /\ after # None /\ Lower[before] = Lower[after]
              /\ Deliverability(deliverability, before) = "suppressed"
              => Deliverability(deliverability', after) = "suppressed"]_<<telegramRows, preferenceVars>>
=============================================================================
