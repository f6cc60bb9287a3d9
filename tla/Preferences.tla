---------------------------- MODULE Preferences ----------------------------
(***************************************************************************)
(* PUT /notification-preferences: what a recipient of a tenant wants to    *)
(* hear of, and through which channel. Telegram may be switched on only    *)
(* while the binding and its destination allow it, and the e-mail address  *)
(* is the one the identity provider vouches for at the time.               *)
(*                                                                         *)
(* A deliverability row is keyed by the digest of an address: today of its *)
(* lower-case form (the canonical key), before of the address as written   *)
(* (the legacy key), which for a lower-case address is the same. A key is  *)
(* modelled by the address it is the digest of. Views and the reads only   *)
(* they use, and the audit row each save adds to another table, which no   *)
(* handler reads, are left out.                                            *)
(***************************************************************************)
EXTENDS TelegramBindings

CONSTANTS
    Addresses,
    Lower,       \* address -> its lower-case form
    Severities   \* the least severity a recipient wants to hear of

VARIABLES
    preference,     \* owner -> its NOTIFICATION_PREFERENCE row
    deliverability  \* key -> "absent", "unknown" or "suppressed"

preferenceVars == <<preference, deliverability>>

PreferenceRows ==
    [version : Nat, email : BOOLEAN, address : Addresses \cup {None}, telegram : BOOLEAN,
     severity : Severities \cup {None}]
DeliverabilityStates == {"absent", "unknown", "suppressed"}

ASSUME AddressAssumption == Lower \in [Addresses -> Addresses]

(* A preference that is absent names no address. *)
ASSUME PreferencesAssumption ==
    \A w \in Workloads :
        /\ w.preference \in [Owners -> PreferenceRows]
        /\ \A o \in Owners : ~There(w.preference[o]) => w.preference[o].address = None
        /\ w.deliverability \in [Addresses -> DeliverabilityStates]
        /\ \A c \in DOMAIN w.calls :
              /\ w.calls[c].version \in Nat
              /\ w.calls[c].email \in BOOLEAN
              /\ w.calls[c].severity \in Severities

(* get_email_deliverability *)
Deliverability(rows, address) ==
    LET canonical == rows[Lower[address]]
    IN  IF canonical = "absent" THEN rows[address] ELSE canonical

(* put: no expected_version (0) wants no row, another one that version. *)
PutRead(c) ==
    LET existing == preference[Op(c).owner]
    IN  /\ At(c, "put", "begin")
        /\ IF existing.version = Op(c).version
           THEN GoTo(c, "binding", [Unread EXCEPT !.preference = existing])
           ELSE End(c, "refused")
        /\ UNCHANGED preferenceVars

WantsTelegram(c) ==
    IF Op(c).telegram = "keep" THEN Saw(c).preference.telegram ELSE Op(c).telegram = "on"

PutReadBinding(c) ==
    /\ At(c, "put", "binding")
    /\ GoTo(c, "destination", [Saw(c) EXCEPT !.binding = binding[Op(c).owner]])
    /\ UNCHANGED preferenceVars

(* telegram_is_effectively_enabled *)
Eligible(bound, reached) == Verified(bound) /\ Active(reached)

PutReadDestination(c) ==
    LET bound == Saw(c).binding
        reached == IF There(bound) THEN destination[bound.chat] ELSE NoDestination
    IN  /\ At(c, "put", "destination")
        /\ IF WantsTelegram(c) /\ ~Eligible(bound, reached)
           THEN End(c, "refused")
           ELSE GoTo(c, "identity", [Saw(c) EXCEPT !.destination = reached])
        /\ UNCHANGED preferenceVars

NeedsIdentity(c) ==
    Op(c).email \/ (~There(Saw(c).preference) /\ Op(c).telegram = "keep")

Desired(c, address) ==
    [version |-> Op(c).version + 1, email |-> Op(c).email, address |-> address,
     telegram |-> WantsTelegram(c), severity |-> Op(c).severity]

Same(row, wanted) ==
    There(row) /\ row = [wanted EXCEPT !.version = row.version]

(* The identity provider names an address, or refuses. A request that        *)
(* changes nothing writes nothing. call.wants is the row to be written.      *)
PutVerify(c) ==
    /\ At(c, "put", "identity")
    /\ \/ /\ NeedsIdentity(c)
          /\ End(c, "refused")
       \/ \E address \in IF NeedsIdentity(c) THEN Addresses ELSE {Saw(c).preference.address} :
             IF Same(Saw(c).preference, Desired(c, address))
             THEN End(c, "ok")
             ELSE /\ call' = [call EXCEPT ![c].pc = "legacy", ![c].wants = Desired(c, address)]
                  /\ UNCHANGED telegramVars
    /\ UNCHANGED preferenceVars

(* _legacy_suppression_migration: an address that is given up takes what its *)
(* legacy key says along to its canonical key.                               *)
GivesUp(before, after) ==
    /\ There(before)
    /\ before.address # None /\ after.address # None
    /\ before.address # after.address
    /\ Lower[before.address] # before.address

PutReadLegacy(c) ==
    LET before == Saw(c).preference
    IN  /\ At(c, "put", "legacy")
        /\ GoTo(c, "commit", [Saw(c) EXCEPT !.legacy =
                                 IF GivesUp(before, call[c].wants)
                                 THEN deliverability[before.address] ELSE "none"])
        /\ UNCHANGED preferenceVars

AnyLegacy(c) == TRUE
LegacyFits(c) ==
    Saw(c).legacy \in {"absent", "unknown"} =>
        deliverability[Saw(c).preference.address] = Saw(c).legacy

(* _telegram_eligibility_conditions: both rows are as they were read. *)
AnyBinding(c) == TRUE
TelegramFits(c) ==
    call[c].wants.telegram =>
        LET bound == binding[Op(c).owner]
            reached == destination[Saw(c).binding.chat]
        IN  /\ Verified(bound) /\ bound.version = Saw(c).binding.version
            /\ Active(reached) /\ reached.version = Saw(c).destination.version
            /\ reached.recipient = Recipient(Op(c).owner)

VersionFits(c) == preference[Op(c).owner].version = Op(c).version

(* What the legacy key suppressed, the canonical key suppresses. *)
Migrated(c) ==
    IF Saw(c).legacy = "suppressed"
    THEN [deliverability EXCEPT ![Lower[Saw(c).preference.address]] = "suppressed"]
    ELSE deliverability

PutCommit(c) ==
    LET o == Op(c).owner
        fits == VersionFits(c) /\ LegacyFits(c) /\ TelegramFits(c)
    IN  /\ At(c, "put", "commit")
        /\ \/ /\ fits
              /\ preference' = [preference EXCEPT ![o] = call[c].wants]
              /\ deliverability' = Migrated(c)
              /\ Answered(c, "ok")
              /\ UNCHANGED <<telegramRows, barred>>
           \/ ~fits /\ End(c, "refused") /\ UNCHANGED preferenceVars
           \/ Unavailable(c) /\ UNCHANGED preferenceVars

(* SES feedback suppresses an address, one of a release that still used the  *)
(* legacy key too.                                                           *)
Suppress(key) ==
    /\ faults.addresses > 0
    /\ faults' = [faults EXCEPT !.addresses = @ - 1]
    /\ deliverability' = [deliverability EXCEPT ![key] = "suppressed"]
    /\ UNCHANGED <<now, horizon, telegramRows, member, cached, barred, call, preference>>

PreferenceStep(c) ==
    \/ PutRead(c) \/ PutReadBinding(c) \/ PutReadDestination(c) \/ PutVerify(c)
    \/ PutReadLegacy(c) \/ PutCommit(c)
=============================================================================
