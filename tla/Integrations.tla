---------------------------- MODULE Integrations ----------------------------
(***************************************************************************)
(* Integration accounts, device integrations and the external identity     *)
(* each of them claims, ingest credentials with their two slots, and the   *)
(* authentication of a connector by such a credential.                     *)
(***************************************************************************)
EXTENDS Registry

CONSTANTS
    HttpsAccounts,  \* accounts whose provider is in HTTPS_PROVIDER_KEYS
    Slots           \* 1 .. MAX_ACTIVE_INGEST_CREDENTIALS

VARIABLE audit  \* the audit table: the items of the lifecycle changes, in order

Account(i) == <<"account", i>>
Integration(i) == <<"integration", i>>
Credential(i) == <<"credential", i>>
Listing(i) == <<"listing", i>>
Slot(account, n) == <<"slot", account, n>>

(* _identity_hash: an HTTPS identity is scoped to its account, any other is  *)
(* global to the provider.                                                   *)
Identity(account, name) ==
    <<"identity", IF account \in HttpsAccounts THEN account ELSE <<>>, name>>

AccountTransitions ==
    [pending |-> {"active", "error", "revoked"},
     active  |-> {"error", "revoked"},
     error   |-> {"active", "revoked"}]
IntegrationTransitions ==
    [provisioning |-> {"active", "error", "decommissioned"},
     active       |-> {"error", "decommissioned"},
     error        |-> {"active", "decommissioned"}]
Provisionable == {"pending", "active"}

AuditItem(k, before, after) == [resource |-> k, before |-> before, after |-> after]

-----------------------------------------------------------------------------
(* Accounts *)

BuildAccount(c) ==
    /\ At(c, "create_account", "read")
    /\ Build(c, "commit", 0)
    /\ UNCHANGED audit

PutAccount(c) ==
    LET k == Account(NewId(c))
    IN  /\ At(c, "create_account", "commit")
        /\ TransactCreate(c, Absent(k), [x \in {k} |-> Entity("pending", <<>>)], TRUE)
        /\ UNCHANGED audit

(* A target equal to the status is a no-op: no version, no audit item. *)
ReadTransition(c, kind, k, owned, allowed) ==
    LET op == Op(c)  row == Row(k)
    IN  /\ At(c, kind, "begin")
        /\ IF row = NoRow \/ ~owned \/ row.version # op.version THEN Refuse(c)
           ELSE IF row.status = op.to
                THEN /\ Finish(c, "updated")
                     /\ UNCHANGED <<clock, horizon, table, receipt, made, answered>>
           ELSE IF MayBecome(row.status, op.to, allowed)
                THEN Proceed(c, "commit", row.status)
           ELSE Refuse(c)
        /\ UNCHANGED audit

StatusFence(k, c) ==
    AtVersion(k, Op(c).version) /\ HasStatus(k, {call[c].saw})

(* The audit item is put by the same transaction. *)
AuditedUpdate(c, conditions, rows, gone, item) ==
    /\ TransactUpdate(c, conditions, rows, gone)
    /\ audit' = IF conditions THEN Append(audit, item) ELSE audit

ReadAccount(c) ==
    ReadTransition(c, "transition_account", Account(Op(c).on), TRUE,
                   AccountTransitions)

TransitionAccountUnfenced(c) ==
    LET k == Account(Op(c).on)
    IN  /\ At(c, "transition_account", "commit")
        /\ AuditedUpdate(c, TRUE, [x \in {k} |-> Changed(table[k], Op(c).to)], {},
                         AuditItem(k, call[c].saw, Op(c).to))
TransitionAccount(c) ==
    LET k == Account(Op(c).on)
    IN  /\ At(c, "transition_account", "commit")
        /\ AuditedUpdate(c, StatusFence(k, c),
                         [x \in {k} |-> Changed(table[k], Op(c).to)], {},
                         AuditItem(k, call[c].saw, Op(c).to))

-----------------------------------------------------------------------------
(* Device integrations: op.on is the device, op.to the account. *)

ReadIntegrationParents(c) ==
    LET op == Op(c)
    IN  /\ At(c, "create_integration", "read")
        /\ \E device \in MaySee(Device(op.on)) :
              IF /\ device # NoRow
                 /\ device.status # "decommissioned"
                 /\ HasStatus(Account(op.to), Provisionable)
              THEN Build(c, "commit", 0)
              ELSE Refuse(c)
        /\ UNCHANGED audit

PutIntegration(c) ==
    LET op == Op(c)
        k  == Integration(NewId(c))
        l  == Identity(op.to, op.name)
    IN  /\ At(c, "create_integration", "commit")
        /\ TransactCreate(c,
              /\ Absent(k)
              /\ Absent(l)
              /\ HasStatus(Account(op.to), Provisionable)
              /\ HasStatus(Device(op.on), {"provisioning", "active", "suspended"}),
              [x \in {k, l} |-> Entity("provisioning",
                   IF x = k THEN <<op.on, op.to, l>> ELSE <<op.on, NewId(c)>>)],
              TRUE)
        /\ UNCHANGED audit

(* Another device's integration is a 404, whatever its version. *)
ReadIntegration(c) ==
    ReadTransition(c, "transition_integration", Integration(Op(c).on),
                   table[Integration(Op(c).on)].of[1] = Op(c).device,
                   IntegrationTransitions)

(* The identity stays claimed; its lookup row moves with the integration. *)
TransitionIntegration(c) ==
    LET k == Integration(Op(c).on)
        l == table[k].of[3]
    IN  /\ At(c, "transition_integration", "commit")
        /\ AuditedUpdate(c, StatusFence(k, c) /\ AtVersion(l, Op(c).version),
                         [x \in {k, l} |-> Changed(table[x], Op(c).to)], {},
                         AuditItem(k, call[c].saw, Op(c).to))

(* resolve_external_identity, its two consistent reads taken together. *)
Resolve(l) ==
    IF /\ l \in DOMAIN table
       /\ Integration(table[l].of[2]) \in DOMAIN table
       /\ table[Integration(table[l].of[2])].of[1] = table[l].of[1]
       /\ table[Integration(table[l].of[2])].of[3] = l
    THEN table[l].of[2] ELSE <<>>

-----------------------------------------------------------------------------
(* Ingest credentials *)

ReadIssuer(c) ==
    /\ At(c, "issue", "begin")
    /\ IF HasStatus(Account(Op(c).on), Provisionable) /\ Op(c).on \in HttpsAccounts
       THEN Proceed(c, "list", 0)
       ELSE Refuse(c)
    /\ UNCHANGED audit

(* list_ingest_credentials: the listing rows ... *)
ListCredentials(c) ==
    /\ At(c, "issue", "list")
    /\ Proceed(c, "slots", {k[2] : k \in {x \in DOMAIN table :
                               x[1] = "listing" /\ table[x].of[1] = Op(c).on}})
    /\ UNCHANGED audit

(* ... then the authoritative row of each; the first free slot is taken. *)
FreeSlots(c) ==
    {n \in Slots : \A i \in call[c].saw :
        table[Credential(i)].status = "active" => table[Credential(i)].of[2] # n}

ChooseSlot(c) ==
    /\ At(c, "issue", "slots")
    /\ IF FreeSlots(c) = {} THEN Refuse(c)
       ELSE Proceed(c, "commit",
                    CHOOSE n \in FreeSlots(c) : \A m \in FreeSlots(c) : n <= m)
    /\ UNCHANGED audit

IssueRows(c) ==
    LET n    == call[c].saw
        keys == {Credential(NewId(c)), Listing(NewId(c)), Slot(Op(c).on, n)}
    IN  [k \in keys |-> Entity("active",
            IF k = Slot(Op(c).on, n) THEN <<NewId(c)>> ELSE <<Op(c).on, n>>)]

(* The slot row is put only if it is not there: two issuers that chose the   *)
(* same slot do not both commit.                                             *)
IssueCredentialUnslotted(c) ==
    /\ At(c, "issue", "commit")
    /\ AuditedUpdate(c, HasStatus(Account(Op(c).on), Provisionable), IssueRows(c), {},
                     AuditItem(Credential(NewId(c)), "none", "active"))
IssueCredential(c) ==
    /\ At(c, "issue", "commit")
    /\ AuditedUpdate(c, /\ HasStatus(Account(Op(c).on), Provisionable)
                        /\ \A k \in DOMAIN IssueRows(c) : Absent(k),
                     IssueRows(c), {},
                     AuditItem(Credential(NewId(c)), "none", "active"))

(* revoke_ingest_credential reads the row only to find its slot. *)
ReadCredential(c) ==
    LET row == Row(Credential(Op(c).on))
    IN  /\ At(c, "revoke", "begin")
        /\ IF row = NoRow THEN Refuse(c) ELSE Proceed(c, "commit", row.of[2])
        /\ UNCHANGED audit

RevokeConditions(c) ==
    LET k == Credential(Op(c).on)
        s == Slot(table[Credential(Op(c).on)].of[1], call[c].saw)
    IN  /\ HasStatus(k, {"active"})
        /\ AtVersion(k, Op(c).version)
        /\ s \in DOMAIN table /\ table[s].of[1] = Op(c).on

(* The credential and its listing row are revoked and its slot is freed. *)
RevokeCredential(c) ==
    LET i    == Op(c).on
        keys == {Credential(i), Listing(i)}
    IN  /\ At(c, "revoke", "commit")
        /\ AuditedUpdate(c, RevokeConditions(c),
                         [k \in keys |-> Changed(table[k], "revoked")],
                         {Slot(table[Credential(i)].of[1], call[c].saw)},
                         AuditItem(Credential(i), "active", "revoked"))

-----------------------------------------------------------------------------
(* A connector's call: authenticate reads the credential, then its account. *)

Authenticate(c) ==
    /\ At(c, "authenticate", "begin")
    /\ IF HasStatus(Credential(Op(c).on), {"active"})
       THEN Proceed(c, "account", 0)
       ELSE Refuse(c)
    /\ UNCHANGED audit

AuthenticateAccount(c) ==
    LET account == table[Credential(Op(c).on)].of[1]
    IN  /\ At(c, "authenticate", "account")
        /\ IF HasStatus(Account(account), {"active"}) /\ account \in HttpsAccounts
           THEN /\ Finish(c, "updated")
                /\ UNCHANGED <<clock, horizon, table, receipt, made, answered>>
           ELSE Refuse(c)
        /\ UNCHANGED audit

IntegrationStep(c) ==
    \/ BuildAccount(c) \/ PutAccount(c) \/ ReadAccount(c) \/ TransitionAccount(c)
    \/ ReadIntegrationParents(c) \/ PutIntegration(c)
    \/ ReadIntegration(c) \/ TransitionIntegration(c)
    \/ ReadIssuer(c) \/ ListCredentials(c) \/ ChooseSlot(c) \/ IssueCredential(c)
    \/ ReadCredential(c) \/ RevokeCredential(c)
    \/ Authenticate(c) \/ AuthenticateAccount(c)
=============================================================================
