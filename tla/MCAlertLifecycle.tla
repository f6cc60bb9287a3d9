-------------------------- MODULE MCAlertLifecycle --------------------------
(***************************************************************************)
(* Instances of AlertLifecycle for TLC.                                    *)
(***************************************************************************)
EXTENDS AlertLifecycle, FiniteSets, TLC

CONSTANTS r1, r2, r3, w1, w2, o1, o2, c1, c2, k1, email, telegram

Symmetry == Permutations(Workers) \cup Permutations(Owners)

Def(enabled, duration, cooldown) ==
    [enabled |-> enabled, duration |-> duration, cooldown |-> cooldown, channels |-> {email}]

(* One breach opens at once, two are needed; the cooldown outlives a slot. *)
Immediate == Def(TRUE, 60, 2)
Confirmed == Def(TRUE, 90, 2)

Disabled == Def(FALSE, 60, 2)

OnlyImmediate == {Immediate}
OneDefinition == {Confirmed}
AllDefinitions == {Immediate, Confirmed, Disabled}

Toggles == {[enabled |-> TRUE], [enabled |-> FALSE]}
SemanticPatches == Toggles \cup {[duration |-> 60], [duration |-> 90]}
OtherPatches == {[cooldown |-> 1], [channels |-> {telegram}]}
AllPatches == SemanticPatches \cup OtherPatches
-----------------------------------------------------------------------------
(* One instance for the races over rules, explored within any one of three *)
(* scenarios: two workers on one rule, with a fault or a backfill; PATCH    *)
(* requests against a worker; replacements.  A scenario bounds the rules in *)
(* use, those not made by a replacement, the busy workers, the definitions, *)
(* the requests and the counters.                                           *)
Evaluating ==
    [rules |-> 1, direct |-> 1, busy |-> 2, defs |-> {Immediate, Confirmed},
     requests |-> {"resolve"}, time |-> 4, version |-> 1, epoch |-> 3, faults |-> 1]

Patching ==
    [rules |-> 1, direct |-> 1, busy |-> 1, defs |-> {Confirmed},
     requests |-> {"resolve", "update"}, time |-> 3, version |-> 3, epoch |-> 2, faults |-> 0]

Replacing ==
    [rules |-> 3, direct |-> 1, busy |-> 1, defs |-> {Immediate, Disabled},
     requests |-> {"resolve", "replace"}, time |-> 2, version |-> 3, epoch |-> 1, faults |-> 0]

Used(r) == rule[r].status # "absent"

DefinitionOf(item) ==
    [enabled |-> item.enabled, duration |-> item.duration, cooldown |-> item.cooldown,
     channels |-> item.channels]

(* Rule ids are taken in order: they differ in nothing else. *)
InOrder ==
    /\ Used(r2) => Used(r1)
    /\ Used(r3) => Used(r2)
    /\ \A c \in Clients : client[c].pc = "replace" /\ client[c].by = r3 => Used(r2)

Within(s) ==
    /\ now <= s.time /\ faults <= s.faults
    /\ \A c \in Clients :
         /\ client[c].pc \in s.requests \cup {"idle"}
         /\ client[c].pc = "replace" => client[c].def \in s.defs
    /\ \A r \in Rules :
         /\ rule[r].version <= s.version /\ rule[r].epoch <= s.epoch
         /\ rule[r].version = 1 => DefinitionOf(rule[r]) \in s.defs
    /\ Cardinality({w \in Workers : worker[w].pc # "idle"}) <= s.busy
    /\ Cardinality({r \in Rules : Used(r)}) <= s.rules
    /\ Cardinality({r \in Rules : Used(r) /\ rule[r].replaces = NoRule}) <= s.direct

RaceBounds == (\E s \in {Evaluating, Patching, Replacing} : Within(s)) /\ InOrder

RaceInit == Init /\ RaceBounds
RaceNext == Next /\ RaceBounds'
RaceSpec == RaceInit /\ [][RaceNext]_vars
=============================================================================
