----------------------------- MODULE MCChannels -----------------------------
(***************************************************************************)
(* An instance of ChannelPipeline for TLC: two recipients, one of them in  *)
(* two tenants, two chats, and an address in three spellings.              *)
(***************************************************************************)
EXTENDS ChannelPipeline, TLC

One == <<"t1", "r1">>
Other == <<"t2", "r1">>
Second == <<"t1", "r2">>
MCOwners == {One, Other, Second}
MCChats == {"c1", "c2"}
MCAddresses == {"bob", "Bob", "BOB", "al"}
MCLower == [a \in MCAddresses |-> IF a = "al" THEN a ELSE "bob"]

Op0 == [kind |-> "none", owner |-> One, token |-> None, chat |-> "c1", update |-> 0,
        version |-> 0, email |-> FALSE, telegram |-> "keep", severity |-> "low"]
Issue(o) == [Op0 EXCEPT !.kind = "issue", !.owner = o]
Revoke(o) == [Op0 EXCEPT !.kind = "revoke", !.owner = o]
Start(q, d, u) == [Op0 EXCEPT !.kind = "start", !.token = q, !.chat = d, !.update = u]
Stop(d, u) == [Op0 EXCEPT !.kind = "stop", !.chat = d, !.update = u]
Prefer(v, email, telegram, severity) ==
    [Op0 EXCEPT !.kind = "put", !.version = v, !.email = email, !.telegram = telegram,
                !.severity = severity]

Calls(cs) == [c \in {<<"i", "j", "x", "y">>[n] : n \in 1..Len(cs)} |->
                 cs[CHOOSE n \in 1..Len(cs) : <<"i", "j", "x", "y">>[n] = c]]

Faults(calls, members, addresses) ==
    [calls |-> calls, members |-> members, addresses |-> addresses]

(* Nothing is bound; or one owner is, to a chat that is active or stopped.   *)
Fresh ==
    [horizon |-> 1, faults |-> Faults(0, 0, 0), cached |-> FALSE, calls |-> Calls(<<>>),
     binding |-> [o \in MCOwners |-> NoBinding],
     destination |-> [d \in MCChats |-> NoDestination],
     preference |-> [o \in MCOwners |-> NoPreference],
     deliverability |-> [a \in MCAddresses |-> "absent"]]
Bound(status) ==
    [Fresh EXCEPT
        !.binding[One] = [chat |-> "c1", status |-> "verified", version |-> 1],
        !.destination["c1"] = [recipient |-> "r1", status |-> status, last |-> 1,
                               version |-> IF status = "active" THEN 1 ELSE 2]]
Preferring(w, email, address, telegram) ==
    [w EXCEPT !.preference[One] = [version |-> 1, email |-> email, address |-> address,
                                   telegram |-> telegram, severity |-> "low"]]
With(w, cs) == [w EXCEPT !.calls = Calls(cs)]

(* Tokens: two are asked for at once, used, revoked and expire. *)
Tokens ==
    {With([Fresh EXCEPT !.horizon = 4, !.faults = Faults(1, 0, 0)], cs) :
        cs \in {<<Issue(One), Issue(One), Start("i", "c1", 1)>>,
                <<Issue(One), Revoke(One), Start("i", "c1", 1)>>}}
    \cup {With([w EXCEPT !.horizon = 3, !.faults = Faults(1, 0, 0)], cs) :
        w \in {Fresh, Bound("active")},
        cs \in {<<Issue(One), Issue(One), Start("i", "c2", 2), Revoke(One)>>}}
    \cup {With([Fresh EXCEPT !.cached = kept, !.faults = Faults(0, 1, 0)], cs) :
        kept \in BOOLEAN, cs \in {<<Issue(One), Start("i", "c1", 1)>>}}

(* Updates of one chat in any order, and twice at once. *)
Updates ==
    {With([w EXCEPT !.faults = Faults(1, 0, 0)], cs) :
        w \in {Fresh, Bound("active"), Bound("suppressed")},
        cs \in {<<Issue(One), Stop("c1", 2), Start("i", "c1", 3), Stop("c1", 4)>>,
                <<Issue(One), Stop("c1", 3), Start("i", "c1", 2), Stop("c1", 3)>>,
                <<Issue(One), Issue(Other), Start("i", "c1", 3), Start("j", "c1", 2)>>,
                <<Stop("c1", 2), Stop("c1", 3), Stop("c1", 3)>>}}

(* Two recipients start from one chat. *)
Takeovers ==
    {With([w EXCEPT !.faults = Faults(1, 0, 0)],
          <<Issue(One), Issue(Second), Start("i", "c1", 2), Start("j", "c1", 3)>>) :
        w \in {Fresh, Bound("active")}}

(* Telegram is switched on, or left on, while the binding changes. *)
Switches ==
    {With([Preferring(Bound("active"), FALSE, None, on) EXCEPT !.faults = Faults(1, 0, 0)], cs) :
        on \in BOOLEAN,
        cs \in {<<Prefer(1, FALSE, "on", "high"), Stop("c1", 2), Revoke(One)>>,
                <<Prefer(1, FALSE, "keep", "high"), Prefer(2, FALSE, "off", "low"), Revoke(One)>>,
                <<Issue(One), Prefer(1, FALSE, "on", "high"), Start("i", "c2", 2), Stop("c2", 3)>>}}

(* The address changes its capitals while feedback suppresses it. *)
Spellings ==
    {With([Preferring(Fresh, TRUE, address, FALSE) EXCEPT
              !.deliverability["bob"] = canonical, !.deliverability["Bob"] = legacy,
              !.faults = Faults(0, 0, 1)],
          <<Prefer(1, TRUE, "keep", "low"), Prefer(2, TRUE, "keep", "high")>>) :
        address \in {"Bob", "bob"}, canonical \in {"absent", "unknown"},
        legacy \in {"absent", "unknown", "suppressed"}}
    \cup {With([Fresh EXCEPT !.faults = Faults(1, 0, 0)],
          <<Prefer(0, TRUE, "keep", "low"), Prefer(0, FALSE, "off", "high"),
            Prefer(1, FALSE, "keep", "high")>>)}

MCWorkloads == Tokens \cup Updates \cup Takeovers \cup Switches \cup Spellings
=============================================================================
