----------------------------- MODULE MCRegistry -----------------------------
(***************************************************************************)
(* An instance of RegistryPipeline for TLC: the rows that exist before the *)
(* calls, and the sets of calls that race.                                 *)
(***************************************************************************)
EXTENDS RegistryPipeline, TLC

Id(x) == <<x, 0>>

Blank == [kind |-> "none", key |-> "k0", body |-> "b", on |-> <<>>, to |-> "-",
          version |-> 0, profile |-> 0, at |-> 0, name |-> "x", device |-> <<>>, tries |-> 1]

Make(kind, key, on) == [Blank EXCEPT !.kind = kind, !.key = key, !.on = on]
Change(kind, on, version, to) ==
    [Blank EXCEPT !.kind = kind, !.on = on, !.version = version, !.to = to]
Place(key, on, to, at) ==
    [Make("start", key, on) EXCEPT !.to = to, !.at = at]
Remove(on, version, at) ==
    [Change("end", on, version, "-") EXCEPT !.at = at]
Claim(key, to, name) ==
    [Make("create_integration", key, Id("d1")) EXCEPT !.to = to, !.name = name]

s0 == Id("s0")
s1 == Id("s1")
a1 == Id("a1")
a2 == Id("a2")
d1 == Id("d1")
p1 == Id("c1")
p2 == Id("c2")
i1 == Id("ia1")
i2 == Id("ia2")

MCComponents == {p1, p2}
MCDefaultComponents == {p2}
MCDefaultSite == s0
MCHttps == {i1}

Alive(of) == Entity("active", of)
MCRows ==
    Site(s0) :> Alive(<<>>) @@ Site(s1) :> Alive(<<>>) @@ Asset(a1) :> Alive(<<s1>>) @@ Asset(a2) :> Alive(<<s1>>)
    @@ Profile(a1) :> Alive(<<s1>>) @@ Profile(a2) :> Alive(<<s1>>)
    @@ Device(d1) :> Alive(<<>>) @@ DeviceLookup(d1) :> Alive(<<>>)
    @@ Component(p1) :> Alive(<<d1>>) @@ ComponentMirror(p1) :> Alive(<<d1>>)
    @@ Component(p2) :> Alive(<<d1>>) @@ ComponentMirror(p2) :> Alive(<<d1>>)
    @@ Account(i1) :> Alive(<<>>) @@ Account(i2) :> Entity("pending", <<>>)
MCDeployments == Id("dep") :> Deployment(p2, a1, 1)

Race(until, calls) == [until |-> until, calls |-> calls]
Other(op) == [op EXCEPT !.body = "c"]
Twice(op) == [op EXCEPT !.tries = 2]

(* One call creates under a key, another sends the same key with the same or *)
(* a different body, a third retires the parent.                             *)
Keyed(op, retire) ==
    {Race(5, "x" :> Twice(op) @@ "y" :> second @@ "z" :> retire) :
        second \in {op, Other(op)}}

(* Two starts and two ends of one component, retroactive or not. *)
Placements ==
    LET first == Place("k1", p1, a1, 1)
        Four(second, at) ==
            "x" :> first @@ "y" :> second @@ "z" :> Remove(<<"x", 1>>, 1, at)
            @@ "v" :> Place("k3", p1, a2, 2)
    IN  {Race(3, Four(second, at)) :
             second \in {first, Place("k2", p1, a2, 1), Remove(<<"x", 1>>, 1, 3)},
             at \in {1, 2}}

(* Two claims of one identity, and the transitions of the first. *)
Claims ==
    {Race(1, "x" :> Claim("k1", i2, "n1") @@ "y" :> Claim("k2", i2, "n1")
             @@ "z" :> [Change("transition_integration", <<"x", 1>>, 1, "active")
                          EXCEPT !.device = dv]
             @@ "v" :> [Change("transition_integration", <<"x", 1>>, v, "error")
                          EXCEPT !.device = d1]) : v \in {1, 2}, dv \in {d1, a1}}

(* Issuers that race for two slots while one credential is revoked. *)
Rotations ==
    LET Issue == Make("issue", "k0", i1)
        Revoke == Change("revoke", <<"x", 1>>, 1, "-")
    IN  {Race(1, "x" :> Twice(Issue) @@ "y" :> Issue @@ "z" :> Revoke @@ "v" :> other) :
            other \in {Issue, Revoke, Change("authenticate", <<"x", 1>>, 1, "-"),
                       Change("transition_account", i1, 1, "revoked")}}

(* Updates that race with each other and with what depends on the row. *)
Updates ==
    {Race(1, "x" :> Change("transition_account", i2, 1, t)
             @@ "y" :> Change("transition_account", i2, v, u)) :
        t \in {"active", "error"}, u \in {"active", "revoked"}, v \in {1, 2}}
    \cup {Race(1, "x" :> [Change("update_asset", a1, 1, "archived") EXCEPT !.profile = v]
             @@ "y" :> [Change("update_asset", a1, v, "-") EXCEPT !.profile = 1]
             @@ "z" :> Place("k1", p1, a1, 1)) : v \in {1, 2}}
    \cup {Race(1, "x" :> Twice(Change("update_device", d1, 1, t))
             @@ "y" :> Change("update_device", d1, v, "decommissioned")
             @@ "z" :> Claim("k1", i1, "n1")) : t \in {"suspended", "-"}, v \in {1, 2}}
    \cup {Race(1, "x" :> Change("update_component", p1, 1, "decommissioned")
             @@ "y" :> Place("k1", p1, a1, 1)
             @@ "z" :> Change("update_component", p1, 1, "-")),
          Race(1, "x" :> Change("update_site", s1, 1, "archived")
             @@ "y" :> Place("k1", p1, a1, 1) @@ "z" :> Place("k2", p2, a2, 1)),
          Race(2, "x" :> Remove(Id("dep"), 1, 2)
             @@ "y" :> Change("update_site", s0, 1, "archived"))}

MCWorkloads ==
    Keyed(Make("create_site", "k1", <<>>), Change("update_site", s1, 1, "archived"))
    \cup Keyed(Make("create_asset", "k1", s1), Change("update_site", s1, 1, "archived"))
    \cup Keyed(Make("create_device", "k1", <<>>),
               Change("update_device", d1, 1, "suspended"))
    \cup Keyed(Make("create_component", "k1", d1),
               Change("update_device", d1, 1, "decommissioned"))
    \cup Keyed(Make("create_capability", "k1", p1),
               Change("update_component", p1, 1, "replaced"))
    \cup Keyed(Make("create_account", "k1", <<>>),
               Change("transition_account", i1, 1, "error"))
    \cup Keyed(Claim("k1", i1, "n1"), Change("transition_account", i1, 1, "revoked"))
    \cup Placements \cup Claims \cup Rotations \cup Updates
=============================================================================
