---- MODULE MCApplication ----
(* Configurations that a small instance of Application moves between. *)
EXTENDS Application, TLC

CONSTANTS n1, n2, z1, z2, p1, p2

Host(names, z) == [names |-> names, zone |-> z]
Zone(n) == [kind |-> 1, capacity |-> n]
Config(zs, hs, pid) == [zones |-> zs, hosts |-> hs, pidfile |-> pid, fixed |-> 1]

\* One zone; both zones, the first one smaller and the host of the second one
\* under both names; the second zone alone; a name and an alias that clash; a
\* zone in another directory.
SmallConfigs == {
    Config(z1 :> Zone(2), {Host({n1}, z1)}, p1),
    Config(z1 :> Zone(1) @@ z2 :> Zone(1), {Host({n1}, z1), Host({n2}, z2)}, p1),
    Config(z2 :> Zone(1), {Host({n1, n2}, z2)}, p2),
    Config(z1 :> Zone(2), {Host({n1}, z1), Host({n1, n2}, z1)}, p1),
    Config(z1 :> [kind |-> 2, capacity |-> 2], {Host({n1}, z1)}, p1)}

Symmetry == Permutations(Conns)
====
