-------------------------- MODULE Application_proofs --------------------------
(***************************************************************************)
(* The application, for any configurations, names, connections and number  *)
(* of reloads, and whatever fails on the way.                              *)
(***************************************************************************)
EXTENDS Application, FiniteSetTheorems, TLAPS

-----------------------------------------------------------------------------
(* The inductive invariant *)

\* What a zone is when it is installed with configuration c.
ZonesOf(c) == {[id |-> x, capacity |-> c.zones[x].capacity] : x \in DOMAIN c.zones}
Instances == UNION {ZonesOf(c) : c \in Configs}

Building == main \in {"build", "swap", "clear", "resize", "copy"}
Built == main \in {"swap", "clear", "resize", "copy"}
Locking == main \in {"clear", "resize", "copy"}

\* A zone that is installed under an ID is one that was created for it.
InstOK ==
    /\ inst \in Seq(Instances)
    /\ \A id \in DOMAIN zones : zones[id] \in DOMAIN inst /\ inst[zones[id]].id = id

CfgOK ==
    /\ main \notin {"start", "exited"} => cfg \in Configs
    /\ Building => new.cfg \in Configs
    /\ main = "start" => hosts = <<>>

\* The private copy of a reload: it is complete, on zones of its own or those that are
\* installed, which are resized before the map of zones is filled from it.
NewOK ==
    /\ Built => /\ DOMAIN new.zones = DOMAIN new.cfg.zones
                /\ DOMAIN new.hosts = NamesOf(new.cfg)
                /\ \A n \in DOMAIN new.hosts :
                      new.hosts[n] = new.zones[HostOf(new.cfg, n).zone]
                /\ \A id \in DOMAIN new.zones :
                      new.zones[id] \in DOMAIN inst /\ inst[new.zones[id]].id = id
    /\ main = "swap" => \A id \in DOMAIN zones \cap DOMAIN new.zones : zones[id] = new.zones[id]
    /\ main = "resize" => zones = <<>>
    /\ main = "copy" =>
          /\ \A id \in DOMAIN zones : id \in DOMAIN new.zones /\ zones[id] = new.zones[id]
          /\ \A id \in DOMAIN new.zones :
                inst[new.zones[id]] = [id |-> id, capacity |-> new.cfg.zones[id].capacity]

LockOK ==
    /\ locked \in BOOLEAN
    /\ main # "exited" => (locked <=> Locking)
    /\ Locking => cfg = new.cfg /\ hosts = new.hosts

\* Of the zone a request holds: it is installed, or is about to be again, or is gone.
HeldOK ==
    \A c \in Conns : conn[c].held # None =>
        /\ ~locked => conn[c].held \in Range(zones) \cup gone
        /\ Locking => conn[c].held \in Range(new.zones) \cup gone

ConnTypes ==
    conn \in [Conns -> [at : {"new", "open", "located", "serving", "closing", "gone"},
                        wired : BOOLEAN, held : Nat \cup {None}, using : Conns \cup {None}]]

\* The client of a connection is there until its reset or its closing is known.
WiredOK ==
    /\ registry \in Conns \cup {None}
    /\ \A c \in Conns : conn[c].wired => /\ conn[c].at \in {"open", "located", "serving"}
                                         /\ registry = c /\ conn[c].using \in {None, c}

Installing == InstOK /\ CfgOK /\ NewOK /\ LockOK
AppInv == Installing /\ OneConfiguration /\ HeldOK /\ ConnTypes /\ WiredOK

others == <<main, server, signals, hups, installed, new, pidfiles>>

-----------------------------------------------------------------------------
(* Zones that are created *)

LEMMA Numbers ==
    ASSUME NEW k \in Nat, NEW n \in Nat
    PROVE  IsFiniteSet(k + 1 .. k + n) /\ Cardinality(k + 1 .. k + n) = n
<1> DEFINE a == k + 1
           b == k + n
<1>1. a \in Int /\ b \in Int /\ (IF a > b THEN 0 ELSE b - a + 1) = n
  OBVIOUS
<1> HIDE DEF a, b
<1>2. IsFiniteSet(a .. b) /\ Cardinality(a .. b) = IF a > b THEN 0 ELSE b - a + 1
  BY <1>1, FS_Interval
<1>3. QED  BY <1>1, <1>2 DEF a, b

LEMMA CreatedIsInjective ==
    ASSUME NEW ids, IsFiniteSet(ids), inst \in Seq(Instances)
    PROVE  /\ Created(ids) \in [ids -> Len(inst) + 1 .. Len(inst) + Cardinality(ids)]
           /\ \A a, b \in ids : Created(ids)[a] = Created(ids)[b] => a = b
           /\ Cardinality(ids) \in Nat
<1>1. Cardinality(ids) \in Nat /\ Len(inst) \in Nat
  BY FS_CardinalityType
<1> DEFINE T == Len(inst) + 1 .. Len(inst) + Cardinality(ids)
<1>2. IsFiniteSet(T) /\ Cardinality(T) = Cardinality(ids)
  BY <1>1, Numbers
<1>3. ExistsBijection(ids, T)
  BY <1>2, FS_SameCardinalityBij
<1>4. \E f \in [ids -> T] : IsInjective(f)
  BY <1>3 DEF ExistsBijection, Bijection, Injection
<1>5. Created(ids) \in [ids -> T] /\ IsInjective(Created(ids))
  BY <1>4 DEF Created
<1>6. QED  BY <1>1, <1>5 DEF IsInjective

LEMMA WithCreatedExtends ==
    ASSUME NEW c \in Configs, NEW ids \in SUBSET DOMAIN c.zones, inst \in Seq(Instances)
    PROVE  LET f == Created(ids)
               more == WithCreated(c, f)
           IN  /\ more \in Seq(Instances)
               /\ \A i \in DOMAIN inst : i \in DOMAIN more /\ more[i] = inst[i]
               /\ \A id \in ids : f[id] \in DOMAIN more /\ more[f[id]].id = id
<1> DEFINE f == Created(ids)
           made == [i \in 1..Cardinality(DOMAIN f) |->
                      LET id == CHOOSE x \in DOMAIN f : f[x] = Len(inst) + i
                      IN  [id |-> id, capacity |-> c.zones[id].capacity]]
           n == Cardinality(ids)
<1>1. IsFiniteSet(ids)
  BY FS_Subset, ConfigAssumption
<1>2. /\ f \in [ids -> Len(inst) + 1 .. Len(inst) + n] /\ n \in Nat /\ Len(inst) \in Nat
      /\ \A a, b \in ids : f[a] = f[b] => a = b
  BY <1>1, CreatedIsInjective
<1>3. f \in Surjection(ids, Len(inst) + 1 .. Len(inst) + n)
  <2> DEFINE T == Len(inst) + 1 .. Len(inst) + n
  <2>1. f \in Injection(ids, T)
    BY <1>2 DEF Injection, IsInjective
  <2>2. IsFiniteSet(T) /\ Cardinality(T) = n
    BY <1>2, Numbers
  <2>3. QED  BY <2>1, <2>2, FS_Injection
<1>4. \A i \in 1..n : \E x \in ids : f[x] = Len(inst) + i
  <2> SUFFICES ASSUME NEW i \in 1..n PROVE \E x \in ids : f[x] = Len(inst) + i
    OBVIOUS
  <2>1. Len(inst) + i \in Len(inst) + 1 .. Len(inst) + n
    BY <1>2
  <2>2. QED  BY <1>3, <2>1 DEF Surjection
<1>5. made \in Seq(Instances) /\ Len(made) = n /\ DOMAIN made = 1..n
  <2>1. ASSUME NEW i \in 1..n PROVE made[i] \in Instances
    <3> DEFINE id == CHOOSE x \in DOMAIN f : f[x] = Len(inst) + i
    <3>1. id \in ids
      BY <1>2, <1>4
    <3>2. [id |-> id, capacity |-> c.zones[id].capacity] \in ZonesOf(c)
      BY <3>1 DEF ZonesOf
    <3>3. made[i] = [id |-> id, capacity |-> c.zones[id].capacity]
      BY <1>2
    <3>4. QED  BY <3>2, <3>3 DEF Instances
  <2>2. DOMAIN f = ids
    BY <1>2
  <2> HIDE DEF f
  <2>3. made \in [1..n -> Instances]
    BY <2>1, <2>2
  <2> HIDE DEF made
  <2>4. QED  BY <1>2, <2>3
<1>6. \A id \in ids : f[id] - Len(inst) \in 1..n /\ made[f[id] - Len(inst)].id = id
  <2> SUFFICES ASSUME NEW id \in ids
               PROVE  f[id] - Len(inst) \in 1..n /\ made[f[id] - Len(inst)].id = id
    OBVIOUS
  <2> DEFINE i == f[id] - Len(inst)
  <2>1. i \in 1..n /\ f[id] = Len(inst) + i /\ DOMAIN f = ids
    BY <1>2
  <2>2. (CHOOSE x \in ids : f[x] = Len(inst) + i) = id
    BY <1>2, <2>1
  <2>3. QED  BY <2>1, <2>2
<1>7. WithCreated(c, f) = inst \o made
  BY DEF WithCreated
<1> HIDE DEF f, made
<1>8. /\ inst \o made \in Seq(Instances)
      /\ \A i \in DOMAIN inst : i \in DOMAIN (inst \o made) /\ (inst \o made)[i] = inst[i]
      /\ \A i \in 1..n : /\ Len(inst) + i \in DOMAIN (inst \o made)
                         /\ (inst \o made)[Len(inst) + i] = made[i]
  BY <1>2, <1>5
<1>9. ASSUME NEW id \in ids
      PROVE  f[id] \in DOMAIN (inst \o made) /\ (inst \o made)[f[id]].id = id
  <2>1. f[id] = Len(inst) + (f[id] - Len(inst))
    BY <1>2
  <2>2. QED  BY <1>6, <1>8, <2>1
<1>10. QED  BY <1>7, <1>8, <1>9 DEF f

-----------------------------------------------------------------------------
(* Each step of the main goroutine keeps what is installed in order *)

Ordered == Installing /\ OneConfiguration

LEMMA HostHasAZone ==
    ASSUME NEW c \in Configs, NEW n \in NamesOf(c)
    PROVE  HostOf(c, n).zone \in DOMAIN c.zones
<1>1. \E h \in c.hosts : n \in h.names
  BY DEF NamesOf
<1>2. HostOf(c, n) \in c.hosts
  BY <1>1 DEF HostOf
<1>3. QED  BY <1>2, ConfigAssumption

LEMMA NothingInstalled ==
    ASSUME Ordered, UNCHANGED <<main, installed, new>>
    PROVE  Ordered'
BY DEF Ordered, Installing, OneConfiguration, InstOK, CfgOK, NewOK, LockOK, installed,
       Building, Built, Locking, NamesOf, HostOf

\* The steps between reloads: where the main goroutine is, changes, or it prepares a
\* configuration, with nothing built.
LEMMA BetweenReloads ==
    ASSUME Ordered, ~Building, ~Building' \/ main' = "build", main' # "start",
           UNCHANGED <<hosts, zones, locked, inst>>,
           main' # "exited" => cfg' \in Configs /\ main # "exited",
           main' = "build" => new'.cfg \in Configs,
           UNCHANGED cfg \/ hosts = <<>>
    PROVE  Ordered'
<1>1. InstOK'
  BY DEF Ordered, Installing, InstOK
<1>2. CfgOK'
  BY DEF CfgOK, Building
<1>3. NewOK'
  BY DEF NewOK, Building, Built
<1>4. LockOK'
  BY DEF Ordered, Installing, LockOK, Building, Locking
<1>5. OneConfiguration'
  BY DEF Ordered, OneConfiguration, NamesOf, HostOf
<1>6. QED  BY <1>1, <1>2, <1>3, <1>4, <1>5 DEF Ordered, Installing

LEMMA BuildStep ==
    ASSUME Ordered, Build
    PROVE  Ordered'
<1> DEFINE c == new.cfg
           f == Created(DOMAIN c.zones \ Kept(c))
           all == [id \in DOMAIN c.zones |-> IF id \in Kept(c) THEN zones[id] ELSE f[id]]
<1>1. /\ main = "build" /\ main' = "swap" /\ c \in Configs
      /\ inst' = WithCreated(c, f)
      /\ new' = [cfg |-> c, zones |-> all,
                 hosts |-> [n \in NamesOf(c) |-> all[HostOf(c, n).zone]]]
      /\ UNCHANGED <<cfg, hosts, zones, locked>>
  BY DEF Build, Ordered, Installing, CfgOK, Building
<1>2. InstOK /\ CfgOK /\ LockOK /\ OneConfiguration /\ locked = FALSE
  BY <1>1 DEF Ordered, Installing, LockOK, Locking
<1>3. /\ inst' \in Seq(Instances)
      /\ \A i \in DOMAIN inst : i \in DOMAIN inst' /\ inst'[i] = inst[i]
      /\ \A id \in DOMAIN c.zones \ Kept(c) : f[id] \in DOMAIN inst' /\ inst'[f[id]].id = id
  <2> DEFINE ids == DOMAIN c.zones \ Kept(c)
  <2>1. ids \in SUBSET DOMAIN c.zones /\ inst \in Seq(Instances) /\ c \in Configs
    BY <1>1, <1>2 DEF InstOK
  <2>2. inst' = WithCreated(c, Created(ids))
    BY <1>1
  <2> HIDE DEF ids, c
  <2>3. /\ WithCreated(c, Created(ids)) \in Seq(Instances)
        /\ \A i \in DOMAIN inst : /\ i \in DOMAIN WithCreated(c, Created(ids))
                                  /\ WithCreated(c, Created(ids))[i] = inst[i]
        /\ \A id \in ids : /\ Created(ids)[id] \in DOMAIN WithCreated(c, Created(ids))
                            /\ WithCreated(c, Created(ids))[Created(ids)[id]].id = id
    BY <2>1, WithCreatedExtends
  <2>4. QED  BY <2>2, <2>3 DEF ids
<1>4. InstOK'
  BY <1>1, <1>2, <1>3 DEF InstOK
<1>5. CfgOK'
  BY <1>1, <1>2 DEF CfgOK, Building
<1>6. NewOK'
  <2> HIDE DEF f
  <2>1. /\ new'.cfg = c /\ new'.zones = all
        /\ new'.hosts = [n \in NamesOf(c) |-> all[HostOf(c, n).zone]]
    BY <1>1
  <2>2. \A id \in DOMAIN c.zones : all[id] \in DOMAIN inst' /\ inst'[all[id]].id = id
    BY <1>2, <1>3 DEF Kept, InstOK
  <2>3. \A id \in DOMAIN zones \cap DOMAIN c.zones : all[id] = zones[id]
    BY DEF Kept
  <2> HIDE DEF c, all
  <2>4. DOMAIN all = DOMAIN c.zones
    BY DEF all
  <2>5. NamesOf(new'.cfg) = NamesOf(c) /\ \A n : HostOf(new'.cfg, n) = HostOf(c, n)
    BY <2>1
  <2>6. QED  BY <1>1, <2>1, <2>2, <2>3, <2>4, <2>5 DEF NewOK, Built
<1>7. LockOK'
  BY <1>1, <1>2 DEF LockOK, Locking
<1>8. OneConfiguration'
  <2>1. UNCHANGED <<cfg, hosts, zones, locked>>
    BY <1>1
  <2> HIDE DEF c, f, all
  <2>2. QED  BY <1>2, <1>3, <2>1 DEF OneConfiguration, InstOK, NamesOf, HostOf
<1>9. QED  BY <1>4, <1>5, <1>6, <1>7, <1>8 DEF Ordered, Installing

LEMMA BuildFailsStep ==
    ASSUME Ordered, BuildFails
    PROVE  Ordered'
<1>1. /\ main = "build" /\ main' \in {"exited", "loop"} /\ new.cfg \in Configs
      /\ UNCHANGED <<cfg, hosts, zones, locked>>
  BY DEF BuildFails, Ordered, Installing, CfgOK, Building
<1>2. InstOK /\ CfgOK /\ LockOK /\ OneConfiguration
  BY DEF Ordered, Installing
<1>3. PICK ids \in SUBSET (DOMAIN new.cfg.zones \ Kept(new.cfg)) :
        inst' = WithCreated(new.cfg, Created(ids))
  BY DEF BuildFails
<1>4. /\ inst' \in Seq(Instances)
      /\ \A i \in DOMAIN inst : i \in DOMAIN inst' /\ inst'[i] = inst[i]
  BY <1>1, <1>2, <1>3, WithCreatedExtends DEF InstOK
<1>5. InstOK'
  BY <1>1, <1>2, <1>4 DEF InstOK
<1>6. CfgOK' /\ NewOK' /\ LockOK'
  BY <1>1, <1>2 DEF CfgOK, NewOK, LockOK, Building, Built, Locking
<1>7. OneConfiguration'
  BY <1>1, <1>2, <1>4 DEF OneConfiguration, InstOK, NamesOf, HostOf
<1>8. QED  BY <1>5, <1>6, <1>7 DEF Ordered, Installing

LEMMA SwapStep ==
    ASSUME Ordered, Swap
    PROVE  Ordered'
BY DEF Swap, Ordered, Installing, OneConfiguration, InstOK, CfgOK, NewOK, LockOK,
       Building, Built, Locking

LEMMA ClearStep ==
    ASSUME Ordered, Clear
    PROVE  Ordered'
BY DEF Clear, Ordered, Installing, OneConfiguration, InstOK, CfgOK, NewOK, LockOK,
       Building, Built, Locking

LEMMA ResizeStep ==
    ASSUME Ordered, Resize
    PROVE  Ordered'
<1>1. /\ main = "resize" /\ main' = "copy" /\ zones = <<>>
      /\ UNCHANGED <<cfg, hosts, zones, locked, new>>
      /\ inst' = [i \in DOMAIN inst |->
                    IF i \in Range(new.zones)
                    THEN [inst[i] EXCEPT !.capacity = new.cfg.zones[inst[i].id].capacity]
                    ELSE inst[i]]
  BY DEF Resize, Ordered, Installing, NewOK
<1>2. InstOK /\ CfgOK /\ NewOK /\ LockOK /\ OneConfiguration /\ new.cfg \in Configs
  BY <1>1 DEF Ordered, Installing, CfgOK, Building
<1>3. \A i \in DOMAIN inst : /\ inst[i] \in Instances
                             /\ inst[i] = [id |-> inst[i].id, capacity |-> inst[i].capacity]
  <2> SUFFICES ASSUME NEW i \in DOMAIN inst
               PROVE  /\ inst[i] \in Instances
                      /\ inst[i] = [id |-> inst[i].id, capacity |-> inst[i].capacity]
    OBVIOUS
  <2>1. inst[i] \in Instances
    BY <1>2 DEF InstOK
  <2>2. PICK c \in Configs : inst[i] \in ZonesOf(c)
    BY <2>1 DEF Instances
  <2>3. PICK x : inst[i] = [id |-> x, capacity |-> c.zones[x].capacity]
    BY <2>2 DEF ZonesOf
  <2>4. QED  BY <2>1, <2>3
<1>4. ASSUME NEW id \in DOMAIN new.zones
      PROVE  /\ new.zones[id] \in DOMAIN inst
             /\ inst'[new.zones[id]] =
                   [id |-> id, capacity |-> new.cfg.zones[id].capacity]
             /\ inst'[new.zones[id]] \in Instances
  <2>1. new.zones[id] \in DOMAIN inst /\ inst[new.zones[id]].id = id /\ id \in DOMAIN new.cfg.zones
    BY <1>1, <1>2 DEF NewOK, Built
  <2>2. new.zones[id] \in Range(new.zones)
    BY DEF Range
  <2>3. inst'[new.zones[id]] =
          [inst[new.zones[id]] EXCEPT !.capacity = new.cfg.zones[inst[new.zones[id]].id].capacity]
    BY <1>1, <2>1, <2>2
  <2>4. inst'[new.zones[id]] = [id |-> id, capacity |-> new.cfg.zones[id].capacity]
    BY <1>3, <2>1, <2>3
  <2>5. [id |-> id, capacity |-> new.cfg.zones[id].capacity] \in ZonesOf(new.cfg)
    BY <2>1 DEF ZonesOf
  <2>6. QED  BY <1>2, <2>1, <2>4, <2>5 DEF Instances
<1>5. inst' \in Seq(Instances) /\ DOMAIN inst' = DOMAIN inst
  <2>1. \A i \in DOMAIN inst : inst'[i] \in Instances
    <3> SUFFICES ASSUME NEW i \in DOMAIN inst PROVE inst'[i] \in Instances
      OBVIOUS
    <3>1. CASE i \in Range(new.zones)
      BY <1>4, <3>1 DEF Range
    <3>2. CASE i \notin Range(new.zones)
      BY <1>1, <1>3, <3>2
    <3>3. QED  BY <3>1, <3>2
  <2>2. DOMAIN inst = 1..Len(inst) /\ Len(inst) \in Nat
    BY <1>2 DEF InstOK
  <2>3. DOMAIN inst' = 1..Len(inst) /\ inst' = [i \in 1..Len(inst) |-> inst'[i]]
    BY <1>1, <2>2
  <2>4. inst' \in [1..Len(inst) -> Instances]
    BY <2>1, <2>2, <2>3
  <2>5. QED  BY <2>2, <2>3, <2>4
<1>6. InstOK'
  BY <1>1, <1>5 DEF InstOK
<1>7. CfgOK' /\ LockOK'
  BY <1>1, <1>2 DEF CfgOK, LockOK, Building, Locking
<1>8. NewOK'
  <2>1. /\ DOMAIN new.zones = DOMAIN new.cfg.zones
        /\ DOMAIN new.hosts = NamesOf(new.cfg)
        /\ \A n \in DOMAIN new.hosts :
              new.hosts[n] = new.zones[HostOf(new.cfg, n).zone]
    BY <1>1, <1>2 DEF NewOK, Built
  <2>2. UNCHANGED <<new, NamesOf(new.cfg)>> /\ main' = "copy" /\ zones' = <<>>
    BY <1>1 DEF NamesOf
  <2>3. \A n : HostOf(new'.cfg, n) = HostOf(new.cfg, n)
    BY <2>2
  <2>4. \A id \in DOMAIN new.zones :
          /\ new.zones[id] \in DOMAIN inst' /\ inst'[new.zones[id]].id = id
          /\ inst'[new.zones[id]] = [id |-> id, capacity |-> new.cfg.zones[id].capacity]
    BY <1>4, <1>5
  <2>5. NamesOf(new'.cfg) = NamesOf(new.cfg)
    BY <2>2
  <2>6. \A id \in DOMAIN zones' : FALSE
    BY <2>2
  <2>7. QED  BY <2>1, <2>2, <2>3, <2>4, <2>5, <2>6 DEF NewOK, Built
<1>9. OneConfiguration'
  BY <1>1, <1>2 DEF OneConfiguration, LockOK, Locking
<1>10. QED  BY <1>6, <1>7, <1>8, <1>9 DEF Ordered, Installing

LEMMA CopyStep ==
    ASSUME Ordered, NEW id \in DOMAIN new.zones, CopyZone(id)
    PROVE  Ordered'
<1>1. /\ main = "copy" /\ main' = "copy" /\ locked
      /\ UNCHANGED <<cfg, hosts, locked, new, inst>>
      /\ zones' = [x \in DOMAIN zones \cup {id} |-> IF x = id THEN new.zones[id] ELSE zones[x]]
  BY DEF CopyZone, Ordered, Installing, LockOK, Locking
<1>2. InstOK /\ CfgOK /\ NewOK /\ LockOK
  BY DEF Ordered, Installing
<1>3. InstOK'
  BY <1>1, <1>2 DEF InstOK, NewOK, Built
<1>4. CfgOK' /\ LockOK'
  BY <1>1, <1>2 DEF CfgOK, LockOK, Building, Locking
<1>5. NewOK'
  BY <1>1, <1>2 DEF NewOK, Built, NamesOf, HostOf
<1>6. QED  BY <1>1, <1>3, <1>4, <1>5 DEF Ordered, Installing, OneConfiguration

LEMMA InstalledStep ==
    ASSUME Ordered, Installed
    PROVE  Ordered'
<1>1. /\ main = "copy" /\ main' = "loop" /\ locked' = FALSE
      /\ DOMAIN new.zones \subseteq DOMAIN zones
      /\ UNCHANGED <<cfg, hosts, zones, inst>>
  BY DEF Installed
<1>2. InstOK /\ CfgOK /\ NewOK /\ LockOK /\ new.cfg \in Configs
  BY <1>1 DEF Ordered, Installing, CfgOK, Building
<1>3. cfg = new.cfg /\ hosts = new.hosts /\ cfg \in Configs
  BY <1>1, <1>2 DEF LockOK, Locking
<1>4. /\ DOMAIN zones = DOMAIN cfg.zones /\ DOMAIN hosts = NamesOf(cfg)
      /\ \A id \in DOMAIN zones :
            inst[zones[id]] = [id |-> id, capacity |-> cfg.zones[id].capacity]
  BY <1>1, <1>2, <1>3 DEF NewOK, Built
<1>5. \A n \in DOMAIN hosts : hosts[n] = zones[HostOf(cfg, n).zone]
  <2> SUFFICES ASSUME NEW n \in DOMAIN hosts PROVE hosts[n] = zones[HostOf(cfg, n).zone]
    OBVIOUS
  <2>1. HostOf(cfg, n).zone \in DOMAIN zones
    BY <1>3, <1>4, HostHasAZone
  <2>2. hosts[n] = new.zones[HostOf(cfg, n).zone]
    BY <1>1, <1>2, <1>3 DEF NewOK, Built
  <2>3. QED  BY <1>1, <1>2, <2>1, <2>2 DEF NewOK
<1>6. OneConfiguration'
  BY <1>1, <1>4, <1>5 DEF OneConfiguration, NamesOf, HostOf
<1>7. QED  BY <1>1, <1>2, <1>3, <1>6
  DEF Ordered, Installing, InstOK, CfgOK, NewOK, LockOK, Building, Built, Locking

LEMMA OrderStays ==
    ASSUME Ordered, [Next]_vars
    PROVE  Ordered'
<1>1. CASE New
  BY <1>1, BetweenReloads DEF New, Building, Ordered, Installing, CfgOK
<1>2. CASE Setup
  <2>1. cfg \in Configs /\ new'.cfg = cfg /\ UNCHANGED <<hosts, zones, locked, inst, cfg>>
    BY <1>2 DEF Setup, Ordered, Installing, CfgOK, installed, NoBuild
  <2>2. QED  BY <1>2, <2>1, BetweenReloads DEF Setup, Building
<1>3. CASE Build
  BY <1>3, BuildStep
<1>4. CASE BuildFails
  BY <1>4, BuildFailsStep
<1>5. CASE Swap
  BY <1>5, SwapStep
<1>6. CASE Clear
  BY <1>6, ClearStep
<1>7. CASE Resize
  BY <1>7, ResizeStep
<1>8. CASE Installed
  BY <1>8, InstalledStep
<1>9. CASE \E id \in DOMAIN new.zones : CopyZone(id)
  BY <1>9, CopyStep
<1>10. CASE SetupFails \/ TakeSignal \/ Stop \/ Finished \/ Cleanup
  <2>1. cfg \in Configs /\ UNCHANGED <<hosts, zones, locked, inst, cfg>>
    BY <1>10 DEF SetupFails, TakeSignal, Stop, Finished, Cleanup, Ordered, Installing, CfgOK,
                 installed
  <2>2. QED  BY <1>10, <2>1, BetweenReloads DEF SetupFails, TakeSignal, Stop, Finished, Cleanup, Building
<1>11. CASE Reload
  <2>1. /\ cfg \in Configs /\ UNCHANGED <<hosts, zones, locked, inst, cfg>> /\ main = "reload"
        /\ main' = "loop" \/ (main' = "build" /\ new'.cfg \in Configs)
    BY <1>11 DEF Reload, Ordered, Installing, CfgOK, installed, NoBuild
  <2>2. QED  BY <2>1, BetweenReloads DEF Building
<1>12. CASE Serve \/ Drained \/ SendHup \/ SendTerm \/ UNCHANGED vars
  <2>1. UNCHANGED <<main, installed, new>>
    BY <1>12 DEF Serve, Drained, SendHup, SendTerm, vars
  <2>2. QED  BY <2>1, NothingInstalled
<1>13. ASSUME NEW c \in Conns, Client(c), UNCHANGED others
       PROVE  Ordered'
  BY <1>13, NothingInstalled DEF others
<1>14. ASSUME NEW c \in Conns, ReadZones(c)
       PROVE  Ordered'
  <2>1. main' = "exited" /\ UNCHANGED <<cfg, hosts, zones, locked, inst, new>>
    BY <1>14 DEF ReadZones, installed
  <2>2. QED  BY <2>1 DEF Ordered, Installing, OneConfiguration, InstOK, CfgOK, NewOK, LockOK,
                         Building, Built, Locking, NamesOf, HostOf
<1>15. QED
  BY <1>1, <1>2, <1>3, <1>4, <1>5, <1>6, <1>7, <1>8, <1>9, <1>10, <1>11, <1>12, <1>13, <1>14
  DEF Next, Main, others

-----------------------------------------------------------------------------
(* Connections *)

LEMMA ConnStep ==
    ASSUME Ordered, HeldOK, ConnTypes, WiredOK, NEW c \in Conns, Client(c), UNCHANGED others
    PROVE  HeldOK' /\ ConnTypes' /\ WiredOK'
<1> USE ConfigAssumption DEF Go, NoConn
<1>1. UNCHANGED <<main, locked, hosts, zones, new, gone>>
  BY DEF others, installed
<1>2. CASE Accept(c)
  <2>1. ConnTypes' /\ WiredOK'
    BY <1>2 DEF Accept, ConnTypes, WiredOK
  <2>2. HeldOK'
    BY <1>1, <1>2 DEF Accept, ConnTypes, HeldOK, Locking
  <2>3. QED  BY <2>1, <2>2
<1>3. CASE Lookup(c)
  <2>1. PICK n \in DOMAIN hosts : conn' = [conn EXCEPT ![c] =
                                     [conn[c] EXCEPT !.at = "located", !.held = hosts[n]]]
    BY <1>3 DEF Lookup
  <2>2. main # "exited" /\ ~locked /\ conn[c].at = "open" /\ UNCHANGED registry
    BY <1>3 DEF Lookup, Running
  <2>3. cfg \in Configs /\ hosts # <<>> /\ ~Locking
    <3>1. main # "start" /\ hosts # <<>>
      BY <2>1, <1>3 DEF Lookup, Running
    <3>2. QED  BY <2>2, <3>1 DEF Ordered, Installing, CfgOK, LockOK
  <2>4. hosts[n] \in Range(zones) /\ hosts[n] \in Nat
    <3>1. hosts[n] = zones[HostOf(cfg, n).zone] /\ HostOf(cfg, n).zone \in DOMAIN zones
      BY <2>1, <2>2, <2>3, HostHasAZone DEF Ordered, OneConfiguration
    <3>2. hosts[n] \in DOMAIN inst /\ inst \in Seq(Instances)
      BY <3>1 DEF Ordered, Installing, InstOK
    <3>3. QED  BY <3>1, <3>2 DEF Range
  <2>5. ConnTypes' /\ WiredOK'
    BY <2>1, <2>2, <2>4 DEF ConnTypes, WiredOK
  <2>6. HeldOK'
    BY <1>1, <2>1, <2>2, <2>3, <2>4 DEF ConnTypes, HeldOK, Locking
  <2>7. QED  BY <2>5, <2>6
<1>4. CASE Find(c)
  <2>1. ConnTypes' /\ WiredOK'
    <3>1. CASE registry = None
      <4>1. conn' = [conn EXCEPT ![c] = [conn[c] EXCEPT !.at = "open", !.held = None]]
            /\ registry' = registry /\ conn[c].at = "located"
        BY <1>4, <3>1 DEF Find, Go
      <4>2. ConnTypes'
        BY <4>1 DEF ConnTypes
      <4>3. WiredOK'
        BY <4>1, <3>1 DEF ConnTypes, WiredOK
      <4>4. QED  BY <4>2, <4>3
    <3>2. CASE registry # None
      <4>1. conn' = [conn EXCEPT ![c] = [conn[c] EXCEPT !.at = "serving", !.using = registry]]
            /\ registry' = registry /\ conn[c].at = "located"
        BY <1>4, <3>2 DEF Find, Go
      <4>2. registry \in Conns
        BY <3>2 DEF WiredOK
      <4>3. ConnTypes'
        BY <4>1, <4>2 DEF ConnTypes
      <4>4. WiredOK'
        BY <4>1, <4>2 DEF ConnTypes, WiredOK
      <4>5. QED  BY <4>3, <4>4
    <3>3. QED  BY <3>1, <3>2
  <2>2. HeldOK'
    BY <1>1, <1>4 DEF Find, ConnTypes, HeldOK, Locking
  <2>3. QED  BY <2>1, <2>2
<1>5. CASE Respond(c)
  <2>1. ConnTypes' /\ WiredOK'
    BY <1>5 DEF Respond, ConnTypes, WiredOK
  <2>2. HeldOK'
    BY <1>1, <1>5 DEF Respond, ConnTypes, HeldOK, Locking
  <2>3. QED  BY <2>1, <2>2
<1>6. CASE Reset(c)
  <2>1. ConnTypes' /\ WiredOK'
    BY <1>6 DEF Reset, ConnTypes, WiredOK
  <2>2. HeldOK'
    BY <1>1, <1>6 DEF Reset, ConnTypes, HeldOK, Locking
  <2>3. QED  BY <2>1, <2>2
<1>7. CASE Close(c)
  <2>1. ConnTypes' /\ WiredOK'
    BY <1>7 DEF Close, ConnTypes, WiredOK
  <2>2. HeldOK'
    BY <1>1, <1>7 DEF Close, ConnTypes, HeldOK, Locking
  <2>3. QED  BY <2>1, <2>2
<1>8. CASE Remove(c)
  <2>1. ConnTypes' /\ WiredOK'
    BY <1>8 DEF Remove, ConnTypes, WiredOK
  <2>2. HeldOK'
    BY <1>1, <1>8 DEF Remove, ConnTypes, HeldOK, Locking
  <2>3. QED  BY <2>1, <2>2
<1>9. QED  BY <1>2, <1>3, <1>4, <1>5, <1>6, <1>7, <1>8 DEF Client

\* The zones a request may hold, as they are installed or retired.
LEMMA HeldStays ==
    ASSUME Ordered, HeldOK, UNCHANGED conn, [Next]_vars
    PROVE  HeldOK'
<1> SUFFICES ASSUME NEW c \in Conns, conn[c].held # None
             PROVE  /\ ~locked' => conn[c].held \in Range(zones') \cup gone'
                    /\ Locking' => conn[c].held \in Range(new'.zones) \cup gone'
  BY DEF HeldOK
<1> DEFINE h == conn[c].held
<1>1. /\ ~locked => h \in Range(zones) \cup gone
      /\ Locking => h \in Range(new.zones) \cup gone
  BY DEF HeldOK
<1>2. /\ locked \in BOOLEAN
      /\ main # "exited" => (locked <=> Locking)
      /\ (locked /\ main # "exited" => Locking)
  BY DEF Ordered, Installing, LockOK
<1> HIDE DEF h
<1>3. CASE Swap
  <2>1. /\ main = "swap" /\ ~locked /\ UNCHANGED <<zones, new>> /\ locked'
        /\ gone' = gone \cup {zones[id] : id \in DOMAIN zones \ DOMAIN new.zones}
    BY <1>2, <1>3 DEF Swap, Locking
  <2>2. \A id \in DOMAIN zones \cap DOMAIN new.zones : zones[id] = new.zones[id]
    BY <2>1 DEF Ordered, Installing, NewOK
  <2>3. CASE h \in gone
    BY <2>1, <2>3 DEF h
  <2>4. CASE h \in Range(zones)
    <3>1. PICK id \in DOMAIN zones : h = zones[id]
      BY <2>4 DEF Range
    <3>2. h \in Range(new.zones) \cup gone'
      BY <2>1, <2>2, <3>1 DEF Range
    <3>3. QED  BY <2>1, <3>2 DEF h
  <2>5. QED  BY <1>1, <2>1, <2>3, <2>4
<1>4. CASE Clear \/ Resize \/ \E id \in DOMAIN new.zones : CopyZone(id)
  <2>1. UNCHANGED <<new, locked, gone>> /\ Locking
    BY <1>4 DEF Clear, Resize, CopyZone, Locking
  <2>2. main # "exited"
    BY <2>1 DEF Locking
  <2>3. QED  BY <1>1, <1>2, <2>1, <2>2 DEF h
<1>5. CASE Installed
  <2>1. /\ main = "copy" /\ main' = "loop" /\ DOMAIN new.zones \subseteq DOMAIN zones
        /\ UNCHANGED <<zones, gone>>
    BY <1>5 DEF Installed
  <2>2. \A id \in DOMAIN new.zones : new.zones[id] = zones[id]
    BY <2>1 DEF Ordered, Installing, NewOK
  <2>3. h \in Range(new.zones) => h \in Range(zones)
    BY <2>1, <2>2 DEF Range
  <2>4. QED  BY <1>1, <2>1, <2>3 DEF h, Locking
<1>6. CASE /\ UNCHANGED <<zones, gone, locked>>
           /\ ~Locking' \/ (UNCHANGED new /\ Locking)
  BY <1>1, <1>6 DEF h
<1>7. CASE \/ New \/ Setup \/ SetupFails \/ Build \/ BuildFails \/ TakeSignal \/ Reload
           \/ Stop \/ Finished \/ Cleanup
  BY <1>6, <1>7 DEF New, Setup, SetupFails, Build, BuildFails, TakeSignal, Reload, Stop, Finished,
                    Cleanup, Locking, installed
<1>8. CASE Serve \/ Drained \/ SendHup \/ SendTerm \/ UNCHANGED vars
           \/ \E d \in Conns : (Client(d) /\ UNCHANGED others) \/ ReadZones(d)
  BY <1>6, <1>8 DEF Serve, Drained, SendHup, SendTerm, vars, others, ReadZones, Locking, installed
<1>9. QED  BY <1>3, <1>4, <1>5, <1>7, <1>8 DEF Next, Main, others

LEMMA AppStays ==
    ASSUME AppInv, [Next]_vars
    PROVE  AppInv'
<1>1. Ordered /\ HeldOK /\ ConnTypes /\ WiredOK
  BY DEF AppInv, Ordered
<1>2. Ordered'
  BY <1>1, OrderStays
<1>3. CASE \E c \in Conns : Client(c) /\ UNCHANGED others
  BY <1>1, <1>2, <1>3, ConnStep DEF AppInv, Ordered
<1>4. CASE Drained
  <2>1. ConnTypes' /\ WiredOK'
    BY <1>1, <1>4, ConfigAssumption DEF Drained, NoConn, ConnTypes, WiredOK
  <2>2. HeldOK'
    BY <1>1, <1>4 DEF Drained, NoConn, HeldOK, ConnTypes, Locking, installed
  <2>3. QED  BY <1>2, <2>1, <2>2 DEF AppInv, Ordered
<1>5. CASE UNCHANGED clients
  <2>1. UNCHANGED <<conn, registry>>
    BY <1>5 DEF clients
  <2>2. HeldOK'
    BY <1>1, <2>1, HeldStays
  <2>3. QED  BY <1>1, <1>2, <2>1, <2>2 DEF AppInv, Ordered, ConnTypes, WiredOK
<1>6. Main \/ Serve \/ SendHup \/ SendTerm \/ UNCHANGED vars \/ (\E c \in Conns : ReadZones(c))
        => UNCHANGED clients
  BY DEF Main, New, Setup, SetupFails, Build, BuildFails, Swap, Clear, Resize, Installed,
         CopyZone, TakeSignal, Reload, Stop, Finished, Cleanup, Serve, SendHup, SendTerm, ReadZones, vars
<1>7. QED  BY <1>3, <1>4, <1>5, <1>6 DEF Next, others

LEMMA AppStarts == Init => AppInv
<1> SUFFICES ASSUME Init PROVE AppInv
  OBVIOUS
<1>1. InstOK
  BY DEF Init, InstOK
<1>2. CfgOK /\ NewOK /\ LockOK /\ OneConfiguration
  BY DEF Init, CfgOK, NewOK, LockOK, OneConfiguration, Building, Built, Locking
<1>3. HeldOK /\ ConnTypes /\ WiredOK
  BY DEF Init, HeldOK, ConnTypes, WiredOK, NoConn
<1>4. QED  BY <1>1, <1>2, <1>3 DEF AppInv, Installing

LEMMA AppHolds == Spec => []AppInv
<1>1. AppInv /\ [Next]_vars => AppInv'
  BY AppStays
<1>2. QED  BY AppStarts, <1>1, PTL DEF Spec

-----------------------------------------------------------------------------

\* Whatever the configurations and however many reloads fail half way, hosts and zones
\* that are installed are those of one configuration, at its capacities (init.go).
THEOREM AppOneConfiguration == Spec => []OneConfiguration
<1>1. AppInv => OneConfiguration
  BY DEF AppInv
<1>2. QED  BY <1>1, AppHolds, PTL

\* A request that is looked up before a reload and one after it are on the same
\* instance of a zone, unless a configuration without it was installed (init.go).
THEOREM AppSameZone == Spec => []SameZoneAcrossReloads
<1>1. AppInv => SameZoneAcrossReloads
  BY DEF AppInv, HeldOK, SameZoneAcrossReloads
<1>2. QED  BY <1>1, AppHolds, PTL

\* For any number of connections that reuse one address, a request of a client that is
\* still there is given its own connection (connections.go).
THEOREM AppFindsItsConnection == Spec => []FindsItsConnection
<1>1. AppInv => FindsItsConnection
  BY DEF AppInv, WiredOK, FindsItsConnection
<1>2. QED  BY <1>1, AppHolds, PTL
=============================================================================
