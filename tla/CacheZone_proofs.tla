--------------------------- MODULE CacheZone_proofs ---------------------------
(***************************************************************************)
(* A cache zone for any number of objects, parts and goroutines.           *)
(***************************************************************************)
EXTENDS CacheZone, FiniteSetTheorems, SequenceTheorems, TLAPS

-----------------------------------------------------------------------------
(* What the goroutines know, and what the list holds *)

ReaderType == [at : {"idle", "respond", "promote"}, obj : Objects \cup {None}, part : Parts]

RemoverType == [at : {"idle", "list", "remove", "discard"}, obj : Objects \cup {None},
                parts : SUBSET Indexes, purge : BOOLEAN]

LoaderType == [at : {"done", "next", "parts", "discard", "expiry", "event", "add"},
               left : SUBSET Objects, obj : Objects \cup {None},
               stale : BOOLEAN, parts : SUBSET Indexes]

ProxyType == [at : {"idle", "discard", "hook", "expiry", "event", "keep", "save", "add"},
              obj : Objects \cup {None}, method : {"GET", "HEAD"}, todo : Seq(Parts)]

DiskOK == meta \in [Objects -> {"none", "fresh", "stale"}] /\ files \subseteq Indexes

ListOK == listed \subseteq Indexes /\ IsFiniteSet(listed) /\ Cardinality(listed) <= Capacity

SchedulerOK ==
  timers \in [Objects -> 0 .. MaxTimers] /\ events \subseteq Objects /\ lost \subseteq Objects

ProxiesOK ==
  /\ proxy \in [Proxies -> ProxyType]
  /\ \A p \in Proxies : /\ proxy[p].at # "idle" => proxy[p].todo # <<>> /\ proxy[p].obj \in Objects
                        /\ proxy[p].method \in Methods \cup {"GET"}
ReadersOK ==
  /\ reader \in [Readers -> ReaderType]
  /\ \A r \in Readers : reader[r].at # "idle" => reader[r].obj \in Objects
RemoversOK ==
  /\ remover \in [Removers -> RemoverType]
  /\ \A m \in Removers : /\ remover[m].at # "idle" => remover[m].obj \in Objects
                         /\ \A i \in remover[m].parts : i[1] = remover[m].obj
                         /\ ~Purge => ~remover[m].purge
LoaderOK ==
  /\ loader \in LoaderType
  /\ loader.at \in {"parts", "discard", "expiry", "event"} => loader.obj \in Objects
  /\ restarts = 0 => loader.at = "done"

ZoneTypes ==
  /\ DiskOK /\ ListOK /\ ProxiesOK /\ ReadersOK /\ RemoversOK /\ LoaderOK
  /\ SchedulerOK /\ restarts \in 0 .. MaxRestarts

-----------------------------------------------------------------------------
(* The list *)

\* AddObject lists the part, keeps the list within the capacity, and takes at most the
\* file of a part that it drops.
LEMMA AddObjectIs ==
    ASSUME ListOK, files \subseteq Indexes, NEW i \in Indexes, AddObject(i)
    PROVE  /\ ListOK' /\ i \in listed' /\ files' \subseteq files
           /\ \A j \in files' : j \in listed => j \in listed'
<1> USE CacheZoneAssumption
<1>1. CASE i \in listed /\ UNCHANGED <<listed, files>>
  BY <1>1 DEF ListOK
<1>2. CASE i \notin listed /\ ~Full /\ listed' = listed \cup {i} /\ UNCHANGED files
  <2>1. IsFiniteSet(listed') /\ Cardinality(listed') = Cardinality(listed) + 1
    BY <1>2, FS_AddElement DEF ListOK
  <2>2. Cardinality(listed) \in Nat
    BY FS_CardinalityType DEF ListOK
  <2>3. QED
    BY <1>2, <2>1, <2>2 DEF ListOK, Full
<1>3. ASSUME NEW victim \in listed, i \notin listed,
             listed' = (listed \ {victim}) \cup {i}, files' = files \ {victim}
      PROVE  /\ ListOK' /\ i \in listed' /\ files' \subseteq files
             /\ \A j \in files' : j \in listed => j \in listed'
  <2>1. IsFiniteSet(listed \ {victim}) /\ Cardinality(listed \ {victim}) = Cardinality(listed) - 1
    BY FS_RemoveElement DEF ListOK
  <2>2. IsFiniteSet(listed') /\ Cardinality(listed') = Cardinality(listed \ {victim}) + 1
    BY <1>3, <2>1, FS_AddElement
  <2>3. Cardinality(listed) \in Nat
    BY FS_CardinalityType DEF ListOK
  <2>4. QED
    BY <1>3, <2>1, <2>2, <2>3 DEF ListOK
<1>4. QED
  BY <1>1, <1>2, <1>3 DEF AddObject

LEMMA CurrentIs ==
    ASSUME ProxiesOK, NEW p \in Proxies, proxy[p].at # "idle"
    PROVE  Current(p) \in Indexes /\ Current(p)[1] = proxy[p].obj
<1>1. proxy[p].obj \in Objects /\ proxy[p].todo \in Seq(Parts) /\ proxy[p].todo # <<>>
  BY DEF ProxiesOK, ProxyType
<1>2. Head(proxy[p].todo) \in Parts
  BY <1>1
<1>3. QED  BY <1>1, <1>2 DEF Current, Indexes

\* A discard leaves the other objects alone.
LEMMA DiscardIs ==
    ASSUME DiskOK, NEW o \in Objects, Discard(o)
    PROVE  /\ DiskOK' /\ meta'[o] = "none" /\ files' \subseteq files
           /\ \A x \in Objects : x # o => meta'[x] = meta[x]
           /\ \A i \in files' : i[1] # o
BY DEF DiskOK, Discard, FilesOf

\* The first send adds an entry of its object, and takes nothing from the others.
LEMMA PushIs ==
    ASSUME SchedulerOK, NEW o \in Objects, Push(o)
    PROVE  /\ SchedulerOK' /\ timers'[o] > 0 /\ UNCHANGED events /\ lost' = lost \ {o}
           /\ \A x \in Objects : timers'[x] >= timers[x]
<1>1. timers' = [timers EXCEPT ![o] = timers[o] + 1] /\ timers[o] < MaxTimers
      /\ UNCHANGED events /\ lost' = lost \ {o}
  BY DEF Push, SchedulerOK
<1>2. \A x \in Objects : timers[x] \in Nat /\ timers[x] <= MaxTimers
  BY CacheZoneAssumption DEF SchedulerOK
<1>3. timers'[o] = timers[o] + 1 /\ \A x \in Objects : x # o => timers'[x] = timers[x]
  BY <1>1 DEF SchedulerOK
<1>4. timers' \in [Objects -> 0 .. MaxTimers]
  BY <1>1, <1>2, CacheZoneAssumption DEF SchedulerOK
<1>5. QED
  BY <1>1, <1>2, <1>3, <1>4 DEF SchedulerOK

\* A delivery takes one entry.
LEMMA TakesOne ==
    ASSUME SchedulerOK, NEW o \in Objects, timers[o] > 0,
           timers' = [timers EXCEPT ![o] = @ - 1]
    PROVE  /\ timers' \in [Objects -> 0 .. MaxTimers] /\ timers'[o] = timers[o] - 1
           /\ \A x \in Objects : x # o => timers'[x] = timers[x]
<1>1. timers[o] \in 0 .. MaxTimers
  BY DEF SchedulerOK
<1>2. timers[o] - 1 \in 0 .. MaxTimers
  BY <1>1, CacheZoneAssumption
<1>3. QED  BY <1>2 DEF SchedulerOK

-----------------------------------------------------------------------------
(* Types *)

LEMMA ProxyKeepsTypes ==
    ASSUME ZoneTypes, NEW p \in Proxies, ProxyStep(p)
    PROVE  ZoneTypes'
<1>1. UNCHANGED <<reader, remover, loader, restarts>> /\ RemoversOK' /\ ReadersOK' /\ LoaderOK'
  BY DEF ProxyStep, DiscardUnusable, SaveMetadata, PushExpiry, SetCallback, ShouldKeep, SavePart, AddPart, Abort,
         ZoneTypes, RemoversOK, ReadersOK, LoaderOK
<1>2. proxy[p].at # "idle" /\ proxy[p] \in ProxyType /\ proxy[p].obj \in Objects
      /\ proxy[p].todo # <<>> /\ proxy[p].method \in Methods \cup {"GET"}
  BY DEF ProxyStep, DiscardUnusable, SaveMetadata, PushExpiry, SetCallback, ShouldKeep, SavePart, AddPart, Abort,
         ZoneTypes, ProxiesOK
<1>3. Current(p) \in Indexes
  BY <1>2, CurrentIs DEF ZoneTypes
<1>4. IdleProxy.at = "idle" /\ IdleProxy \in ProxyType /\ IdleProxy.method = "GET"
  BY DEF IdleProxy, ProxyType
<1>5. ASSUME NEW r, ToProxy(p, r), r \in ProxyType, r.method \in Methods \cup {"GET"},
             r.at # "idle" => r.todo # <<>> /\ r.obj \in Objects
      PROVE  ProxiesOK'
  BY <1>5 DEF ToProxy, ZoneTypes, ProxiesOK
<1>6. ASSUME NEW a \in {"hook", "expiry", "event", "keep", "save", "add"},
             ToProxy(p, [proxy[p] EXCEPT !.at = a])
      PROVE  ProxiesOK'
  <2> DEFINE r == [proxy[p] EXCEPT !.at = a]
  <2>1. r \in ProxyType /\ r.todo = proxy[p].todo /\ r.obj = proxy[p].obj
        /\ r.method = proxy[p].method
    BY <1>2 DEF ProxyType
  <2>2. ToProxy(p, r)
    BY <1>6
  <2> HIDE DEF r
  <2>3. QED  BY <2>1, <2>2, <1>2, <1>5
<1>7. CASE DiscardUnusable(p)
  <2>1. ProxiesOK'
    BY <1>7, <1>6 DEF DiscardUnusable
  <2>2. DiskOK'
    BY <1>7, <1>2, DiscardIs DEF DiscardUnusable, ZoneTypes
  <2>3. QED  BY <1>1, <1>7, <2>1, <2>2 DEF DiscardUnusable, ZoneTypes, ListOK, scheduler, SchedulerOK
<1>8. CASE SaveMetadata(p)
  <2>1. ProxiesOK'
    BY <1>8, <1>4, <1>5, <1>6 DEF SaveMetadata
  <2>2. DiskOK'
    BY <1>8 DEF SaveMetadata, ZoneTypes, DiskOK
  <2>3. QED  BY <1>1, <1>8, <2>1, <2>2 DEF SaveMetadata, ZoneTypes, ListOK, scheduler, SchedulerOK
<1>9. CASE PushExpiry(p)
  <2>1. ProxiesOK'
    BY <1>9, <1>6 DEF PushExpiry
  <2>2. SchedulerOK'
    BY <1>2, <1>9, PushIs DEF PushExpiry, ZoneTypes
  <2>3. QED
    BY <1>1, <1>9, <2>1, <2>2 DEF PushExpiry, ZoneTypes, ListOK, disk, DiskOK
<1>15. CASE SetCallback(p)
  <2>1. ProxiesOK'
    BY <1>15, <1>6 DEF SetCallback
  <2>2. QED
    BY <1>1, <1>2, <1>15, <2>1
    DEF SetCallback, Scheduled, ZoneTypes, ListOK, disk, DiskOK, SchedulerOK
<1>10. CASE ShouldKeep(p)
  <2>1. ProxiesOK'
    BY <1>10, <1>6 DEF ShouldKeep
  <2>2. ListOK' /\ files' \subseteq files
    BY <1>3, <1>10, AddObjectIs DEF ShouldKeep, ZoneTypes, DiskOK
  <2>3. QED
    BY <1>1, <1>10, <2>1, <2>2 DEF ShouldKeep, ZoneTypes, DiskOK, scheduler, SchedulerOK
<1>11. CASE SavePart(p)
  <2>1. ProxiesOK'
    BY <1>11, <1>6 DEF SavePart
  <2>2. QED
    BY <1>1, <1>3, <1>11, <2>1 DEF SavePart, ZoneTypes, DiskOK, ListOK, scheduler, SchedulerOK
<1>12. CASE AddPart(p)
  <2>1. ProxiesOK'
    <3>1. CASE Len(proxy[p].todo) = 1
      BY <1>12, <3>1, <1>4, <1>5 DEF AddPart
    <3>2. CASE Len(proxy[p].todo) # 1
      <4> DEFINE r == [proxy[p] EXCEPT !.at = "keep", !.todo = Tail(@)]
      <4>1. proxy[p].todo \in Seq(Parts)
        BY <1>2 DEF ProxyType
      <4>2. Tail(proxy[p].todo) \in Seq(Parts) /\ Tail(proxy[p].todo) # <<>>
        <5>1. Len(proxy[p].todo) \in Nat /\ Len(proxy[p].todo) # 0
          BY <4>1, <1>2, EmptySeq
        <5>2. Tail(proxy[p].todo) \in Seq(Parts)
              /\ Len(Tail(proxy[p].todo)) = Len(proxy[p].todo) - 1
          BY <4>1, <1>2, HeadTailProperties
        <5>3. Len(Tail(proxy[p].todo)) # 0
          BY <5>1, <5>2, <3>2
        <5>4. Len(<<>>) = 0
          OBVIOUS
        <5>5. Tail(proxy[p].todo) # <<>>
          BY <5>3, <5>4, Zenon
        <5>6. QED  BY <5>2, <5>5
      <4>3. r \in ProxyType /\ r.todo # <<>> /\ r.obj \in Objects
            /\ r.method \in Methods \cup {"GET"}
        BY <1>2, <4>2 DEF ProxyType
      <4>4. ToProxy(p, r)
        BY <1>12, <3>2 DEF AddPart
      <4> HIDE DEF r
      <4>5. QED  BY <4>3, <4>4, <1>5
    <3>3. QED  BY <3>1, <3>2
  <2>2. ListOK' /\ files' \subseteq files
    BY <1>3, <1>12, AddObjectIs DEF AddPart, AddSaved, ZoneTypes, DiskOK
  <2>3. QED
    BY <1>1, <1>12, <2>1, <2>2 DEF AddPart, ZoneTypes, DiskOK, scheduler, SchedulerOK
<1>13. CASE Abort(p)
  <2>1. ProxiesOK'
    BY <1>13, <1>4, <1>5 DEF Abort
  <2>2. QED
    BY <1>1, <1>13, <2>1 DEF Abort, ZoneTypes, disk, DiskOK, ListOK, scheduler, SchedulerOK
<1>14. QED
  BY <1>7, <1>8, <1>9, <1>10, <1>11, <1>12, <1>13, <1>15 DEF ProxyStep

LEMMA RequestKeepsTypes ==
    ASSUME ZoneTypes, NEW p \in Proxies, NEW o \in Objects, NEW first \in Parts,
           NEW last \in Parts, NEW method \in Methods, Request(p, o, first, last, method)
    PROVE  ZoneTypes'
<1> DEFINE todo == [k \in 1 .. last - first + 1 |-> first + k - 1]
<1>1. todo \in Seq(Parts) /\ todo # <<>>
  <2>1. first <= last /\ first \in Nat /\ last \in Nat /\ last <= LastPart /\ LastPart \in Nat
    BY CacheZoneAssumption DEF Request, Parts
  <2>2. \A k \in 1 .. last - first + 1 : first + k - 1 \in Parts
    BY <2>1 DEF Parts
  <2>3. todo \in Seq(Parts) /\ Len(todo) = last - first + 1
    BY <2>1, <2>2
  <2>4. QED  BY <2>1, <2>3
<1>2. method \in {"GET", "HEAD"}
  BY CacheZoneAssumption
<1> HIDE DEF todo
<1>3. PICK at \in {"hook", "discard"} :
         proxy' = [proxy EXCEPT ![p] = [at |-> at, obj |-> o, method |-> method, todo |-> todo]]
  BY DEF Request, ToProxy, todo, ZoneTypes, DiskOK
<1> DEFINE r == [at |-> at, obj |-> o, method |-> method, todo |-> todo]
<1>4. r \in ProxyType /\ r.obj \in Objects /\ r.todo # <<>> /\ r.method \in Methods
      /\ proxy' = [proxy EXCEPT ![p] = r]
  BY <1>1, <1>2, <1>3 DEF ProxyType
<1> HIDE DEF r
<1>5. ProxiesOK'
  BY <1>4 DEF ZoneTypes, ProxiesOK
<1>6. QED
  BY <1>5 DEF Request, ZoneTypes, disk, scheduler, SchedulerOK, DiskOK, ListOK, RemoversOK,
              ReadersOK, LoaderOK

LEMMA ReaderKeepsTypes ==
    ASSUME ZoneTypes, NEW r \in Readers,
           \/ \E o \in Objects : StartReading(r, o)
           \/ \E part \in Parts : GetPart(r, part)
           \/ PromoteObject(r) \/ EndReading(r)
    PROVE  ZoneTypes'
<1>1. UNCHANGED <<meta, proxy, remover, loader, restarts>>
      /\ ProxiesOK' /\ RemoversOK' /\ LoaderOK' /\ SchedulerOK'
  BY DEF StartReading, GetPart, PromoteObject, EndReading, disk, scheduler, ZoneTypes,
         ProxiesOK, RemoversOK, LoaderOK, SchedulerOK
<1>2. ReadersOK'
  <2>1. 0 \in Parts
    BY CacheZoneAssumption DEF Parts
  <2>2. reader \in [Readers -> ReaderType]
        /\ \A q \in Readers : reader[q].at # "idle" => reader[q].obj \in Objects
    BY DEF ZoneTypes, ReadersOK
  <2>3. ASSUME NEW x \in ReaderType, reader' = [reader EXCEPT ![r] = x],
               x.at # "idle" => x.obj \in Objects
        PROVE  ReadersOK'
    BY <2>2, <2>3 DEF ReadersOK
  <2>4. CASE \E o \in Objects : StartReading(r, o)
    <3>1. PICK o \in Objects : StartReading(r, o)
      BY <2>4
    <3>2. [at |-> "respond", obj |-> o, part |-> 0] \in ReaderType
      BY <2>1 DEF ReaderType
    <3>3. QED  BY <3>1, <3>2, <2>3 DEF StartReading
  <2>5. CASE \E part \in Parts : GetPart(r, part)
    <3>1. PICK part \in Parts : GetPart(r, part)
      BY <2>5
    <3>2. [reader[r] EXCEPT !.at = "promote", !.part = part] \in ReaderType
          /\ [reader[r] EXCEPT !.at = "promote", !.part = part].obj = reader[r].obj
          /\ reader[r].obj \in Objects
      BY <3>1, <2>2 DEF ReaderType, GetPart
    <3>3. reader' = [reader EXCEPT ![r] = [reader[r] EXCEPT !.at = "promote", !.part = part]]
      BY <3>1, <2>2 DEF GetPart, ReaderType
    <3>4. QED  BY <3>2, <3>3, <2>3
  <2>6. CASE PromoteObject(r)
    <3>1. [reader[r] EXCEPT !.at = "respond"] \in ReaderType
          /\ [reader[r] EXCEPT !.at = "respond"].obj = reader[r].obj
          /\ reader[r].obj \in Objects
      BY <2>6, <2>2 DEF ReaderType, PromoteObject
    <3>2. reader' = [reader EXCEPT ![r] = [reader[r] EXCEPT !.at = "respond"]]
      BY <2>6, <2>2 DEF PromoteObject, ReaderType
    <3>3. QED  BY <3>1, <3>2, <2>3
  <2>7. CASE EndReading(r)
    <3>1. IdleReader \in ReaderType /\ IdleReader.at = "idle"
      BY <2>1 DEF ReaderType, IdleReader
    <3>2. QED  BY <2>7, <3>1, <2>3 DEF EndReading
  <2>8. QED  BY <2>4, <2>5, <2>6, <2>7
<1>3. ListOK' /\ files' \subseteq files
  <2>1. CASE PromoteObject(r)
    <3>1. <<reader[r].obj, reader[r].part>> \in Indexes
      BY <2>1 DEF PromoteObject, ZoneTypes, ReadersOK, ReaderType, Indexes
    <3>2. QED
      BY <2>1, <3>1, AddObjectIs DEF PromoteObject, ZoneTypes, DiskOK
  <2>2. CASE ~PromoteObject(r)
    BY <2>2 DEF StartReading, GetPart, EndReading, disk, ZoneTypes, ListOK
  <2>3. QED  BY <2>1, <2>2
<1>4. QED
  BY <1>1, <1>2, <1>3 DEF ZoneTypes, DiskOK

LEMMA RemoverKeepsTypes ==
    ASSUME ZoneTypes, NEW m \in Removers,
           \/ \E o \in Objects : Expire(m, o) \/ StartPurge(m, o)
           \/ RemoverStep(m)
    PROVE  ZoneTypes'
<1>1. UNCHANGED <<proxy, reader, loader, restarts>> /\ ProxiesOK' /\ ReadersOK' /\ LoaderOK'
  BY DEF Expire, StartPurge, RemoverStep, ListParts, RemoveParts, DiscardObject, ZoneTypes,
         ProxiesOK, ReadersOK, LoaderOK
<1>6. SchedulerOK'
  <2>1. CASE \E o \in Objects : Expire(m, o)
    BY <2>1, TakesOne DEF Expire, ZoneTypes, SchedulerOK
  <2>2. CASE ~\E o \in Objects : Expire(m, o)
    BY <2>2 DEF StartPurge, RemoverStep, ListParts, RemoveParts, DiscardObject, scheduler,
                ZoneTypes, SchedulerOK
  <2>3. QED  BY <2>1, <2>2
<1>2. RemoversOK'
  <2>1. IdleRemover \in RemoverType /\ IdleRemover.at = "idle" /\ IdleRemover.parts = {}
        /\ IdleRemover.purge = FALSE
    BY DEF IdleRemover, RemoverType
  <2>2. ASSUME NEW x \in RemoverType, ToRemover(m, x),
               x.at # "idle" => x.obj \in Objects, \A i \in x.parts : i[1] = x.obj,
               ~Purge => ~x.purge
        PROVE  RemoversOK'
    BY <2>2 DEF ToRemover, ZoneTypes, RemoversOK
  <2>3. remover[m] \in RemoverType /\ (remover[m].at # "idle" => remover[m].obj \in Objects)
        /\ (\A i \in remover[m].parts : i[1] = remover[m].obj) /\ (~Purge => ~remover[m].purge)
    BY DEF ZoneTypes, RemoversOK
  <2>4. \A o : FilesOf(o) \subseteq Indexes /\ \A i \in FilesOf(o) : i[1] = o
    BY DEF FilesOf, ZoneTypes, DiskOK
  <2>5. CASE \E o \in Objects : Expire(m, o)
    <3>1. PICK o \in Objects : Expire(m, o)
      BY <2>5
    <3> DEFINE x == [IdleRemover EXCEPT !.at = "list", !.obj = o]
    <3>2. ToRemover(m, x)
      BY <3>1 DEF Expire
    <3>3. x \in RemoverType /\ x.obj = o /\ x.parts = {} /\ x.purge = FALSE
      BY <2>1 DEF IdleRemover, RemoverType
    <3> HIDE DEF x
    <3>4. QED  BY <3>2, <3>3, <2>2
  <2>6. CASE \E o \in Objects : StartPurge(m, o)
    <3>1. PICK o \in Objects : StartPurge(m, o)
      BY <2>6
    <3> DEFINE x == [IdleRemover EXCEPT !.at = "list", !.obj = o, !.purge = TRUE]
    <3>2. ToRemover(m, x) /\ Purge
      BY <3>1 DEF StartPurge
    <3>3. x \in RemoverType /\ x.obj = o /\ x.parts = {}
      BY <2>1 DEF IdleRemover, RemoverType
    <3> HIDE DEF x
    <3>4. QED  BY <3>2, <3>3, <2>2
  <2>7. CASE ListParts(m)
    <3>1. CASE remover[m].purge /\ FilesOf(remover[m].obj) = {}
      BY <2>7, <3>1, <2>1, <2>2 DEF ListParts
    <3>2. CASE ~(remover[m].purge /\ FilesOf(remover[m].obj) = {})
      <4> DEFINE x == [remover[m] EXCEPT
                         !.at = IF remover[m].purge THEN "discard" ELSE "remove",
                         !.parts = FilesOf(remover[m].obj)]
      <4>1. ToRemover(m, x) /\ remover[m].at = "list"
        BY <2>7, <3>2 DEF ListParts
      <4>2. x \in RemoverType /\ x.obj = remover[m].obj /\ x.parts = FilesOf(remover[m].obj)
            /\ x.purge = remover[m].purge
        BY <2>3, <2>4 DEF RemoverType
      <4> HIDE DEF x
      <4>3. QED  BY <4>1, <4>2, <2>2, <2>3, <2>4
    <3>3. QED  BY <3>1, <3>2
  <2>8. ASSUME NEW a \in {"remove", "discard"}, remover[m].at # "idle",
               ToRemover(m, [remover[m] EXCEPT !.at = a])
        PROVE  RemoversOK'
    <3> DEFINE x == [remover[m] EXCEPT !.at = a]
    <3>1. x \in RemoverType /\ x.obj = remover[m].obj /\ x.parts = remover[m].parts
          /\ x.purge = remover[m].purge
      BY <2>3 DEF RemoverType
    <3>2. ToRemover(m, x)
      BY <2>8
    <3> HIDE DEF x
    <3>3. QED  BY <3>1, <3>2, <2>2, <2>3, <2>8
  <2>9. CASE RemoveParts(m) \/ DiscardObject(m)
    BY <2>9, <2>1, <2>2, <2>8 DEF RemoveParts, DiscardObject
  <2>10. QED  BY <2>5, <2>6, <2>7, <2>9 DEF RemoverStep
<1>3. DiskOK'
  <2>1. CASE DiscardObject(m)
    BY <2>1, DiscardIs DEF DiscardObject, ZoneTypes, RemoversOK
  <2>2. CASE ~DiscardObject(m)
    BY <2>2 DEF Expire, StartPurge, RemoverStep, ListParts, RemoveParts, disk, ZoneTypes, DiskOK
  <2>3. QED  BY <2>1, <2>2
<1>4. ListOK'
  <2>1. CASE RemoveParts(m)
    <3>1. listed' = listed \ remover[m].parts
      BY <2>1 DEF RemoveParts
    <3>2. IsFiniteSet(listed') /\ Cardinality(listed') <= Cardinality(listed)
          /\ Cardinality(listed) \in Nat /\ Cardinality(listed') \in Nat
      BY <3>1, FS_Subset, FS_CardinalityType DEF ZoneTypes, ListOK
    <3>3. QED
      BY <3>1, <3>2, CacheZoneAssumption DEF ZoneTypes, ListOK
  <2>2. CASE ~RemoveParts(m)
    BY <2>2 DEF Expire, StartPurge, RemoverStep, ListParts, DiscardObject, ZoneTypes, ListOK
  <2>3. QED  BY <2>1, <2>2
<1>5. QED
  BY <1>1, <1>2, <1>3, <1>4, <1>6 DEF ZoneTypes

\* An entry with no callback is gone, and nothing else.
LEMMA DropKeepsTypes ==
    ASSUME ZoneTypes, NEW o \in Objects, DropExpiry(o)
    PROVE  ZoneTypes'
<1>1. SchedulerOK'
  BY TakesOne DEF DropExpiry, ZoneTypes, SchedulerOK
<1>2. QED
  BY <1>1 DEF DropExpiry, disk, ZoneTypes, DiskOK, ListOK, ProxiesOK, ReadersOK, RemoversOK,
              LoaderOK

\* The reload runs after a restart only.
LEMMA LoaderKeepsTypes ==
    ASSUME ZoneTypes, LoaderStep
    PROVE  ZoneTypes'
<1>1. UNCHANGED <<proxy, reader, remover, restarts>> /\ ProxiesOK' /\ ReadersOK' /\ RemoversOK'
  BY DEF LoaderStep, LoadObject, LoadParts, DiscardLoaded, PushLoaded, SetLoaded, AddLoaded,
         EndOfObject, EndOfIterate, ZoneTypes, ProxiesOK, ReadersOK, RemoversOK
<1>2. loader \in LoaderType /\ restarts # 0
      /\ (loader.at \in {"parts", "discard", "expiry", "event"} => loader.obj \in Objects)
  BY DEF LoaderStep, LoadObject, LoadParts, DiscardLoaded, PushLoaded, SetLoaded, AddLoaded,
         EndOfObject, EndOfIterate, ZoneTypes, LoaderOK
<1>3. \A o : FilesOf(o) \subseteq Indexes
  BY DEF FilesOf, ZoneTypes, DiskOK
<1>4. LoaderOK'
  <2>1. CASE \E o \in Objects : LoadObject(o)
    <3>1. PICK o \in Objects : LoadObject(o)
      BY <2>1
    <3>2. CASE meta[o] = "none"
      BY <3>1, <3>2, <1>1, <1>2 DEF LoadObject, LoaderOK, LoaderType
    <3>3. CASE meta[o] # "none"
      <4> DEFINE stale == meta[o] = "stale"
      <4>1. stale \in BOOLEAN
        OBVIOUS
      <4>2. loader' = [loader EXCEPT !.left = @ \ {o}, !.at = "parts", !.obj = o, !.stale = stale]
        BY <3>1, <3>3 DEF LoadObject
      <4> HIDE DEF stale
      <4>3. loader' \in LoaderType /\ loader'.obj = o
        BY <4>1, <4>2, <1>2 DEF LoaderType
      <4>4. QED  BY <4>3, <1>1, <1>2 DEF LoaderOK
    <3>4. QED  BY <3>2, <3>3
  <2>2. CASE LoadParts
    BY <2>2, <1>1, <1>2, <1>3 DEF LoadParts, LoaderOK, LoaderType
  <2>3. CASE DiscardLoaded \/ PushLoaded \/ SetLoaded \/ EndOfObject
    BY <2>3, <1>1, <1>2
    DEF DiscardLoaded, PushLoaded, SetLoaded, EndOfObject, LoaderOK, LoaderType
  <2>4. CASE \E i \in Indexes : AddLoaded(i)
    BY <2>4, <1>1, <1>2 DEF AddLoaded, LoaderOK, LoaderType
  <2>5. CASE EndOfIterate
    BY <2>5, <1>1, <1>2 DEF EndOfIterate, DoneLoader, LoaderOK, LoaderType
  <2>6. QED  BY <2>1, <2>2, <2>3, <2>4, <2>5 DEF LoaderStep
<1>5. DiskOK' /\ ListOK' /\ SchedulerOK'
  <2>1. CASE DiscardLoaded
    BY <2>1, <1>2, DiscardIs DEF DiscardLoaded, ZoneTypes, ListOK, scheduler, SchedulerOK
  <2>2. CASE \E i \in Indexes : AddLoaded(i)
    <3>1. PICK i \in Indexes : AddLoaded(i)
      BY <2>2
    <3>2. ListOK' /\ files' \subseteq files
      BY <3>1, AddObjectIs DEF AddLoaded, ZoneTypes, DiskOK
    <3>3. QED
      BY <3>1, <3>2 DEF AddLoaded, ZoneTypes, DiskOK, scheduler, SchedulerOK
  <2>3. CASE PushLoaded
    BY <2>3, <1>2, PushIs DEF PushLoaded, ZoneTypes, disk, DiskOK, ListOK
  <2>6. CASE SetLoaded
    BY <2>6, <1>2 DEF SetLoaded, ScheduledLoaded, ZoneTypes, disk, DiskOK, ListOK, SchedulerOK
  <2>4. CASE (\E o \in Objects : LoadObject(o)) \/ LoadParts \/ EndOfObject \/ EndOfIterate
    BY <2>4 DEF LoadObject, LoadParts, EndOfObject, EndOfIterate, ZoneTypes, disk, DiskOK,
                ListOK, scheduler, SchedulerOK
  <2>5. QED  BY <2>1, <2>2, <2>3, <2>4, <2>6 DEF LoaderStep
<1>6. QED
  BY <1>1, <1>4, <1>5 DEF ZoneTypes

LEMMA RestartKeepsTypes ==
    ASSUME ZoneTypes, Restart
    PROVE  ZoneTypes'
<1> USE CacheZoneAssumption
<1>1. 0 \in Parts
  BY DEF Parts
<1>2. ProxiesOK' /\ ReadersOK'
  BY <1>1 DEF Restart, ProxiesOK, ReadersOK, ProxyType, ReaderType, IdleProxy, IdleReader
<1>3. RemoversOK'
  BY DEF Restart, RemoversOK, RemoverType, IdleRemover
<1>4. LoaderOK'
  <2>1. loader'.at = "next" /\ loader' \in LoaderType
    BY DEF Restart, LoaderType, DoneLoader
  <2>2. restarts' # 0
    BY DEF Restart, ZoneTypes
  <2>3. QED  BY <2>1, <2>2 DEF LoaderOK
<1>5. ListOK' /\ SchedulerOK'
  BY FS_EmptySet DEF Restart, ListOK, SchedulerOK
<1>6. QED
  BY <1>2, <1>3, <1>4, <1>5 DEF Restart, ZoneTypes, disk, DiskOK

LEMMA ExpiryKeepsTypes ==
    ASSUME ZoneTypes, NEW o \in Objects, MetadataExpires(o)
    PROVE  ZoneTypes'
BY DEF MetadataExpires, scheduler, SchedulerOK, ZoneTypes, DiskOK, ListOK, ProxiesOK, ReadersOK, RemoversOK, LoaderOK

LEMMA StutterKeepsTypes ==
    ASSUME ZoneTypes, UNCHANGED vars
    PROVE  ZoneTypes'
BY DEF vars, disk, scheduler, SchedulerOK, ZoneTypes, DiskOK, ListOK, ProxiesOK, ReadersOK, RemoversOK, LoaderOK

LEMMA ZoneStarts == Init => ZoneTypes
<1> SUFFICES ASSUME Init
             PROVE  ZoneTypes
  OBVIOUS
<1> USE CacheZoneAssumption
<1>1. 0 \in Parts
  BY DEF Parts
<1>2. ProxiesOK /\ ReadersOK
  BY <1>1 DEF Init, ProxiesOK, ReadersOK, ProxyType, ReaderType, IdleProxy, IdleReader
<1>3. RemoversOK
  BY DEF Init, RemoversOK, RemoverType, IdleRemover
<1>4. LoaderOK
  BY DEF Init, LoaderOK, LoaderType, DoneLoader
<1>5. ListOK /\ SchedulerOK
  BY FS_EmptySet DEF Init, ListOK, SchedulerOK
<1>6. QED
  BY <1>2, <1>3, <1>4, <1>5 DEF Init, ZoneTypes, DiskOK

LEMMA ZoneStays == ZoneTypes /\ [Next]_vars => ZoneTypes'
<1> SUFFICES ASSUME ZoneTypes, [Next]_vars
             PROVE  ZoneTypes'
  OBVIOUS
<1>1. ASSUME NEW p \in Proxies,
             \/ \E o \in Objects, first, last \in Parts, method \in Methods :
                   Request(p, o, first, last, method)
             \/ ProxyStep(p)
      PROVE  ZoneTypes'
  BY <1>1, RequestKeepsTypes, ProxyKeepsTypes
<1>2. ASSUME NEW r \in Readers,
             \/ \E o \in Objects : StartReading(r, o)
             \/ \E part \in Parts : GetPart(r, part)
             \/ PromoteObject(r) \/ EndReading(r)
      PROVE  ZoneTypes'
  BY <1>2, ReaderKeepsTypes
<1>3. ASSUME NEW m \in Removers,
             \/ \E o \in Objects : Expire(m, o) \/ StartPurge(m, o)
             \/ RemoverStep(m)
      PROVE  ZoneTypes'
  BY <1>3, RemoverKeepsTypes
<1>4. CASE Restart \/ LoaderStep \/ (\E o \in Objects : MetadataExpires(o)) \/ UNCHANGED vars
  BY <1>4, RestartKeepsTypes, LoaderKeepsTypes, ExpiryKeepsTypes, StutterKeepsTypes
<1>5. ASSUME NEW o \in Objects, Deliver(o)
      PROVE  ZoneTypes'
  BY <1>3, <1>5, DropKeepsTypes DEF Deliver
<1>6. QED
  BY <1>1, <1>2, <1>3, <1>4, <1>5 DEF Next

LEMMA ZoneHolds == Spec => []ZoneTypes
BY ZoneStarts, ZoneStays, PTL DEF Spec

-----------------------------------------------------------------------------
(* Files *)

\* Part i is listed, or a part writer has saved it and lists it next, or an expiry has
\* its object's discard before it.
AccountedFor(i) ==
  \/ i \in listed
  \/ \E p \in Proxies : proxy[p].at = "add" /\ Current(p) = i
  \/ \E m \in Removers : remover[m].at = "discard" /\ remover[m].obj = i[1]

\* Other steps of a part writer leave the ones of the rest alone.
LEMMA OthersStay ==
    ASSUME ZoneTypes, NEW p \in Proxies, NEW r, ToProxy(p, r), NEW q \in Proxies, q # p
    PROVE  proxy'[q] = proxy[q] /\ Current(q)' = Current(q)
BY DEF ToProxy, Current, ZoneTypes, ProxiesOK

LEMMA ProxyAccounts ==
    ASSUME ZoneTypes, EveryFileIsAccounted, NEW p \in Proxies, ProxyStep(p)
    PROVE  EveryFileIsAccounted'
<1> SUFFICES ASSUME NEW i \in files'
             PROVE  AccountedFor(i)'
  BY DEF EveryFileIsAccounted, AccountedFor
<1>1. UNCHANGED <<reader, remover, loader, restarts>>
  BY DEF ProxyStep, DiscardUnusable, SaveMetadata, PushExpiry, SetCallback, ShouldKeep, SavePart, AddPart, Abort
<1>2. \A q \in Proxies : q # p => proxy'[q] = proxy[q] /\ Current(q)' = Current(q)
  BY OthersStay
  DEF ProxyStep, DiscardUnusable, SaveMetadata, PushExpiry, SetCallback, ShouldKeep, SavePart, AddPart, Abort
<1>3. CASE SavePart(p)
  <2>1. CASE i \in files
    <3>1. AccountedFor(i)
      BY <2>1 DEF EveryFileIsAccounted, AccountedFor
    <3>2. proxy[p].at # "add" /\ UNCHANGED listed
      BY <1>3 DEF SavePart
    <3>3. QED  BY <3>1, <3>2, <1>1, <1>2 DEF AccountedFor
  <2>2. CASE i \notin files
    <3>1. i = Current(p) /\ proxy' = [proxy EXCEPT ![p] = [proxy[p] EXCEPT !.at = "add"]]
      BY <1>3, <2>2 DEF SavePart, ToProxy
    <3>2. proxy'[p].at = "add" /\ Current(p)' = Current(p)
      BY <3>1 DEF ZoneTypes, ProxiesOK, ProxyType, Current
    <3>3. QED  BY <3>1, <3>2 DEF AccountedFor
  <2>3. QED  BY <2>1, <2>2
<1>4. CASE ShouldKeep(p) \/ AddPart(p)
  <2>1. AddObject(Current(p)) /\ Current(p) \in Indexes
    BY <1>4, CurrentIs DEF ShouldKeep, AddPart, AddSaved, ZoneTypes
  <2>2. i \in files /\ Current(p) \in listed' /\ (i \in listed => i \in listed')
    BY <2>1, AddObjectIs DEF ZoneTypes, DiskOK
  <2>3. AccountedFor(i)
    BY <2>2 DEF EveryFileIsAccounted, AccountedFor
  <2>4. QED
    BY <2>2, <2>3, <1>1, <1>2 DEF AccountedFor
<1>5. CASE DiscardUnusable(p) \/ SaveMetadata(p) \/ PushExpiry(p) \/ SetCallback(p) \/ Abort(p)
  <2>1. i \in files /\ UNCHANGED listed /\ proxy[p].at # "add"
    BY <1>5 DEF DiscardUnusable, SaveMetadata, PushExpiry, SetCallback, Abort, Discard, disk
  <2>2. AccountedFor(i)
    BY <2>1 DEF EveryFileIsAccounted, AccountedFor
  <2>3. QED
    BY <2>1, <2>2, <1>1, <1>2 DEF AccountedFor
<1>6. QED  BY <1>3, <1>4, <1>5 DEF ProxyStep

\* An expiry unlists what it has listed, and its object is the next it discards.
LEMMA RemoverAccounts ==
    ASSUME ZoneTypes, ~Purge, EveryFileIsAccounted, NEW m \in Removers,
           \/ \E o \in Objects : Expire(m, o) \/ StartPurge(m, o)
           \/ RemoverStep(m)
    PROVE  EveryFileIsAccounted'
<1> SUFFICES ASSUME NEW i \in files'
             PROVE  AccountedFor(i)'
  BY DEF EveryFileIsAccounted, AccountedFor
<1>1. UNCHANGED proxy /\ \A q \in Removers : q # m => remover'[q] = remover[q]
  BY DEF Expire, StartPurge, RemoverStep, ListParts, RemoveParts, DiscardObject, ToRemover,
         ZoneTypes, RemoversOK
<1>2. i \in files
  BY DEF Expire, StartPurge, RemoverStep, ListParts, RemoveParts, DiscardObject, Discard, disk
<1>3. AccountedFor(i)
  BY <1>2 DEF EveryFileIsAccounted, AccountedFor
<1>4. \A q \in Proxies : Current(q)' = Current(q)
  BY <1>1 DEF Current
<1>5. CASE RemoveParts(m)
  <2>1. remover[m].at = "remove" /\ ~remover[m].purge /\ listed' = listed \ remover[m].parts
        /\ \A j \in remover[m].parts : j[1] = remover[m].obj
    BY <1>5 DEF RemoveParts, ZoneTypes, RemoversOK
  <2>2. remover'[m].at = "discard" /\ remover'[m].obj = remover[m].obj
    BY <1>5, <2>1 DEF RemoveParts, ToRemover, ZoneTypes, RemoversOK, RemoverType
  <2>3. QED
    BY <2>1, <2>2, <1>1, <1>3, <1>4 DEF AccountedFor
<1>6. CASE DiscardObject(m)
  <2>1. i[1] # remover[m].obj /\ UNCHANGED listed
    BY <1>6, DiscardIs DEF DiscardObject, ZoneTypes, RemoversOK
  <2>2. QED
    BY <2>1, <1>1, <1>3, <1>4 DEF AccountedFor
<1>7. CASE ListParts(m) \/ \E o \in Objects : Expire(m, o) \/ StartPurge(m, o)
  <2>1. remover[m].at # "discard" /\ UNCHANGED listed
    BY <1>7 DEF ListParts, Expire, StartPurge
  <2>2. QED
    BY <2>1, <1>1, <1>3, <1>4 DEF AccountedFor
<1>8. QED  BY <1>5, <1>6, <1>7 DEF RemoverStep

LEMMA ReaderAccounts ==
    ASSUME ZoneTypes, EveryFileIsAccounted, NEW r \in Readers,
           \/ \E o \in Objects : StartReading(r, o)
           \/ \E part \in Parts : GetPart(r, part)
           \/ PromoteObject(r) \/ EndReading(r)
    PROVE  EveryFileIsAccounted'
<1> SUFFICES ASSUME NEW i \in files'
             PROVE  AccountedFor(i)'
  BY DEF EveryFileIsAccounted, AccountedFor
<1>1. UNCHANGED <<proxy, remover>> /\ \A q \in Proxies : Current(q)' = Current(q)
  BY DEF StartReading, GetPart, PromoteObject, EndReading, Current
<1>2. i \in files /\ (i \in listed => i \in listed')
  <2>1. CASE PromoteObject(r)
    <3>1. <<reader[r].obj, reader[r].part>> \in Indexes
      BY <2>1 DEF PromoteObject, ZoneTypes, ReadersOK, ReaderType, Indexes
    <3>2. QED
      BY <2>1, <3>1, AddObjectIs DEF PromoteObject, ZoneTypes, DiskOK
  <2>2. CASE ~PromoteObject(r)
    BY <2>2 DEF StartReading, GetPart, EndReading, disk
  <2>3. QED  BY <2>1, <2>2
<1>3. AccountedFor(i)
  BY <1>2 DEF EveryFileIsAccounted, AccountedFor
<1>4. QED
  BY <1>1, <1>2, <1>3 DEF AccountedFor

LEMMA FilesStayAccounted ==
    ASSUME ~Purge, MaxRestarts = 0, ZoneTypes, EveryFileIsAccounted, [Next]_vars
    PROVE  EveryFileIsAccounted'
<1>1. ASSUME NEW p \in Proxies, NEW o \in Objects, NEW first \in Parts, NEW last \in Parts,
             NEW method \in Methods, Request(p, o, first, last, method)
      PROVE  EveryFileIsAccounted'
  <2>1. \A q \in Proxies : q # p => proxy'[q] = proxy[q] /\ Current(q)' = Current(q)
    BY <1>1, OthersStay DEF Request
  <2>2. proxy[p].at # "add" /\ UNCHANGED <<files, listed, remover>>
    BY <1>1 DEF Request, disk
  <2>3. QED  BY <2>1, <2>2 DEF EveryFileIsAccounted
<1>2. ASSUME NEW o \in Objects, MetadataExpires(o)
      PROVE  EveryFileIsAccounted'
  BY <1>2 DEF MetadataExpires, EveryFileIsAccounted, Current
<1>3. ~Restart /\ ~LoaderStep
  <2>1. restarts = 0 /\ ~Restart
    BY DEF Restart, ZoneTypes
  <2>2. loader.at = "done"
    BY <2>1 DEF ZoneTypes, LoaderOK
  <2>3. QED
    BY <2>1, <2>2 DEF LoaderStep, LoadObject, LoadParts, DiscardLoaded, PushLoaded,
                      SetLoaded, AddLoaded, EndOfObject, EndOfIterate
<1>4. CASE UNCHANGED vars
  BY <1>4 DEF vars, disk, EveryFileIsAccounted, Current
<1>5. ASSUME NEW o \in Objects, DropExpiry(o)
      PROVE  EveryFileIsAccounted'
  BY <1>5 DEF DropExpiry, disk, EveryFileIsAccounted, Current
<1>6. QED
  BY <1>1, <1>2, <1>3, <1>4, <1>5, ProxyAccounts, ReaderAccounts, RemoverAccounts
  DEF Next, Deliver

-----------------------------------------------------------------------------
(* Metadata *)

\* An entry of o is in the heap, and its callback in the map or on the way there.
Ticks(o) == timers[o] > 0 /\ (o \in events \/ Adding(o))

\* A part writer is at its first send for o.
Schedules(p, o) == proxy[p].at = "expiry" /\ proxy[p].obj = o

\* An expiry or a purge of o that is under way; only the expiry surely discards it.
Expires(m, o) == remover[m].at # "idle" /\ remover[m].obj = o /\ ~remover[m].purge

\* The reload has o before it, or in its hands.
WillBeLoaded(o) ==
  \/ loader.at # "done" /\ o \in loader.left
  \/ loader.at \in {"parts", "discard", "expiry"} /\ loader.obj = o

WillExpire(o) ==
  \/ Ticks(o)
  \/ \E p \in Proxies : Schedules(p, o)
  \/ \E m \in Removers : Expires(m, o)
  \/ WillBeLoaded(o)
  \/ o \in lost

LEMMA WillExpireIs ==
    MetadataWillExpire <=> \A o \in Objects : meta[o] # "none" => WillExpire(o)
BY DEF MetadataWillExpire, WillExpire, Ticks, Schedules, Expires, WillBeLoaded

LEMMA ProxyLeavesExpiry ==
    ASSUME Methods \subseteq {"GET"}, ZoneTypes, MetadataWillExpire,
           NEW p \in Proxies, ProxyStep(p)
    PROVE  MetadataWillExpire'
<1> SUFFICES ASSUME NEW o \in Objects, meta'[o] # "none"
             PROVE  WillExpire(o)'
  BY DEF MetadataWillExpire, WillExpire, Ticks, Schedules, Expires, WillBeLoaded
<1>1. UNCHANGED <<remover, loader>> /\ events \subseteq events'
      /\ \A q \in Proxies : q # p => proxy'[q] = proxy[q]
  BY DEF ProxyStep, DiscardUnusable, SaveMetadata, PushExpiry, Push, SetCallback, Scheduled,
         ShouldKeep, SavePart, AddPart, Abort, ToProxy, scheduler, ZoneTypes, ProxiesOK
<1>2. proxy \in [Proxies -> ProxyType] /\ timers \in [Objects -> 0 .. MaxTimers]
  BY DEF ZoneTypes, ProxiesOK, SchedulerOK
<1>3. CASE SaveMetadata(p) /\ proxy[p].obj = o
  <2>1. proxy[p].method # "HEAD"
    BY DEF ZoneTypes, ProxiesOK
  <2>2. proxy'[p].at = "expiry" /\ proxy'[p].obj = o
    BY <1>2, <1>3, <2>1 DEF SaveMetadata, ToProxy, ProxyType
  <2>3. QED  BY <2>2 DEF WillExpire, Schedules
<1>4. CASE PushExpiry(p) /\ proxy[p].obj = o
  <2>1. timers'[o] > 0
    BY <1>4, PushIs DEF PushExpiry, ZoneTypes
  <2>2. proxy'[p].at = "event" /\ proxy'[p].obj = o
    BY <1>2, <1>4 DEF PushExpiry, ToProxy, ProxyType
  <2>3. QED  BY <2>1, <2>2 DEF WillExpire, Ticks, Adding
<1>5. ASSUME ~(SaveMetadata(p) /\ proxy[p].obj = o), ~(PushExpiry(p) /\ proxy[p].obj = o)
      PROVE  WillExpire(o)'
  <2>1. meta[o] # "none"
    <3>1. CASE DiscardUnusable(p)
      BY <3>1, DiscardIs DEF DiscardUnusable, ZoneTypes, ProxiesOK
    <3>2. CASE ~DiscardUnusable(p)
      BY <3>2, <1>5 DEF ProxyStep, SaveMetadata, PushExpiry, SetCallback, ShouldKeep, SavePart,
                        AddPart, Abort, disk, ZoneTypes, DiskOK
    <3>3. QED  BY <3>1, <3>2
  <2>2. WillExpire(o)
    BY <2>1, WillExpireIs
  <2>3. ~Schedules(p, o)
    BY <1>5 DEF Schedules, ProxyStep, DiscardUnusable, SaveMetadata, SetCallback, ShouldKeep,
                SavePart, AddPart, Abort
  <2>4. (timers[o] > 0 => timers'[o] > 0) /\ (o \in lost => o \in lost')
    <3>1. CASE PushExpiry(p)
      <4>1. proxy[p].obj \in Objects /\ proxy[p].obj # o
        BY <3>1, <1>5 DEF PushExpiry, ZoneTypes, ProxiesOK
      <4>2. timers'[o] >= timers[o] /\ lost' = lost \ {proxy[p].obj}
            /\ timers' \in [Objects -> 0 .. MaxTimers]
        BY <3>1, <4>1, PushIs DEF PushExpiry, ZoneTypes, SchedulerOK
      <4>3. timers[o] \in Int /\ timers'[o] \in Int
        BY <4>2, <1>2, CacheZoneAssumption
      <4>4. QED  BY <4>1, <4>2, <4>3
    <3>2. CASE ~PushExpiry(p)
      BY <3>2 DEF ProxyStep, DiscardUnusable, SaveMetadata, SetCallback, ShouldKeep, SavePart,
                  AddPart, Abort, scheduler
    <3>3. QED  BY <3>1, <3>2
  <2>5. o \in events \/ Adding(o) => o \in events' \/ Adding(o)'
    <3>1. CASE SetCallback(p) /\ proxy[p].obj = o
      BY <3>1 DEF SetCallback, Scheduled
    <3>2. CASE ~(SetCallback(p) /\ proxy[p].obj = o)
      <4>1. ~(proxy[p].at = "event" /\ proxy[p].obj = o)
        BY <3>2 DEF ProxyStep, DiscardUnusable, SaveMetadata, PushExpiry, ShouldKeep, SavePart,
                    AddPart, Abort
      <4>2. QED  BY <4>1, <1>1 DEF Adding
    <3>3. QED  BY <3>1, <3>2
  <2>6. QED
    BY <2>2, <2>3, <2>4, <2>5, <1>1 DEF WillExpire, Ticks, Schedules, Expires, WillBeLoaded
<1>6. QED  BY <1>3, <1>4, <1>5

\* An expiry takes an entry and the callback, and its discard the metadata.
LEMMA RemoverLeavesExpiry ==
    ASSUME ZoneTypes, MetadataWillExpire, NEW m \in Removers,
           \/ \E o \in Objects : Expire(m, o) \/ StartPurge(m, o)
           \/ RemoverStep(m)
    PROVE  MetadataWillExpire'
<1> SUFFICES ASSUME NEW o \in Objects, meta'[o] # "none"
             PROVE  WillExpire(o)'
  BY DEF MetadataWillExpire, WillExpire, Ticks, Schedules, Expires, WillBeLoaded
<1>1. UNCHANGED <<proxy, loader, lost>> /\ \A q \in Removers : q # m => remover'[q] = remover[q]
  BY DEF Expire, StartPurge, RemoverStep, ListParts, RemoveParts, DiscardObject, ToRemover,
         scheduler, ZoneTypes, RemoversOK
<1>2. remover[m] \in RemoverType /\ remover \in [Removers -> RemoverType]
  BY DEF ZoneTypes, RemoversOK
<1>3. meta[o] # "none" /\ (DiscardObject(m) => remover[m].obj # o)
  <2>1. CASE DiscardObject(m)
    BY <2>1, DiscardIs DEF DiscardObject, ZoneTypes, RemoversOK
  <2>2. CASE ~DiscardObject(m)
    BY <2>2 DEF Expire, StartPurge, RemoverStep, ListParts, RemoveParts, disk
  <2>3. QED  BY <2>1, <2>2
<1>4. WillExpire(o)
  BY <1>3, WillExpireIs
<1>5. Expires(m, o) => Expires(m, o)'
  <2>1. CASE ListParts(m) /\ ~remover[m].purge
    BY <2>1, <1>2 DEF ListParts, ToRemover, Expires, RemoverType
  <2>2. CASE RemoveParts(m) /\ ~remover[m].purge
    BY <2>2, <1>2 DEF RemoveParts, ToRemover, Expires, RemoverType
  <2>3. QED
    BY <2>1, <2>2, <1>3 DEF RemoverStep, Expire, StartPurge, Expires
<1>6. Ticks(o) => Ticks(o)' \/ Expires(m, o)'
  <2>1. Adding(o)' <=> Adding(o)
    BY <1>1 DEF Adding
  <2>2. ASSUME Expire(m, o)
        PROVE  Expires(m, o)'
    BY <2>2, <1>2 DEF Expire, ToRemover, Expires, IdleRemover
  <2>3. ASSUME NEW x \in Objects, x # o, Expire(m, x)
        PROVE  timers'[o] = timers[o] /\ (o \in events => o \in events')
    BY <2>3, TakesOne DEF Expire, ZoneTypes
  <2>4. CASE ~\E x \in Objects : Expire(m, x)
    BY <2>1, <2>4 DEF StartPurge, RemoverStep, ListParts, RemoveParts, DiscardObject, scheduler,
                      Ticks
  <2>5. QED
    BY <2>1, <2>2, <2>3, <2>4 DEF Ticks
<1>7. QED
  BY <1>1, <1>4, <1>5, <1>6 DEF WillExpire, Schedules, Expires, WillBeLoaded

\* The last entry is dropped without its callback only while an AddEvent has still to set it.
LEMMA DropLeavesExpiry ==
    ASSUME ZoneTypes, MetadataWillExpire, NEW x \in Objects, DropExpiry(x)
    PROVE  MetadataWillExpire'
<1> SUFFICES ASSUME NEW o \in Objects, meta'[o] # "none"
             PROVE  WillExpire(o)'
  BY DEF MetadataWillExpire, WillExpire, Ticks, Schedules, Expires, WillBeLoaded
<1>1. UNCHANGED <<meta, events, proxy, remover, loader>> /\ (o \in lost => o \in lost')
  BY DEF DropExpiry, disk
<1>2. WillExpire(o)
  BY <1>1, WillExpireIs
<1>3. Ticks(o) => Ticks(o)' \/ o \in lost'
  <2>1. Adding(o)' <=> Adding(o)
    BY <1>1 DEF Adding
  <2>2. CASE x # o
    <3>1. timers'[o] = timers[o]
      BY <2>2, TakesOne DEF DropExpiry, ZoneTypes
    <3>2. QED  BY <1>1, <2>1, <3>1 DEF Ticks
  <2>3. CASE x = o
    <3>1. timers'[o] = timers[o] - 1 /\ timers[o] \in Nat /\ timers[o] > 0
      BY <2>3, TakesOne, CacheZoneAssumption DEF DropExpiry, ZoneTypes, SchedulerOK
    <3>2. CASE timers[o] = 1 /\ Adding(o)
      BY <2>3, <3>2 DEF DropExpiry
    <3>3. CASE timers[o] # 1
      BY <1>1, <2>1, <3>1, <3>3 DEF Ticks
    <3>4. CASE ~Adding(o)
      BY <2>3, <3>4 DEF Ticks, DropExpiry
    <3>5. QED  BY <3>2, <3>3, <3>4
  <2>4. QED  BY <2>2, <2>3
<1>4. QED
  BY <1>1, <1>2, <1>3 DEF WillExpire, Schedules, Expires, WillBeLoaded

LEMMA LoaderLeavesExpiry ==
    ASSUME ZoneTypes, MetadataWillExpire, LoaderStep
    PROVE  MetadataWillExpire'
<1> SUFFICES ASSUME NEW o \in Objects, meta'[o] # "none"
             PROVE  WillExpire(o)'
  BY DEF MetadataWillExpire, WillExpire, Ticks, Schedules, Expires, WillBeLoaded
<1>1. UNCHANGED <<proxy, remover>> /\ events \subseteq events'
  BY DEF LoaderStep, LoadObject, LoadParts, DiscardLoaded, PushLoaded, Push, SetLoaded,
         ScheduledLoaded, AddLoaded, EndOfObject, EndOfIterate, scheduler
<1>2. loader \in LoaderType /\ timers \in [Objects -> 0 .. MaxTimers]
  BY DEF ZoneTypes, LoaderOK, SchedulerOK
<1>3. meta[o] # "none" /\ (DiscardLoaded => loader.obj # o)
  <2>1. CASE DiscardLoaded
    BY <2>1, DiscardIs DEF DiscardLoaded, ZoneTypes, LoaderOK
  <2>2. CASE ~DiscardLoaded
    BY <2>2 DEF LoaderStep, LoadObject, LoadParts, PushLoaded, SetLoaded, AddLoaded, EndOfObject,
                EndOfIterate, disk
  <2>3. QED  BY <2>1, <2>2
<1>4. WillExpire(o)
  BY <1>3, WillExpireIs
<1>5. CASE PushLoaded /\ loader.obj = o
  <2>1. timers'[o] > 0
    BY <1>5, PushIs DEF PushLoaded, ZoneTypes
  <2>2. loader'.at = "event" /\ loader'.obj = o
    BY <1>2, <1>5 DEF PushLoaded, LoaderType
  <2>3. QED  BY <2>1, <2>2 DEF WillExpire, Ticks, Adding
<1>6. ASSUME ~(PushLoaded /\ loader.obj = o)
      PROVE  WillExpire(o)'
  <2>1. (timers[o] > 0 => timers'[o] > 0) /\ (o \in lost => o \in lost')
    <3>1. CASE PushLoaded
      <4>1. loader.obj \in Objects /\ loader.obj # o
        BY <3>1, <1>6 DEF PushLoaded, ZoneTypes, LoaderOK
      <4>2. timers'[o] >= timers[o] /\ lost' = lost \ {loader.obj}
            /\ timers' \in [Objects -> 0 .. MaxTimers]
        BY <3>1, <4>1, PushIs DEF PushLoaded, ZoneTypes, SchedulerOK
      <4>3. timers[o] \in Int /\ timers'[o] \in Int
        BY <4>2, <1>2, CacheZoneAssumption
      <4>4. QED  BY <4>1, <4>2, <4>3
    <3>2. CASE ~PushLoaded
      BY <3>2 DEF LoaderStep, LoadObject, LoadParts, DiscardLoaded, SetLoaded, AddLoaded,
                  EndOfObject, EndOfIterate, scheduler
    <3>3. QED  BY <3>1, <3>2
  <2>2. o \in events \/ Adding(o) => o \in events' \/ Adding(o)'
    <3>1. CASE SetLoaded /\ loader.obj = o
      BY <3>1 DEF SetLoaded, ScheduledLoaded
    <3>2. CASE ~(SetLoaded /\ loader.obj = o)
      <4>1. ~(loader.at = "event" /\ loader.obj = o)
        BY <3>2 DEF LoaderStep, LoadObject, LoadParts, DiscardLoaded, PushLoaded, AddLoaded,
                    EndOfObject, EndOfIterate
      <4>2. QED  BY <4>1, <1>1 DEF Adding
    <3>3. QED  BY <3>1, <3>2
  <2>3. WillBeLoaded(o) => WillBeLoaded(o)'
    <3>1. CASE \E x \in Objects : LoadObject(x)
      BY <3>1, <1>2, <1>3 DEF LoadObject, WillBeLoaded, LoaderType
    <3>2. CASE LoadParts
      BY <3>2, <1>2, <1>3 DEF LoadParts, WillBeLoaded, LoaderType
    <3>3. CASE DiscardLoaded \/ EndOfObject
      BY <3>3, <1>2, <1>3 DEF DiscardLoaded, EndOfObject, WillBeLoaded, LoaderType
    <3>4. CASE PushLoaded \/ SetLoaded
      BY <3>4, <1>2, <1>6 DEF PushLoaded, SetLoaded, WillBeLoaded, LoaderType
    <3>5. CASE \E i \in Indexes : AddLoaded(i)
      BY <3>5, <1>2 DEF AddLoaded, WillBeLoaded, LoaderType
    <3>6. CASE EndOfIterate
      BY <3>6 DEF EndOfIterate, WillBeLoaded
    <3>7. QED  BY <3>1, <3>2, <3>3, <3>4, <3>5, <3>6 DEF LoaderStep
  <2>4. QED
    BY <1>1, <1>4, <2>1, <2>2, <2>3 DEF WillExpire, Ticks, Schedules, Expires
<1>7. QED  BY <1>5, <1>6

LEMMA ExpiryStays ==
    ASSUME Methods \subseteq {"GET"}, ZoneTypes, MetadataWillExpire, [Next]_vars
    PROVE  MetadataWillExpire'
<1>1. ASSUME NEW p \in Proxies, NEW o \in Objects, NEW first \in Parts, NEW last \in Parts,
             NEW method \in Methods, Request(p, o, first, last, method)
      PROVE  MetadataWillExpire'
  <2>1. proxy[p].at = "idle" /\ (\A q \in Proxies : q # p => proxy'[q] = proxy[q])
        /\ UNCHANGED <<meta, timers, events, lost, remover, loader>>
    BY <1>1 DEF Request, ToProxy, ZoneTypes, ProxiesOK, disk, scheduler
  <2>2. QED  BY <2>1 DEF MetadataWillExpire, Adding
<1>2. ASSUME NEW r \in Readers,
             \/ \E o \in Objects : StartReading(r, o)
             \/ \E part \in Parts : GetPart(r, part)
             \/ PromoteObject(r) \/ EndReading(r)
      PROVE  MetadataWillExpire'
  BY <1>2 DEF StartReading, GetPart, PromoteObject, EndReading, disk, scheduler,
              MetadataWillExpire, Adding
<1>3. ASSUME NEW o \in Objects, MetadataExpires(o)
      PROVE  MetadataWillExpire'
  BY <1>3 DEF MetadataExpires, scheduler, MetadataWillExpire, Adding, ZoneTypes, DiskOK
<1>4. CASE Restart
  BY <1>4 DEF Restart, MetadataWillExpire, DoneLoader, ZoneTypes
<1>5. CASE UNCHANGED vars
  BY <1>5 DEF vars, disk, scheduler, MetadataWillExpire, Adding
<1>6. QED
  BY <1>1, <1>2, <1>3, <1>4, <1>5, ProxyLeavesExpiry, RemoverLeavesExpiry, DropLeavesExpiry,
     LoaderLeavesExpiry
  DEF Next, Deliver

-----------------------------------------------------------------------------
(* The theorems *)

\* The state of a zone is of its types, and its list never exceeds the capacity,
\* whatever its goroutines do together (lru.go, cache_zone.go).
THEOREM ZoneTypeOK == Spec => []TypeOK
<1>1. ZoneTypes => TypeOK
  BY CacheZoneAssumption
  DEF ZoneTypes, DiskOK, ListOK, SchedulerOK, ProxiesOK, ReadersOK, RemoversOK, LoaderOK,
      ProxyType, ReaderType, RemoverType, LoaderType, TypeOK
<1>2. QED  BY <1>1, ZoneHolds, PTL

\* While the process runs and nobody purges, evictions, expiries and part writers that
\* race for the same parts leave no file that nothing counts, for any number of each
\* (part_writer.go:95, storage/utils.go:12).
THEOREM ZoneFilesAccounted ==
    ASSUME ~Purge, MaxRestarts = 0
    PROVE  Spec => []EveryFileIsAccounted
<1>1. Init => EveryFileIsAccounted
  BY DEF Init, EveryFileIsAccounted
<1>2. ZoneTypes /\ EveryFileIsAccounted /\ [Next]_vars => EveryFileIsAccounted'
  BY FilesStayAccounted
<1>3. QED  BY <1>1, <1>2, ZoneHolds, PTL DEF Spec

\* Unless it came with a response to HEAD, all metadata on disk has an entry in the heap with
\* its callback, or the goroutine that schedules or discards it, through any purges and kills
\* of the process; the one way to lose it is an expiry between the two sends of AddEvent
\* (handler_helpers.go:116, init.go:248, scheduler.go:168-171).
THEOREM ZoneMetadataWillExpire ==
    ASSUME Methods \subseteq {"GET"}
    PROVE  Spec => []MetadataWillExpire
<1>1. Init => MetadataWillExpire
  BY DEF Init, MetadataWillExpire
<1>2. ZoneTypes /\ MetadataWillExpire /\ [Next]_vars => MetadataWillExpire'
  BY ExpiryStays
<1>3. QED  BY <1>1, <1>2, ZoneHolds, PTL DEF Spec
=============================================================================
