------------------------------ MODULE TieredLRU ------------------------------
(***************************************************************************)
(* The segmented LRU of a cache zone: TieredLRUCache of cache/lru/lru.go.  *)
(*                                                                         *)
(* Every exported operation runs under one mutex, so each is one action.   *)
(* Two things are not atomic in the code and are not atomic here:          *)
(*   - PromoteObject of an object that is not cached unlocks the mutex     *)
(*     before it calls AddObject (the window is the set `missed');         *)
(*   - a resize leaves the removal of the dropped files to a goroutine,    *)
(*     throttledRemove, which works in bulks with a sleep between them     *)
(*     (the variable `jobs').                                              *)
(*                                                                         *)
(* `files' is the disk as the LRU's callers leave it: they save the part   *)
(* of an object they add (partWriter.flushBuffer) and discard the parts of *)
(* the objects they remove; removeFunc, which the LRU calls, discards one. *)
(* The statistics counters (requests, hits) are left out.                  *)
(*                                                                         *)
(* An operator commented `Mutant' is a wrong variant of the definition     *)
(* after it, which a property must be able to tell from it.                *)
(***************************************************************************)
EXTENDS Integers, SequencesExt

CONSTANTS
    Objects,     \* the object indexes (types.ObjectIndex) that may be cached
    Sizes,       \* the values of storage_objects the configurations use
    BulkCounts,  \* the values of bulk_remove_count the configurations use
    Promoters,   \* goroutines that may be between the two locks of PromoteObject
    Removers     \* bound: throttledRemove goroutines running at a time

ASSUME LRUAssumption ==
    /\ Sizes \subseteq Nat /\ Sizes # {}
    /\ BulkCounts \subseteq Nat /\ BulkCounts # {}

cacheTiers == 4
Tiers      == 0 .. cacheTiers - 1
LastTier   == cacheTiers - 1
Absent     == -1               \* no entry in the lookup map

VARIABLES
    tiers,           \* tiers[i]: the list of tier i, front (most recent) first
    lookup,          \* the ListTier of the object's Element, or Absent
    storageObjects,  \* cfg.StorageObjects
    bulkRemoveCount, \* cfg.BulkRemoveCount
    tierListSize,
    files,           \* the objects whose part is on disk
    jobs,            \* the throttledRemove goroutines
    missed           \* <<p, o>>: p found o missing and has not added it yet

vars == <<tiers, lookup, storageObjects, bulkRemoveCount, tierListSize,
          files, jobs, missed>>
config == <<storageObjects, bulkRemoveCount, tierListSize>>

-----------------------------------------------------------------------------
(* Helpers *)

\* A list after list.Remove of the elements in S (SelectSeq, as a function
\* that the proofs can unfold).
Without(s, S) ==
    LET kept[i \in 0 .. Len(s)] ==
          IF i = 0 THEN <<>>
          ELSE IF s[i] \in S THEN kept[i - 1] ELSE Append(kept[i - 1], s[i])
    IN  kept[Len(s)]

Cached == {o \in Objects : lookup[o] # Absent}

\* All cached objects, best ranked first.
Ranking == tiers[0] \o tiers[1] \o tiers[2] \o tiers[3]

\* A goroutine of throttledRemove: its argument, its loop variable, and
\* whether it waits on its timer between two bulks.
NoJob   == [indexes |-> <<>>, i |-> 0, asleep |-> FALSE]
Running(r) == jobs[r].indexes # <<>>

-----------------------------------------------------------------------------
(* AddObject and freeSpaceInLastList *)

\* Mutant: <= for <.
HasRoomOffByOne(i) == Len(tiers[i]) <= tierListSize
HasRoom(i) == Len(tiers[i]) < tierListSize

\* The upper tiers with room, when the last one needs some.
FreeLists == {i \in 0 .. LastTier - 1 : HasRoom(i)}

LastIsFull == Len(tiers[LastTier]) >= tierListSize /\ tiers[LastTier] # <<>>

\* Mutant: PushFront for PushBack.
PushedUpFront(i) == <<Head(tiers[i + 1])>> \o tiers[i]

\* PushBack to tier i of the front of the tier below it.
PushedUp(i) == Append(tiers[i], Head(tiers[i + 1]))

\* freeSpaceInLastList with room in tier f: the front of every tier below f
\* goes to the back of the tier above it.
Cascade(f) == [i \in Tiers |->
    IF i < f THEN tiers[i]
    ELSE IF i = f THEN PushedUp(i)
    ELSE IF i < LastTier THEN Tail(PushedUp(i))
    ELSE Tail(tiers[i])]

CascadeLookup(f) == [o \in Objects |->
    IF \E i \in f + 1 .. LastTier : o = Head(tiers[i])
    THEN lookup[o] - 1 ELSE lookup[o]]

\* PushFront of o in the last list, and its Element.
PushNew(o, ts, lk) ==
    /\ tiers'  = [ts EXCEPT ![LastTier] = <<o>> \o @]
    /\ lookup' = [lk EXCEPT ![o] = LastTier]

\* The part of AddObject under the mutex for an object that is not cached;
\* saved is what the caller has put on disk for it.
Insert(o, saved) ==
    \/ /\ ~LastIsFull
       /\ PushNew(o, tiers, lookup)
       /\ files' = files \cup saved
    \/ /\ LastIsFull /\ FreeLists # {}
       /\ LET f == Max(FreeLists) IN PushNew(o, Cascade(f), CascadeLookup(f))
       /\ files' = files \cup saved
    \/ /\ LastIsFull /\ FreeLists = {}
       /\ LET victim == Last(tiers[LastTier])
          IN  /\ PushNew(o, [tiers EXCEPT ![LastTier] = Front(@)],
                            [lookup EXCEPT ![victim] = Absent])
              /\ files' = (files \ {victim}) \cup saved

\* A part writer keeps a part that is not cached: AddObject, and the caller
\* saves the part.
AddObject(o) ==
    /\ lookup[o] = Absent
    /\ Insert(o, {o})
    /\ UNCHANGED <<config, jobs, missed>>

\* ErrAlreadyInCache: the list keeps its order, the caller saves the part again.
AddCachedObject(o) ==
    /\ lookup[o] # Absent
    /\ files' = files \cup {o}
    /\ UNCHANGED <<tiers, lookup, config, jobs, missed>>

\* Remove(ois...), and its callers discard the parts.
RemoveObjects(S) ==
    /\ tiers'  = [i \in Tiers |-> Without(tiers[i], S)]
    /\ lookup' = [o \in Objects |-> IF o \in S THEN Absent ELSE lookup[o]]
    /\ files'  = files \ S
    /\ UNCHANGED <<config, jobs, missed>>

-----------------------------------------------------------------------------
(* PromoteObject *)

\* In tier 0 already: MoveToFront.
PromoteInTop(o) ==
    /\ lookup[o] = 0
    /\ tiers' = [tiers EXCEPT ![0] = <<o>> \o Without(@, {o})]
    /\ UNCHANGED <<lookup, config, files, jobs, missed>>

\* The upper tier has room. When it is empty and "full" (tierListSize is 0)
\* Remove(Back()) panics on nil after the deferred move is registered: the
\* move and the unlock happen while the panic unwinds to the caller.
PromoteIntoRoom(o) ==
    /\ lookup[o] > 0
    /\ LET i == lookup[o]
       IN  /\ HasRoom(i - 1) \/ tiers[i - 1] = <<>>
           /\ tiers' = [tiers EXCEPT ![i] = Without(@, {o}),
                                     ![i - 1] = <<o>> \o @]
           /\ lookup' = [lookup EXCEPT ![o] = i - 1]
    /\ UNCHANGED <<config, files, jobs, missed>>

\* Mutant: the Element of the object that goes down keeps its ListTier.
ForgotSwapped(up, down) == [lookup EXCEPT ![up] = @ - 1]
SwappedLookup(up, down) == [lookup EXCEPT ![up] = @ - 1, ![down] = lookup[up]]

\* The upper tier is full: its last element takes the place of the promoted
\* one, at the front of the lower tier.
PromoteBySwap(o) ==
    /\ lookup[o] > 0
    /\ LET i     == lookup[o]
           upper == tiers[i - 1]
       IN  /\ ~HasRoom(i - 1) /\ upper # <<>>
           /\ tiers' = [tiers EXCEPT
                 ![i]     = <<Last(upper)>> \o Without(@, {o}),
                 ![i - 1] = <<o>> \o Front(@)]
           /\ lookup' = SwappedLookup(o, Last(upper))
    /\ UNCHANGED <<config, files, jobs, missed>>

\* Not cached: the mutex is released before AddObject takes it again.
PromoteMiss(p, o) ==
    /\ lookup[o] = Absent
    /\ \A e \in missed : e[1] # p
    /\ missed' = missed \cup {<<p, o>>}
    /\ UNCHANGED <<tiers, lookup, config, files, jobs>>

\* AddObject after a miss: whatever happened in between, o is added if it is
\* absent now. The caller has read the part, it saves none.
PromoteAdd(p, o) ==
    /\ <<p, o>> \in missed
    /\ missed' = missed \ {<<p, o>>}
    /\ \/ lookup[o] = Absent /\ Insert(o, {})
       \/ lookup[o] # Absent /\ UNCHANGED <<tiers, lookup, files>>
    /\ UNCHANGED <<config, jobs>>

PromoteObject(o) == PromoteInTop(o) \/ PromoteIntoRoom(o) \/ PromoteBySwap(o)

-----------------------------------------------------------------------------
(* ChangeConfig, resize and throttledRemove *)

\* Mutant: the size of the zone for the size of a tier.
TierSizeOfZone(n) == n
\* The tierListSize of a zone of n objects.
TierSize(n) == n \div cacheTiers

\* The loops of resize neither reorder nor interleave: resizeDown drops the
\* worst ranked objects beyond the new size, then every tier pushes what
\* exceeds its new size to the front of the next, and the last one drops it.
\* So the new lists are consecutive pieces of the old Ranking, and piece i
\* ends where the objects of tiers 0..i, those kept, or its room do.
ResizeEnd(n) == LET
    least(a, b) == IF a < b THEN a ELSE b
    room  == TierSize(n)
    len0  == Len(tiers[0])
    len1  == len0 + Len(tiers[1])
    len2  == len1 + Len(tiers[2])
    kept  == least(Len(Ranking), n)
    end0  == least(least(len0, kept), room)
    end1  == least(least(len1, kept), end0 + room)
    end2  == least(least(len2, kept), end1 + room)
    end3  == least(kept, end2 + room)
    IN <<end0, end1, end2, end3>>

ResizedTiers(n) == LET e == ResizeEnd(n) IN
    [i \in Tiers |-> SubSeq(Ranking, (IF i = 0 THEN 0 ELSE e[i]) + 1, e[i + 1])]

\* What a resize drops, worst ranked first.
Dropped(n) == Reverse(SubSeq(Ranking, ResizeEnd(n)[cacheTiers] + 1, Len(Ranking)))

ChangeConfig(n, count) ==
    /\ storageObjects'  = n
    /\ bulkRemoveCount' = count
    /\ tierListSize'    = TierSize(n)
    /\ \/ /\ tierListSize <= TierSize(n)
          /\ UNCHANGED <<tiers, lookup, jobs>>
       \/ /\ tierListSize > TierSize(n)
          /\ tiers'  = ResizedTiers(n)
          /\ lookup' = [o \in Objects |->
                IF o \in ToSet(Dropped(n)) THEN Absent
                ELSE IF \E i \in Tiers : o \in ToSet(ResizedTiers(n)[i])
                THEN CHOOSE i \in Tiers : o \in ToSet(ResizedTiers(n)[i])
                ELSE lookup[o]]
          /\ \/ Dropped(n) = <<>> /\ UNCHANGED jobs
             \/ /\ Dropped(n) # <<>>
                /\ \E r \in Removers :
                      /\ ~Running(r)
                      /\ jobs' = [jobs EXCEPT ![r] =
                            [indexes |-> Dropped(n), i |-> 0, asleep |-> FALSE]]
    /\ UNCHANGED <<files, missed>>

\* Mutant: no look at the lookup map.
MissingUnchecked(ois) == ois
\* What removeIfMissing removes.
Missing(ois) == {o \in ois : lookup[o] = Absent}

\* Mutant: the slice starts one too late.
BulkOffByOne(r) == LET job == jobs[r] IN
    SubSeq(job.indexes, job.i + 2, Min({job.i + bulkRemoveCount, Len(job.indexes)}))

\* The next bulk of a goroutine, with the count it reads now.
Bulk(r) == LET job == jobs[r] IN
    SubSeq(job.indexes, job.i + 1, Min({job.i + bulkRemoveCount, Len(job.indexes)}))

\* removeIfMissing of one bulk.
RemoveBulk(r) ==
    /\ Running(r) /\ ~jobs[r].asleep
    /\ files' = files \ Missing(ToSet(Bulk(r)))
    /\ jobs'  = [jobs EXCEPT ![r].asleep = TRUE]
    /\ UNCHANGED <<tiers, lookup, config, missed>>

\* Mutant: the loop also counts by itself.
AdvancedTwice(r) == jobs[r].i + bulkRemoveCount + 1
Advanced(r) == jobs[r].i + bulkRemoveCount

\* The timer: i += BulkRemoveCount, with the count it reads now.
WakeUp(r) ==
    /\ Running(r) /\ jobs[r].asleep
    /\ jobs' = [jobs EXCEPT ![r] =
          IF Advanced(r) < Len(@.indexes)
          THEN [@ EXCEPT !.i = Advanced(r), !.asleep = FALSE]
          ELSE NoJob]
    /\ UNCHANGED <<tiers, lookup, config, files, missed>>

-----------------------------------------------------------------------------
\* New and init
Init ==
    /\ tiers  = [i \in Tiers |-> <<>>]
    /\ lookup = [o \in Objects |-> Absent]
    /\ storageObjects  \in Sizes
    /\ bulkRemoveCount \in BulkCounts
    /\ tierListSize = TierSize(storageObjects)
    /\ files  = {}
    /\ jobs   = [r \in Removers |-> NoJob]
    /\ missed = {}

Next ==
    \/ \E o \in Objects :
          \/ AddObject(o)
          \/ AddCachedObject(o)
          \/ PromoteObject(o)
          \/ \E p \in Promoters : PromoteMiss(p, o) \/ PromoteAdd(p, o)
    \/ \E S \in SUBSET Objects : RemoveObjects(S)
    \/ \E n \in Sizes, count \in BulkCounts : ChangeConfig(n, count)
    \/ \E r \in Removers : RemoveBulk(r) \/ WakeUp(r)

Spec == Init /\ [][Next]_vars

\* A started goroutine keeps running: its bulks and its timer are never
\* starved. Nothing is assumed of the requests.
FairSpec == Spec /\ \A r \in Removers : WF_vars(RemoveBulk(r)) /\ WF_vars(WakeUp(r))

-----------------------------------------------------------------------------
(* Properties *)

TypeOK ==
    /\ tiers \in [Tiers -> Seq(Objects)]
    /\ lookup \in [Objects -> Tiers \cup {Absent}]
    /\ storageObjects \in Sizes
    /\ bulkRemoveCount \in BulkCounts
    /\ tierListSize = storageObjects \div cacheTiers
    /\ files \subseteq Objects
    /\ jobs \in [Removers -> [indexes : Seq(Objects), i : Nat, asleep : BOOLEAN]]
    /\ missed \subseteq Promoters \X Objects

\* The lookup map and the lists agree: an object is in the list of the tier
\* its Element names and in no other, once. PromoteObject and
\* freeSpaceInLastList log an "ERROR!" (lru.go:139, 230) when they do not,
\* and the former loops on it.
IndexMatchesTiers ==
    /\ \A i \in Tiers : IsInjective(tiers[i])
    /\ \A i \in Tiers, o \in Objects : o \in ToSet(tiers[i]) <=> lookup[o] = i

\* No tier outgrows tierListSize (checkTiers, lru.go:239), but for the one
\* object each tier can still get when storage_objects is below cacheTiers.
TiersBounded ==
    \A i \in Tiers : Len(tiers[i]) <= Max({tierListSize, 1})

\* README.md:132, "the maximum amount of objects which will be stored".
CapacityRespected == Len(Ranking) <= storageObjects

\* The same for a zone configured with at least one object per tier.
CapacityOfLargeZones == storageObjects >= cacheTiers => CapacityRespected

\* What throttledRemove still has to look at: the goroutine that waits has
\* not yet passed the bulk it has just removed.
PendingRemoval(r) == LET job == jobs[r] IN
    ToSet(SubSeq(job.indexes,
                 job.i + 1 + (IF job.asleep THEN bulkRemoveCount ELSE 0),
                 Len(job.indexes)))

\* A part on disk is either accounted for in the cache or about to be looked
\* at by throttledRemove: none is forgotten on disk, whatever is added again,
\* evicted or dropped by a second resize while a removal sleeps.
NoOrphanFile ==
    files \subseteq Cached \cup UNION {PendingRemoval(r) : r \in Removers}

\* The least that can be asked of throttledRemove, whatever the configuration
\* does meanwhile: a goroutine that ended leaves none of its files behind,
\* unless the cache lists the object again (lru.go:346, "remove the elements").
RemovalIsComplete ==
    files \subseteq Cached \cup UNION {ToSet(jobs[r].indexes) : r \in Removers}

\* throttledRemove removes elements "only if they are not in the cache at the
\* time of removal" (lru.go:347), and so does an eviction: no step deletes
\* the part of an object the cache still lists.
NeverDeletesCached ==
    [][\A o \in files \ files' : lookup'[o] = Absent]_vars

\* Eventually a part that is on disk and not in the cache is removed, or its
\* object is cached again.
OrphansEventuallyRemoved ==
    \A o \in Objects : (o \in files /\ lookup[o] = Absent)
                          ~> (o \notin files \/ lookup[o] # Absent)

\* The ranking a cache promises is the concatenation of the tiers.
Ranked == INSTANCE RankedCache WITH
    Capacities <- {cacheTiers * (n \div cacheTiers) : n \in Sizes},
    ranking    <- Ranking,
    capacity   <- cacheTiers * tierListSize

\* Everything the tiers do is something a ranked cache may do: an eviction
\* takes the worst ranked object and only from a full cache, a resize keeps
\* the best ranked ones, a promotion or the cascade of freeSpaceInLastList
\* never reorders two objects it is not about.
ImplementsRankedCache == Ranked!Spec

=============================================================================
